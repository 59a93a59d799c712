------------------------------ MODULE TokenCache ------------------------------
(***************************************************************************)
(* The Cloud Foundry plugin's token cache (adaptors/cfplugin): the workers *)
(* of the task runner call Execute at the same time and share one cached   *)
(* token per account.  The mutex covers each access of the cache, never a  *)
(* login or a request.  Calls that use other accounts use other keys, and  *)
(* have no part in what is modelled here.                                  *)
(*                                                                         *)
(* Tokens are numbered in the order in which the service issues them.      *)
(***************************************************************************)
EXTENDS Naturals, FiniteSets

CONSTANTS Calls,                 \* the calls of Execute with one cache key
          maxLoginRetries,
          maxOperationRetries

ASSUME RetriesAssumption == maxLoginRetries \in Nat /\ maxOperationRetries \in Nat

VARIABLES
  cache,    \* the cached token, or None
  issued,   \* tokens issued so far
  live,     \* those the service still accepts
  pc,       \* where each call is
  token,    \* the token each call holds
  attempt,  \* of Execute's loop
  tries,    \* failed logins of getCachedTokenOrLogin's loop
  refused,  \* history: the tokens each call was refused with
  applied   \* history: how often the service did what the call asks for

vars == <<cache, issued, live, pc, token, attempt, tries, refused, applied>>

None == 0
Tokens == 1..issued

Verdicts == {"success", "badContext", "noLogin", "unauthorized", "error"}

TypeOK == /\ issued \in Nat
          /\ cache \in Tokens \cup {None}
          /\ live \subseteq Tokens
          /\ pc \in [Calls -> Verdicts \cup {"execute", "get", "login", "store",
                                             "operate", "clear"}]
          /\ token \in [Calls -> Tokens \cup {None}]
          /\ attempt \in [Calls -> 0..maxOperationRetries]
          /\ tries \in [Calls -> 0..maxLoginRetries]
          /\ refused \in [Calls -> SUBSET Tokens]
          /\ applied \in [Calls -> Nat]

\* An earlier call may have left a token, which may have expired since.
Init == /\ issued \in {0, 1}
        /\ cache \in Tokens \cup {None}
        /\ live \in SUBSET Tokens
        /\ pc = [c \in Calls |-> "execute"]
        /\ token = [c \in Calls |-> None]
        /\ attempt = [c \in Calls |-> 0]
        /\ tries = [c \in Calls |-> 0]
        /\ refused = [c \in Calls |-> {}]
        /\ applied = [c \in Calls |-> 0]

Moves(c, source, target) == /\ pc[c] = source
                            /\ pc' = [pc EXCEPT ![c] = target]

-----------------------------------------------------------------------------
\* Execute parses its context.
Execute(c) == /\ Moves(c, "execute", "get") \/ Moves(c, "execute", "badContext")
              /\ UNCHANGED <<cache, issued, live, token, attempt, tries, refused,
                             applied>>

\* getCachedTokenOrLogin looks into the cache ...
Get(c) == /\ pc[c] = "get"
          /\ IF cache # None
             THEN /\ Moves(c, "get", "operate")
                  /\ token' = [token EXCEPT ![c] = cache]
             ELSE /\ Moves(c, "get", "login")
                  /\ UNCHANGED token
          /\ tries' = [tries EXCEPT ![c] = 0]
          /\ UNCHANGED <<cache, issued, live, attempt, refused, applied>>

\* ... and logs in without the lock, ...
Login(c) == /\ Moves(c, "login", "store")
            /\ issued' = issued + 1
            /\ live' = live \cup {issued + 1}
            /\ token' = [token EXCEPT ![c] = issued + 1]
            /\ UNCHANGED <<cache, attempt, tries, refused, applied>>

MutLoginFails(c) ==   \* counts the tries off by one
  /\ Moves(c, "login", IF tries[c] <= maxLoginRetries THEN "login" ELSE "noLogin")
  /\ tries' = [tries EXCEPT ![c] = IF @ <= maxLoginRetries THEN @ + 1 ELSE @]
  /\ UNCHANGED <<cache, issued, live, token, attempt, refused, applied>>

\* ... several times, if it has to.
LoginFails(c) ==
  /\ Moves(c, "login", IF tries[c] < maxLoginRetries THEN "login" ELSE "noLogin")
  /\ tries' = [tries EXCEPT ![c] = IF @ < maxLoginRetries THEN @ + 1 ELSE @]
  /\ UNCHANGED <<cache, issued, live, token, attempt, refused, applied>>

Store(c) == /\ Moves(c, "store", "operate")
            /\ cache' = token[c]
            /\ UNCHANGED <<issued, live, token, attempt, tries, refused, applied>>

\* startApp and stopApp: the service does it, refuses the token, or fails;
\* when the answer is lost or an error, it may have done it.
Operate(c) ==
  \/ /\ token[c] \in live
     /\ Moves(c, "operate", "success")
     /\ applied' = [applied EXCEPT ![c] = @ + 1]
     /\ UNCHANGED <<cache, issued, live, token, attempt, tries, refused>>
  \/ /\ token[c] \notin live
     /\ Moves(c, "operate", "clear")
     /\ refused' = [refused EXCEPT ![c] = @ \cup {token[c]}]
     /\ UNCHANGED <<cache, issued, live, token, attempt, tries, applied>>

MutOperateFails(c) ==   \* every error is a reason to try again
  /\ Moves(c, "operate", "clear")
  /\ \/ token[c] \in live /\ applied' = [applied EXCEPT ![c] = @ + 1]
     \/ UNCHANGED applied
  /\ UNCHANGED <<cache, issued, live, token, attempt, tries, refused>>

OperateFails(c) ==
  /\ Moves(c, "operate", "error")
  /\ \/ token[c] \in live /\ applied' = [applied EXCEPT ![c] = @ + 1]
     \/ UNCHANGED applied
  /\ UNCHANGED <<cache, issued, live, token, attempt, tries, refused>>

MutClear(c) ==   \* leaves the token in the cache
  /\ Moves(c, "clear", IF attempt[c] < maxOperationRetries THEN "get"
                       ELSE "unauthorized")
  /\ attempt' = [attempt EXCEPT ![c] = IF @ < maxOperationRetries THEN @ + 1 ELSE @]
  /\ UNCHANGED <<cache, issued, live, token, tries, refused, applied>>

MutClear2(c) ==   \* does not count, and leaves the token
  /\ Moves(c, "clear", "get")
  /\ UNCHANGED <<cache, issued, live, token, attempt, tries, refused, applied>>

\* Execute deletes whatever token is cached, its own or a newer one.
Clear(c) ==
  /\ cache' = None
  /\ Moves(c, "clear", IF attempt[c] < maxOperationRetries THEN "get"
                       ELSE "unauthorized")
  /\ attempt' = [attempt EXCEPT ![c] = IF @ < maxOperationRetries THEN @ + 1 ELSE @]
  /\ UNCHANGED <<issued, live, token, tries, refused, applied>>

Step(c) == \/ Execute(c) \/ Get(c) \/ Login(c) \/ LoginFails(c) \/ Store(c)
           \/ Operate(c) \/ OperateFails(c) \/ Clear(c)

\* The service stops accepting a token, at any time.
Expire == /\ \E t \in live : live' = live \ {t}
          /\ UNCHANGED <<cache, issued, pc, token, attempt, tries, refused, applied>>

Next == Expire \/ \E c \in Calls : Step(c)

Spec == Init /\ [][Next]_vars

\* Each call runs in a goroutine of its own, and its requests time out.
FairSpec == Spec /\ \A c \in Calls : WF_vars(Step(c))
-----------------------------------------------------------------------------
\* The application is started or stopped once at most, retries or not, and a
\* call that says so has done it.
AppliedOnce == \A c \in Calls : /\ applied[c] <= 1
                                /\ pc[c] = "success" => applied[c] = 1

\* The retry after a refused token never uses that token again, whatever the
\* other calls write to the cache meanwhile: a call that gives up was refused
\* with as many tokens as it has attempts.
RetryUsesAnotherToken ==
  \A c \in Calls : /\ pc[c] = "operate" => token[c] \notin refused[c]
                   /\ pc[c] = "unauthorized" =>
                        Cardinality(refused[c]) = maxOperationRetries + 1

\* Every call returns, however often tokens expire and logins fail.
Returns == \A c \in Calls : <>(pc[c] \in Verdicts)
=============================================================================
