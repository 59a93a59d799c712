--------------------------- MODULE TokenCacheProofs ---------------------------
(***************************************************************************)
(* Proofs about TokenCache, for any number of calls and of retries.        *)
(***************************************************************************)
EXTENDS TokenCache, FiniteSetTheorems, TLAPS

USE RetriesAssumption DEF None, Tokens, Verdicts

\* A call that sends a request or stores a token has one.
Holding == \A c \in Calls : pc[c] \in {"store", "operate", "clear"} => token[c] # None

\* Nothing has been done for a call that is still trying.
AppliedAtEnd ==
  \A c \in Calls : /\ applied[c] <= 1
                   /\ pc[c] \notin {"success", "error"} => applied[c] = 0
                   /\ pc[c] = "success" => applied[c] = 1

\* A token that its call has not stored yet is known to that call only.
Unpublished ==
  \A c \in Calls : pc[c] = "store" =>
    /\ cache # token[c]
    /\ \A d \in Calls : token[c] \notin refused[d] /\ (d # c => token[d] # token[c])

\* What a call may find in the cache was not refused to it ...
NotRefused == \A c \in Calls : /\ pc[c] = "execute" => refused[c] = {}
                               /\ pc[c] = "get" => cache \notin refused[c]
                               /\ pc[c] = "operate" => token[c] \notin refused[c]

\* ... so that it was refused with a token per attempt.
Counted ==
  \A c \in Calls :
    /\ IsFiniteSet(refused[c])
    /\ pc[c] \in {"execute", "get", "login", "store", "operate"} =>
         Cardinality(refused[c]) = attempt[c]
    /\ pc[c] = "clear" => Cardinality(refused[c]) = attempt[c] + 1
    /\ pc[c] = "unauthorized" => Cardinality(refused[c]) = maxOperationRetries + 1

IInv == AppliedAtEnd /\ Unpublished /\ NotRefused /\ Counted
-----------------------------------------------------------------------------
\* Tokens are tokens, retry counters stay below their limits.
THEOREM TypeCorrect == Spec => [](TypeOK /\ Holding)
<1>1. Init => TypeOK /\ Holding
  BY DEF Init, TypeOK, Holding
<1>2. TypeOK /\ Holding /\ [Next]_vars => TypeOK' /\ Holding'
  <2> SUFFICES ASSUME TypeOK, Holding, [Next]_vars PROVE TypeOK' /\ Holding'
    OBVIOUS
  <2> USE DEF TypeOK, Holding, Moves
  <2>1. CASE Expire
    BY <2>1 DEF Expire
  <2>2. ASSUME NEW c \in Calls, Execute(c) PROVE TypeOK' /\ Holding'
    BY <2>2 DEF Execute
  <2>3. ASSUME NEW c \in Calls, Get(c) PROVE TypeOK' /\ Holding'
    BY <2>3 DEF Get
  <2>4. ASSUME NEW c \in Calls, Login(c) PROVE TypeOK' /\ Holding'
    <3>1. issued' \in Nat /\ Tokens \subseteq Tokens' /\ issued + 1 \in Tokens'
      BY <2>4 DEF Login
    <3> QED
      BY <2>4, <3>1 DEF Login
  <2>5. ASSUME NEW c \in Calls, LoginFails(c) PROVE TypeOK' /\ Holding'
    BY <2>5 DEF LoginFails
  <2>6. ASSUME NEW c \in Calls, Store(c) PROVE TypeOK' /\ Holding'
    BY <2>6 DEF Store
  <2>7. ASSUME NEW c \in Calls, Operate(c) PROVE TypeOK' /\ Holding'
    <3>1. token[c] \in Tokens /\ applied[c] + 1 \in Nat
      BY <2>7 DEF Operate
    <3>2. refused[c] \cup {token[c]} \in SUBSET Tokens
      BY <3>1
    <3>3. /\ issued' = issued
          /\ applied' = applied \/ applied' = [applied EXCEPT ![c] = @ + 1]
          /\ refused' = refused \/ refused' = [refused EXCEPT ![c] = @ \cup {token[c]}]
      BY <2>7 DEF Operate
    <3>5. Tokens' = Tokens
      BY <3>3 DEF Tokens
    <3>6. applied' \in [Calls -> Nat]
      BY <3>1, <3>3
    <3>7. refused' \in [Calls -> SUBSET Tokens]
      BY <3>2, <3>3
    <3>4. /\ pc' \in [Calls -> Verdicts \cup {"execute", "get", "login", "store",
                                              "operate", "clear"}]
          /\ Holding'
      BY <2>7 DEF Operate
    <3> QED
      BY <2>7, <3>4, <3>5, <3>6, <3>7 DEF Operate
  <2>8. ASSUME NEW c \in Calls, OperateFails(c) PROVE TypeOK' /\ Holding'
    BY <2>8 DEF OperateFails
  <2>9. ASSUME NEW c \in Calls, Clear(c) PROVE TypeOK' /\ Holding'
    BY <2>9 DEF Clear
  <2>10. CASE UNCHANGED vars
    BY <2>10 DEF vars
  <2> QED
    BY <2>1, <2>2, <2>3, <2>4, <2>5, <2>6, <2>7, <2>8, <2>9, <2>10 DEF Next, Step
<1> QED
  BY <1>1, <1>2, PTL DEF Spec

\* The request is not repeated once it has been accepted.
LEMMA AppliedStep ==
  ASSUME TypeOK, AppliedAtEnd, [Next]_vars
  PROVE  AppliedAtEnd'
<1> USE DEF TypeOK, AppliedAtEnd, Moves
<1>1. ASSUME NEW c \in Calls, Operate(c) \/ OperateFails(c) PROVE AppliedAtEnd'
  BY <1>1 DEF Operate, OperateFails
<1>2. ASSUME NEW c \in Calls,
             Execute(c) \/ Get(c) \/ Login(c) \/ LoginFails(c) \/ Store(c) \/ Clear(c)
      PROVE  AppliedAtEnd'
  BY <1>2 DEF Execute, Get, Login, LoginFails, Store, Clear
<1>3. CASE UNCHANGED <<pc, applied>>
  BY <1>3
<1> QED
  BY <1>1, <1>2, <1>3 DEF Next, Step, Expire, vars

\* A token goes from its login to the cache, and out of it for good.
LEMMA RefusedStep ==
  ASSUME TypeOK, Holding, Unpublished, NotRefused, [Next]_vars
  PROVE  Unpublished' /\ NotRefused'
<1> USE DEF TypeOK, Holding, Unpublished, NotRefused, Moves
<1> DEFINE Goal == Unpublished' /\ NotRefused'
<1>1. CASE Expire
  BY <1>1 DEF Expire
<1>2. ASSUME NEW c \in Calls, Execute(c) PROVE Goal
  BY <1>2 DEF Execute
<1>3. ASSUME NEW c \in Calls, Get(c) PROVE Goal
  BY <1>3 DEF Get
<1>4. ASSUME NEW c \in Calls, Login(c) PROVE Goal
  <2>1. issued + 1 \notin Tokens \cup {None}
    OBVIOUS
  <2> QED
    BY <1>4, <2>1 DEF Login
<1>5. ASSUME NEW c \in Calls, LoginFails(c) PROVE Goal
  BY <1>5 DEF LoginFails
<1>6. ASSUME NEW c \in Calls, Store(c) PROVE Goal
  BY <1>6 DEF Store
<1>7. ASSUME NEW c \in Calls, Operate(c) PROVE Goal
  BY <1>7 DEF Operate
<1>8. ASSUME NEW c \in Calls, OperateFails(c) PROVE Goal
  BY <1>8 DEF OperateFails
<1>9. ASSUME NEW c \in Calls, Clear(c) PROVE Goal
  BY <1>9 DEF Clear
<1>10. CASE UNCHANGED vars
  BY <1>10 DEF vars
<1> QED
  BY <1>1, <1>2, <1>3, <1>4, <1>5, <1>6, <1>7, <1>8, <1>9, <1>10 DEF Next, Step

\* Each refusal is of another token.
LEMMA CountStep ==
  ASSUME TypeOK, NotRefused, Counted, [Next]_vars
  PROVE  Counted'
<1> USE DEF TypeOK, Counted, Moves
<1>1. CASE UNCHANGED <<refused, attempt>> /\ UNCHANGED pc
  BY <1>1
<1>2. ASSUME NEW c \in Calls,
             Execute(c) \/ Get(c) \/ Login(c) \/ LoginFails(c) \/ Store(c)
               \/ OperateFails(c)
      PROVE  Counted'
  BY <1>2 DEF Execute, Get, Login, LoginFails, Store, OperateFails
<1>3. ASSUME NEW c \in Calls, Operate(c) PROVE Counted'
  <2>1. pc[c] = "operate" /\ token[c] \notin refused[c]
    BY <1>3 DEF Operate, NotRefused
  <2>2. /\ IsFiniteSet(refused[c] \cup {token[c]})
        /\ Cardinality(refused[c] \cup {token[c]}) = Cardinality(refused[c]) + 1
    BY <2>1, FS_AddElement
  <2> QED
    BY <1>3, <2>1, <2>2 DEF Operate
<1>4. ASSUME NEW c \in Calls, Clear(c) PROVE Counted'
  BY <1>4 DEF Clear
<1> QED
  BY <1>1, <1>2, <1>3, <1>4 DEF Next, Step, Expire, vars

\* The inductive invariant.
THEOREM Invariance == Spec => [](TypeOK /\ IInv)
<1>1. Init => AppliedAtEnd /\ Unpublished /\ NotRefused /\ Counted
  BY FS_EmptySet DEF Init, AppliedAtEnd, Unpublished, NotRefused, Counted
<1> QED
  BY <1>1, AppliedStep, RefusedStep, CountStep, TypeCorrect, PTL DEF Spec, IInv

\* An application is started or stopped once per call at most, and for certain
\* when the call reports success.
THEOREM AppliedAtMostOnce == Spec => []AppliedOnce
<1>1. IInv => AppliedOnce
  BY DEF IInv, AppliedAtEnd, AppliedOnce
<1> QED
  BY <1>1, Invariance, PTL

\* A retry uses a token that the call was not refused with before.
THEOREM RetriesDiffer == Spec => []RetryUsesAnotherToken
<1>1. IInv => RetryUsesAnotherToken
  BY DEF IInv, NotRefused, Counted, RetryUsesAnotherToken
<1> QED
  BY <1>1, Invariance, PTL
-----------------------------------------------------------------------------
\* The most steps that a call takes for one attempt: a look, every login that may fail and
\* one that does not, store, operation, clearing.
Attempt == maxLoginRetries + 5

\* Where a call is within its attempt, counted from the end.
Ahead(c) == CASE pc[c] = "execute" -> Attempt + 1
              [] pc[c] = "get"     -> Attempt
              [] pc[c] = "login"   -> 4 + maxLoginRetries - tries[c]
              [] pc[c] = "store"   -> 3
              [] pc[c] = "operate" -> 2
              [] pc[c] = "clear"   -> 1

\* The steps that it has left, at most.
StepsLeft(c) == IF pc[c] \in Verdicts THEN 0
                ELSE Ahead(c) + (maxOperationRetries - attempt[c]) * Attempt

\* One attempt less is one Attempt of steps less.
LEMMA AttemptCosts ==
  ASSUME NEW a \in 0..maxOperationRetries
  PROVE  /\ (maxOperationRetries - a) * Attempt \in Nat
         /\ a < maxOperationRetries =>
              (maxOperationRetries - (a + 1)) * Attempt + Attempt = (maxOperationRetries - a) * Attempt
<1>1. Attempt \in Nat
  BY DEF Attempt
<1>2. \A n, w \in Nat : n * w \in Nat
  OBVIOUS
<1>3. \A n, w \in Nat : n > 0 => (n - 1) * w + w = n * w
  OBVIOUS
<1> DEFINE n == maxOperationRetries - a
<1>4. n \in Nat /\ maxOperationRetries - (a + 1) = n - 1
  OBVIOUS
<1> HIDE DEF n
<1>5. n * Attempt \in Nat
  BY <1>1, <1>2, <1>4
<1>6. n > 0 => (n - 1) * Attempt + Attempt = n * Attempt
  BY <1>1, <1>3, <1>4
<1>7. a < maxOperationRetries => n > 0
  BY DEF n
<1> QED
  BY <1>4, <1>5, <1>6, <1>7 DEF n

LEMMA AheadOfEnd ==
  ASSUME TypeOK, NEW c \in Calls
  PROVE  /\ pc[c] \notin Verdicts => Ahead(c) \in 1..Attempt + 1
         /\ StepsLeft(c) \in Nat
<1>1. pc[c] \notin Verdicts => Ahead(c) \in 1..Attempt + 1
  BY DEF TypeOK, Ahead, Attempt
<1>2. attempt[c] \in 0..maxOperationRetries
  BY DEF TypeOK
<1> HIDE DEF Verdicts
<1>3. (maxOperationRetries - attempt[c]) * Attempt \in Nat
  BY <1>2, AttemptCosts
<1>4. Attempt \in Nat
  BY DEF Attempt
<1> QED
  BY <1>1, <1>3, <1>4 DEF StepsLeft

\* A step of a call brings it nearer to its end.
LEMMA StepCosts ==
  ASSUME TypeOK, TypeOK', NEW c \in Calls, Step(c)
  PROVE  StepsLeft(c)' < StepsLeft(c)
<1> DEFINE spare == (maxOperationRetries - attempt[c]) * Attempt
<1>0. /\ attempt[c] \in 0..maxOperationRetries /\ tries[c] \in 0..maxLoginRetries
      /\ pc \in [Calls -> Verdicts \cup {"execute", "get", "login", "store", "operate", "clear"}]
      /\ attempt \in [Calls -> 0..maxOperationRetries] /\ tries \in [Calls -> 0..maxLoginRetries]
  BY DEF TypeOK
<1>1. spare \in Nat /\ pc[c] \notin Verdicts /\ Attempt \in Nat
  BY <1>0, AttemptCosts DEF Step, Execute, Get, Login, LoginFails, Store, Operate, OperateFails, Clear,
                            Moves, Attempt
<1>2. StepsLeft(c) = Ahead(c) + spare /\ Ahead(c) \in 1..Attempt + 1
  BY <1>1, AheadOfEnd DEF StepsLeft
<1>3. CASE pc'[c] \in Verdicts
  <2>1. StepsLeft(c)' = 0
    BY <1>3 DEF StepsLeft
  <2> QED
    BY <1>1, <1>2, <2>1
<1>4. CASE pc'[c] \notin Verdicts /\ attempt'[c] = attempt[c]
  <2>1. StepsLeft(c)' = Ahead(c)' + spare
    BY <1>4 DEF StepsLeft
  <2>2. Ahead(c)' < Ahead(c) /\ Ahead(c)' \in Int
    BY <1>0, <1>4 DEF Step, Execute, Get, Login, LoginFails, Store, Operate, OperateFails, Clear,
                      Moves, Ahead, Attempt
  <2> QED
    BY <1>1, <1>2, <2>1, <2>2
<1>5. CASE attempt'[c] # attempt[c] /\ pc'[c] \notin Verdicts
  <2>1. pc[c] = "clear" /\ pc'[c] = "get" /\ attempt'[c] = attempt[c] + 1 /\ attempt[c] < maxOperationRetries
    BY <1>0, <1>5 DEF Step, Execute, Get, Login, LoginFails, Store, Operate, OperateFails, Clear, Moves
  <2>2. Ahead(c)' = Attempt /\ Ahead(c) = 1
    BY <2>1 DEF Ahead
  <2>3. StepsLeft(c)' = Attempt + (maxOperationRetries - (attempt[c] + 1)) * Attempt
    BY <1>5, <2>1, <2>2 DEF StepsLeft
  <2>4. (maxOperationRetries - (attempt[c] + 1)) * Attempt + Attempt = spare
    BY <1>0, <2>1, AttemptCosts
  <2>5. (maxOperationRetries - (attempt[c] + 1)) * Attempt \in Int
    BY <1>0, <1>1
  <2> QED
    BY <1>1, <1>2, <2>2, <2>3, <2>4, <2>5
<1> QED
  BY <1>3, <1>4, <1>5

\* The retries of Execute and of getCachedTokenOrLogin, one loop in the other, cannot feed
\* each other: every step of a call leaves it fewer steps, of a number that only the limits
\* of the retries determine, and no other call or expiry gives it more, although they clear
\* the cache that it looks into.
THEOREM RetriesAreBounded ==
  Spec => [][\A c \in Calls : /\ StepsLeft(c)' \in Nat /\ StepsLeft(c)' <= StepsLeft(c)
                              /\ Step(c) => StepsLeft(c)' < StepsLeft(c)]_vars
<1>0. TypeOK => \A c \in Calls : StepsLeft(c) \in Nat
  BY AheadOfEnd
<1>1. TypeOK' => (\A c \in Calls : StepsLeft(c) \in Nat)'
  BY <1>0, PTL
<1>2. ASSUME TypeOK, TypeOK', Next, NEW c \in Calls
      PROVE  /\ StepsLeft(c)' \in Nat /\ StepsLeft(c)' <= StepsLeft(c)
             /\ Step(c) => StepsLeft(c)' < StepsLeft(c)
  <2>1. StepsLeft(c)' \in Nat /\ StepsLeft(c) \in Nat
    BY <1>0, <1>1, <1>2
  <2>2. CASE Step(c)
    BY <1>2, <2>1, <2>2, StepCosts
  <2>3. CASE ~Step(c)
    <3>1. pc'[c] = pc[c] /\ tries'[c] = tries[c] /\ attempt'[c] = attempt[c]
      BY <1>2, <2>3 DEF TypeOK, Next, Expire, Step, Execute, Get, Login, LoginFails, Store, Operate,
                        OperateFails, Clear, Moves
    <3>2. StepsLeft(c)' = StepsLeft(c)
      BY <3>1 DEF StepsLeft, Ahead
    <3> QED BY <2>1, <2>3, <3>2
  <2> QED BY <2>2, <2>3
<1>3. TypeOK /\ TypeOK' /\ Next =>
        \A c \in Calls : /\ StepsLeft(c)' \in Nat /\ StepsLeft(c)' <= StepsLeft(c)
                         /\ Step(c) => StepsLeft(c)' < StepsLeft(c)
  BY <1>2
<1> QED
  BY <1>3, TypeCorrect, PTL DEF Spec
=============================================================================
