----------------------------- MODULE HanaAdaptor -----------------------------
(***************************************************************************)
(* The HANA plugin (adaptors/hana-adaptor): Execute lists the remote       *)
(* subscriptions of a schema on one connection, builds a list of SQL       *)
(* statements from them, and executes the list in a transaction of         *)
(* another connection.  Several calls may do so at a time.                 *)
(*                                                                         *)
(* The database is external.  A transaction sees its own changes, others   *)
(* see what is committed, and transactions that change one schema take     *)
(* turns.  Whether DDL takes part in a transaction or commits by itself is *)
(* a setting of the database that the code does not make: both are tried.  *)
(***************************************************************************)
EXTENDS Naturals, FiniteSets

CONSTANTS Calls,      \* calls of Execute
          Tables,     \* the tables of the schema
          Mirrored,   \* those that have a virtual table VT_...
          Excluded,   \* those that are never subscribed
          NoTable,
          MaxFaults   \* bound: failing calls on the database, crashes

ASSUME TablesAssumption == /\ IsFiniteSet(Tables)
                           /\ Mirrored \subseteq Tables /\ Excluded \subseteq Tables
                           /\ NoTable \notin Tables
ASSUME MaxFaultsAssumption == MaxFaults \in Nat

VARIABLES
  committed,   \* the database as every connection sees it
  db,          \* the same with the changes of the open transaction
  pc,          \* where each call is; while it executes, its next statement
  op,          \* its action
  todo,        \* tables that statements of its list are still to come for
  current,     \* the table it is busy with
  result,      \* what Execute returned
  faults,      \* faults so far
  ddlCommits,  \* does DDL commit by itself
  overlap      \* may calls overlap in this behaviour

callVars == <<pc, op, todo, current, result>>
settings == <<ddlCommits, overlap>>
vars == <<committed, db, callVars, faults, settings>>

\* subs: the subscription of each table; rows: the tables that have any.
Database == [subs : [Tables -> {"none", "created", "distributed"}],
             rows : SUBSET Tables,
             capture : {"running", "suspended"}]

Statements == {"suspend", "drop", "resume", "truncate", "create", "distribute", "commit"}

TypeOK ==
  /\ committed \in Database
  /\ db \in Database
  /\ pc \in [Calls -> Statements \cup {"idle", "look", "connect", "over"}]
  /\ op \in [Calls -> {"create", "delete", "read"}]
  /\ todo \in [Calls -> SUBSET Tables]
  /\ current \in [Calls -> Tables \cup {NoTable}]
  /\ result \in [Calls -> {"none", "success", "skipped", "error"}]
  /\ faults \in 0..MaxFaults
  /\ ddlCommits \in BOOLEAN
  /\ overlap \in BOOLEAN

\* The tables that createRemoteSubscriptions makes statements for.
Mapped == Mirrored \ Excluded

Subscribed(d) == {t \in Tables : d.subs[t] # "none"}
Unsubscribed == [t \in Tables |-> "none"]
Complete == [t \in Tables |-> IF t \in Mapped THEN "distributed" ELSE "none"]

\* The schema has no subscriptions, or those that the plugin makes.
Init == /\ committed \in [subs : {Unsubscribed, Complete}, rows : {Tables},
                          capture : {"running"}]
        /\ db = committed
        /\ pc = [c \in Calls |-> "idle"]
        /\ op \in [Calls -> {"create", "delete", "read"}]
        /\ todo = [c \in Calls |-> {}]
        /\ current = [c \in Calls |-> NoTable]
        /\ result = [c \in Calls |-> "none"]
        /\ faults = 0
        /\ ddlCommits \in BOOLEAN
        /\ overlap \in BOOLEAN

Executing(c) == pc[c] \in Statements
Active(c) == pc[c] \notin {"idle", "over"}

Moves(c, target) == /\ pc' = [pc EXCEPT ![c] = target]
                    /\ UNCHANGED <<op, result>>

Returns(c, answer) == /\ pc' = [pc EXCEPT ![c] = "over"]
                      /\ result' = [result EXCEPT ![c] = answer]
                      /\ UNCHANGED <<op, todo, current>>

Fault == faults < MaxFaults /\ faults' = faults + 1
-----------------------------------------------------------------------------
\* Execute has what it needs in its context, ...
Begin(c) == /\ pc[c] = "idle"
            /\ overlap \/ \A d \in Calls : ~Active(d)
            /\ Moves(c, "look")
            /\ UNCHANGED <<committed, db, todo, current, faults, settings>>

\* ... or a key is missing or not a string, or the action unknown.
BadContext(c) == /\ pc[c] = "idle"
                 /\ Returns(c, "error")
                 /\ UNCHANGED <<committed, db, faults, settings>>

\* The list for the tables of names will be executed.
Plans(c, names) == /\ Moves(c, "connect")
                   /\ todo' = [todo EXCEPT ![c] = names]
                   /\ UNCHANGED current

\* readRemoteSubscriptions
LookOnly(c) == /\ pc[c] = "look" /\ op[c] = "read"
               /\ Returns(c, "success")
               /\ UNCHANGED <<committed, db, faults, settings>>

MutLookToDelete(c) ==   \* a subscription that is not distributed is overlooked
  /\ pc[c] = "look" /\ op[c] = "delete"
  /\ LET existing == {t \in Tables : committed.subs[t] = "distributed"}
     IN  IF existing = {} THEN Returns(c, "success") ELSE Plans(c, existing)
  /\ UNCHANGED <<committed, db, faults, settings>>

MutPlanOfDeletion(c) ==   \* a row without a name is not passed over
  /\ pc[c] = "look" /\ op[c] = "delete"
  /\ LET existing == Subscribed(committed)
     IN  IF existing = {} THEN Returns(c, "success") ELSE Plans(c, existing \cup {NoTable})
  /\ UNCHANGED <<committed, db, faults, settings>>

\* deleteRemoteSubscriptions: the subscriptions there are, if there are any.
LookToDelete(c) ==
  /\ pc[c] = "look" /\ op[c] = "delete"
  /\ LET existing == Subscribed(committed)
     IN  IF existing = {} THEN Returns(c, "success") ELSE Plans(c, existing)
  /\ UNCHANGED <<committed, db, faults, settings>>

MutLookToCreate(c) ==   \* does not look for subscriptions
  /\ pc[c] = "look" /\ op[c] = "create"
  /\ IF Mapped = {} THEN Returns(c, "success") ELSE Plans(c, Mapped)
  /\ UNCHANGED <<committed, db, faults, settings>>

\* createRemoteSubscriptions: nothing is done if there is any subscription.
LookToCreate(c) ==
  /\ pc[c] = "look" /\ op[c] = "create"
  /\ \/ /\ Subscribed(committed) # {}
        /\ Returns(c, "skipped")
     \/ /\ Subscribed(committed) = {}
        /\ IF Mapped = {} THEN Returns(c, "success") ELSE Plans(c, Mapped)
  /\ UNCHANGED <<committed, db, faults, settings>>

Look(c) == LookOnly(c) \/ LookToDelete(c) \/ LookToCreate(c)

\* No connection, a query or BEGIN that fails: nothing has been changed yet.
CallFails(c) == /\ Fault
                /\ pc[c] \in {"look", "connect"}
                /\ Returns(c, "error")
                /\ UNCHANGED <<committed, db, settings>>

\* executeInTx connects and begins its transaction; it has its turn.
Connect(c) ==
  /\ pc[c] = "connect"
  /\ ddlCommits \/ \A d \in Calls : ~Executing(d)
  /\ Moves(c, IF op[c] = "delete" THEN "suspend" ELSE "truncate")
  /\ UNCHANGED <<committed, db, todo, current, faults, settings>>
-----------------------------------------------------------------------------
\* The tables that the next statement of c may be for; the order in which the
\* database listed them is free.
Subjects(c) == IF pc[c] \in {"drop", "truncate"} THEN todo[c] ELSE {current[c]}

\* The database refuses to drop, or to distribute, what is not there, and to
\* create what is.
Accepts(c, t) == /\ pc[c] \in {"drop", "distribute"} => db.subs[t] # "none"
                 /\ pc[c] = "create" => db.subs[t] = "none"

\* What the statement does to the database.
After(c, t) ==
  CASE pc[c] = "suspend"    -> [db EXCEPT !.capture = "suspended"]
    [] pc[c] = "resume"     -> [db EXCEPT !.capture = "running"]
    [] pc[c] = "drop"       -> [db EXCEPT !.subs[t] = "none"]
    [] pc[c] = "truncate"   -> [db EXCEPT !.rows = @ \ {t}]
    [] pc[c] = "create"     -> [db EXCEPT !.subs[t] = "created"]
    [] pc[c] = "distribute" -> [db EXCEPT !.subs[t] = "distributed"]

MutAfterDeletion(c, t) ==   \* the capture is not resumed
  CASE pc[c] = "suspend" -> "drop"
    [] pc[c] = "drop"    -> IF todo[c] = {t} THEN "commit" ELSE "drop"

\* The lists: SUSPEND CAPTURE, DROP for every subscription, RESUME CAPTURE; ...
AfterDeletion(c, t) ==
  CASE pc[c] = "suspend" -> "drop"
    [] pc[c] = "drop"    -> IF todo[c] = {t} THEN "resume" ELSE "drop"
    [] pc[c] = "resume"  -> "commit"

MutAfterCreation(c, t) ==   \* the list starts anew with every table
  CASE pc[c] = "truncate"   -> "create"
    [] pc[c] = "create"     -> "distribute"
    [] pc[c] = "distribute" -> "commit"

\* ... TRUNCATE, CREATE, DISTRIBUTE for every table.
AfterCreation(c, t) ==
  CASE pc[c] = "truncate"   -> "create"
    [] pc[c] = "create"     -> "distribute"
    [] pc[c] = "distribute" -> IF todo[c] = {t} THEN "commit" ELSE "truncate"

Write(new) == /\ db' = new
              /\ committed' = IF ddlCommits THEN new ELSE committed

\* executeInTx executes the next statement of the list.
Exec(c, t) ==
  /\ Executing(c) /\ pc[c] # "commit"
  /\ t \in Subjects(c)
  /\ Accepts(c, t)
  /\ Write(After(c, t))
  /\ Moves(c, IF op[c] = "delete" THEN AfterDeletion(c, t) ELSE AfterCreation(c, t))
  /\ todo' = [todo EXCEPT ![c] = IF pc[c] \in {"drop", "distribute"} THEN @ \ {t} ELSE @]
  /\ current' = [current EXCEPT ![c] = IF pc[c] = "truncate" THEN t ELSE @]
  /\ UNCHANGED <<faults, settings>>

MutRefused(c, t) ==   \* the transaction is committed, not rolled back
  /\ Executing(c) /\ pc[c] # "commit"
  /\ t \in Subjects(c)
  /\ ~Accepts(c, t)
  /\ committed' = db
  /\ Returns(c, "error")
  /\ UNCHANGED <<db, faults, settings>>

Rollback == db' = committed /\ UNCHANGED committed

\* A statement is refused: Rollback, whose own error is ignored.
Refused(c, t) == /\ Executing(c) /\ pc[c] # "commit"
                 /\ t \in Subjects(c)
                 /\ ~Accepts(c, t)
                 /\ Rollback
                 /\ Returns(c, "error")
                 /\ UNCHANGED <<faults, settings>>

\* A statement fails for another reason; it may have been carried out.
ExecFails(c, t) == /\ Fault
                   /\ Executing(c) /\ pc[c] # "commit"
                   /\ t \in Subjects(c)
                   /\ Rollback \/ (ddlCommits /\ Accepts(c, t) /\ Write(After(c, t)))
                   /\ Returns(c, "error")
                   /\ UNCHANGED settings

Commit(c) == /\ pc[c] = "commit"
             /\ committed' = db
             /\ Returns(c, "success")
             /\ UNCHANGED <<db, faults, settings>>

\* An error of Commit does not say whether it has taken place.
CommitFails(c) == /\ Fault
                  /\ pc[c] = "commit"
                  /\ Rollback \/ (committed' = db /\ UNCHANGED db)
                  /\ Returns(c, "error")
                  /\ UNCHANGED settings

\* The process stops, and its connections are lost.
Crash == /\ Fault
         /\ Rollback
         /\ pc' = [c \in Calls |-> IF Active(c) THEN "over" ELSE pc[c]]
         /\ UNCHANGED <<op, todo, current, result, settings>>

\* Changes of the remote source reach a table.
Replicate(t) == /\ db = committed
                /\ committed.capture = "running"
                /\ committed.subs[t] = "distributed"
                /\ t \notin committed.rows
                /\ committed' = [committed EXCEPT !.rows = @ \cup {t}]
                /\ db' = committed'
                /\ UNCHANGED <<callVars, faults, settings>>

CallStep(c) == \/ Begin(c) \/ BadContext(c) \/ Look(c) \/ CallFails(c)
               \/ Connect(c) \/ Commit(c) \/ CommitFails(c)
               \/ \E t \in Tables \cup {NoTable} :
                    Exec(c, t) \/ Refused(c, t) \/ ExecFails(c, t)

Next == \/ Crash
        \/ \E c \in Calls : CallStep(c)
        \/ \E t \in Tables : Replicate(t)

Spec == Init /\ [][Next]_vars
-----------------------------------------------------------------------------
\* executeInTx, line 194, "within a single transaction": as long as DDL takes
\* part in transactions, no failure and no overlap of calls, each working from
\* a list that may be out of date, shows anybody a schema that is partly
\* subscribed, or partly emptied, or whose capture is suspended.
SR == INSTANCE SchemaReplication WITH transactional <- ~ddlCommits,
                                      subs <- committed.subs,
                                      rows <- committed.rows,
                                      capture <- committed.capture

ImplementsReplication == SR!Spec

\* A table that is being replicated is never emptied: the check for existing
\* subscriptions, or the refusal of CREATE with the rollback after it, comes in
\* between.  Overlapping calls need both.
NoReplicaEmptied ==
  [][ (~overlap \/ ~ddlCommits) =>
        \A t \in committed.rows \ committed'.rows : committed.subs[t] = "none" ]_vars

\* A capture that stays suspended is nobody's secret: the deletion that suspended
\* it is still at work, or has not been reported as a success, whichever other
\* calls suspended and resumed it in between.
SuspensionIsReported ==
  committed.capture = "suspended" =>
    \E c \in Calls : /\ op[c] = "delete"
                     /\ \/ pc[c] \in {"drop", "resume"}
                        \/ pc[c] = "over" /\ result[c] # "success"

\* What an answer promises, if calls do not overlap: after a creation every
\* table is replicated, also if it was skipped, unless DDL commits by itself;
\* after a deletion nothing is left, and the capture runs, with the exception of
\* faults that left it suspended while DDL commits by itself.
AnswerHolds(c) ==
  /\ op[c] = "create" /\ result'[c] = "success" => committed'.subs = Complete
  /\ result'[c] = "skipped" /\ ~ddlCommits => committed'.subs = Complete
  /\ op[c] = "delete" /\ result'[c] = "success" =>
       /\ committed'.subs = Unsubscribed
       /\ ~ddlCommits \/ faults = 0 => committed'.capture = "running"

AnswersHold ==
  [][ ~overlap => \A c \in Calls : result'[c] # result[c] => AnswerHolds(c) ]_vars
=============================================================================
