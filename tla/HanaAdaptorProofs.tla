-------------------------- MODULE HanaAdaptorProofs --------------------------
(***************************************************************************)
(* Proofs about HanaAdaptor, for any number of calls, tables and faults.   *)
(*                                                                         *)
(* Where DDL takes part in transactions, only the call whose transaction   *)
(* is open changes db, and every table is as the list has left it so far   *)
(* (Creation, Deletion) or as it is committed; at the end of the list no   *)
(* table is left in between.  Where calls do not overlap, the call that is *)
(* active is the only one that changes anything, so that what it saw at    *)
(* first still holds.                                                      *)
(* The last part shows that the plugin implements SchemaReplication.       *)
(***************************************************************************)
EXTENDS HanaAdaptor, FiniteSetTheorems, TLAPS

InTx == ~ddlCommits
Alone == ~overlap

\* Transactions that change the schema, and calls that do not overlap, exclude
\* one another.
Exclusion == \A c, d \in Calls : c # d =>
               /\ InTx => ~(Executing(c) /\ Executing(d))
               /\ Alone => ~(Active(c) /\ Active(d))

\* Nothing is uncommitted unless somebody executes statements in a transaction.
Synced == ddlCommits \/ (\A c \in Calls : ~Executing(c)) => db = committed

\* What a call does next fits its action, and its list is about mapped tables.
Lists == \A c \in Calls :
  /\ pc[c] \in {"suspend", "drop", "resume"} => op[c] = "delete"
  /\ pc[c] \in {"truncate", "create", "distribute"} => op[c] = "create"
  /\ pc[c] \in {"connect", "commit"} => op[c] \in {"create", "delete"}
  /\ pc[c] \in {"create", "distribute"} => current[c] \in todo[c]
  /\ pc[c] \in {"resume", "commit"} => todo[c] = {}
  /\ todo[c] \subseteq Mapped
  /\ InTx /\ pc[c] = "connect" => todo[c] = Mapped
  /\ pc[c] # "over" => result[c] = "none"

Outside == \A t \in Tables \ Mapped : db.subs[t] = "none" /\ committed.subs[t] = "none"

\* The part of the list for table t has come as far as CREATE.
Made(c, t) == t \notin todo[c] \/ (pc[c] = "distribute" /\ t = current[c])

\* A creation at work: what it has made, what was there before, what it emptied.
CreationInTx == InTx =>
  \A c \in Calls : Executing(c) /\ op[c] = "create" =>
    /\ \A t \in Mapped : IF Made(c, t) THEN committed.subs[t] = "none"
                                       ELSE db.subs[t] = committed.subs[t]
    /\ \A t \in committed.rows \ db.rows :
         t \in Mapped /\ (Made(c, t) \/ (pc[c] = "create" /\ t = current[c]))

CreationAlone == Alone /\ ddlCommits =>
  \A c \in Calls : (Executing(c) \/ pc[c] = "connect") /\ op[c] = "create" =>
    \A t \in Mapped : IF Executing(c) THEN Made(c, t) \/ committed.subs[t] = "none"
                                      ELSE committed.subs[t] = "none" /\ t \in todo[c]

Creation == InTx \/ Alone =>
  \A c \in Calls : Executing(c) /\ op[c] = "create" =>
    \A t \in Mapped \ todo[c] : db.subs[t] = "distributed"

\* A deletion at work.
DeletionInTx == InTx =>
  \A c \in Calls : Executing(c) /\ op[c] = "delete" =>
    /\ db.rows = committed.rows
    /\ \A t \in todo[c] : db.subs[t] = committed.subs[t]

DeletionAlone == Alone /\ ddlCommits =>
  \A c \in Calls : (Executing(c) \/ pc[c] = "connect") /\ op[c] = "delete" =>
    \A t \in todo[c] : committed.subs[t] # "none"

Deletion == InTx \/ Alone =>
  \A c \in Calls : (Executing(c) \/ pc[c] = "connect") /\ op[c] = "delete" =>
    \A t \in Mapped \ todo[c] : db.subs[t] = "none"

\* The capture is suspended while subscriptions are dropped, only.
CaptureInTx == InTx =>
  /\ committed.capture = "running"
  /\ \A c \in Calls : Executing(c) /\ pc[c] \notin {"drop", "resume"} => db.capture = "running"

CaptureAlone == Alone /\ ddlCommits =>
  /\ \A c \in Calls : pc[c] = "commit" /\ op[c] = "delete" => committed.capture = "running"
  /\ faults = 0 /\ committed.capture = "suspended" =>
       \E c \in Calls : pc[c] \in {"drop", "resume"}

\* A schema whose statement lists are transactions is never partly subscribed.
AllOrNothing == ~ddlCommits => committed.subs \in {Unsubscribed, Complete}

Rest == /\ Exclusion /\ Synced /\ Lists /\ Outside
        /\ CreationInTx /\ CreationAlone /\ Creation
        /\ DeletionInTx /\ DeletionAlone /\ Deletion
        /\ CaptureInTx /\ CaptureAlone
        /\ AllOrNothing /\ SuspensionIsReported

Inv == TypeOK /\ Rest
-----------------------------------------------------------------------------
\* The parts of a database.
LEMMA Parts ==
  ASSUME NEW d \in Database
  PROVE  /\ d.subs \in [Tables -> {"none", "created", "distributed"}]
         /\ d.rows \in SUBSET Tables
         /\ d.capture \in {"running", "suspended"}
BY DEF Database

LEMMA Entries ==
  ASSUME NEW d \in Database, NEW t \in Tables
  PROVE  d.subs[t] \in {"none", "created", "distributed"}
BY Parts

LEMMA MappedTables == Mapped \subseteq Tables
BY TablesAssumption DEF Mapped

\* What the next statement of c may be, and what it does to db.
LEMMA Effect ==
  ASSUME TypeOK, Lists, NEW c \in Calls, Executing(c), pc[c] # "commit",
         NEW t \in Subjects(c)
  PROVE  /\ After(c, t) \in Database
         /\ \A u \in Tables : After(c, t).subs[u] =
              IF u = t /\ pc[c] \in {"drop", "create", "distribute"}
              THEN CASE pc[c] = "drop" -> "none"
                     [] pc[c] = "create" -> "created"
                     [] pc[c] = "distribute" -> "distributed"
              ELSE db.subs[u]
         /\ After(c, t).rows = IF pc[c] = "truncate" THEN db.rows \ {t} ELSE db.rows
         /\ After(c, t).capture = CASE pc[c] = "suspend" -> "suspended"
                                    [] pc[c] = "resume" -> "running"
                                    [] OTHER -> db.capture
         /\ pc[c] \in {"drop", "truncate", "create", "distribute"} => t \in todo[c] /\ t \in Mapped
         /\ pc[c] \in {"create", "distribute"} => t = current[c]
<1>1. db \in Database /\ pc[c] \in {"suspend", "drop", "resume", "truncate", "create", "distribute"}
  BY DEF TypeOK, Executing, Statements
<1>2. /\ pc[c] \in {"drop", "truncate", "create", "distribute"} => t \in todo[c] /\ t \in Mapped
      /\ pc[c] \in {"create", "distribute"} => t = current[c]
  BY DEF Lists, Subjects
<1>3. db.subs \in [Tables -> {"none", "created", "distributed"}] /\ db.rows \in SUBSET Tables
  BY <1>1, Parts
<1>4. db = [subs |-> db.subs, rows |-> db.rows, capture |-> db.capture]
  BY <1>1 DEF Database
<1>5. CASE pc[c] \in {"suspend", "resume"}
  <2>1. After(c, t) = [subs |-> db.subs, rows |-> db.rows,
                       capture |-> IF pc[c] = "suspend" THEN "suspended" ELSE "running"]
    BY <1>4, <1>5 DEF After
  <2> QED BY <1>2, <1>3, <1>5, <2>1 DEF Database
<1>6. CASE pc[c] = "truncate"
  <2>1. After(c, t) = [subs |-> db.subs, rows |-> db.rows \ {t}, capture |-> db.capture]
    BY <1>4, <1>6 DEF After
  <2> QED BY <1>1, <1>2, <1>3, <1>6, <2>1, Parts DEF Database
<1>7. CASE pc[c] \in {"drop", "create", "distribute"}
  <2> DEFINE s == CASE pc[c] = "drop" -> "none"
                    [] pc[c] = "create" -> "created"
                    [] pc[c] = "distribute" -> "distributed"
  <2>1. After(c, t) = [subs |-> [db.subs EXCEPT ![t] = s], rows |-> db.rows, capture |-> db.capture]
    BY <1>4, <1>7 DEF After
  <2>2. s \in {"none", "created", "distributed"} /\ t \in Tables
    BY <1>2, <1>7, MappedTables
  <2>3. [db.subs EXCEPT ![t] = s] \in [Tables -> {"none", "created", "distributed"}]
    BY <1>3, <2>2
  <2>4. After(c, t) \in Database
    BY <1>1, <1>3, <2>1, <2>3, Parts DEF Database
  <2> QED BY <1>2, <1>3, <1>7, <2>1, <2>2, <2>4
<1> QED BY <1>1, <1>5, <1>6, <1>7

LEMMA Untouched ==
  ASSUME TypeOK, Lists, NEW c \in Calls, Executing(c), pc[c] # "commit",
         NEW t \in Subjects(c), NEW u \in Tables,
         u # t \/ u \notin todo[c] \/ pc[c] \in {"suspend", "resume", "truncate"}
  PROVE  After(c, t).subs[u] = db.subs[u]
<1>1. ~(u = t /\ pc[c] \in {"drop", "create", "distribute"})
  BY Effect
<1>2. After(c, t).subs[u] =
        IF u = t /\ pc[c] \in {"drop", "create", "distribute"}
        THEN CASE pc[c] = "drop" -> "none"
               [] pc[c] = "create" -> "created"
               [] pc[c] = "distribute" -> "distributed"
        ELSE db.subs[u]
  BY Effect
<1> QED BY <1>1, <1>2

\* What it does to the call.
LEMMA Progress ==
  ASSUME TypeOK, Lists, NEW c \in Calls, NEW t \in Tables \cup {NoTable}, Exec(c, t)
  PROVE  /\ pc[c] = "suspend" => pc'[c] = "drop"
         /\ pc[c] = "drop" => pc'[c] = IF todo[c] = {t} THEN "resume" ELSE "drop"
         /\ pc[c] = "resume" => pc'[c] = "commit"
         /\ pc[c] = "truncate" => pc'[c] = "create" /\ current'[c] = t
         /\ pc[c] = "create" => pc'[c] = "distribute"
         /\ pc[c] = "distribute" => pc'[c] = IF todo[c] = {t} THEN "commit" ELSE "truncate"
         /\ pc[c] # "truncate" => current'[c] = current[c]
         /\ todo'[c] = IF pc[c] \in {"drop", "distribute"} THEN todo[c] \ {t} ELSE todo[c]
         /\ \A d \in Calls \ {c} : /\ pc'[d] = pc[d]
                                   /\ todo'[d] = todo[d]
                                   /\ current'[d] = current[d]
         /\ UNCHANGED <<op, result, faults, settings>>
         /\ t \in Subjects(c) /\ Accepts(c, t) /\ Write(After(c, t))
         /\ Executing(c) /\ pc[c] # "commit" /\ Executing(c)'
<1>1. pc[c] \in {"suspend", "drop", "resume", "truncate", "create", "distribute"}
  BY DEF Exec, Executing, Statements
<1>2. /\ pc[c] \in {"suspend", "drop", "resume"} => op[c] = "delete"
      /\ pc[c] \in {"truncate", "create", "distribute"} => op[c] = "create"
  BY DEF Lists
<1>3. /\ pc \in [Calls -> Statements \cup {"idle", "look", "connect", "over"}]
      /\ todo \in [Calls -> SUBSET Tables] /\ current \in [Calls -> Tables \cup {NoTable}]
  BY DEF TypeOK
<1>4. /\ pc' = [pc EXCEPT ![c] = IF op[c] = "delete" THEN AfterDeletion(c, t) ELSE AfterCreation(c, t)]
      /\ todo' = [todo EXCEPT ![c] = IF pc[c] \in {"drop", "distribute"} THEN @ \ {t} ELSE @]
      /\ current' = [current EXCEPT ![c] = IF pc[c] = "truncate" THEN t ELSE @]
      /\ UNCHANGED <<op, result, faults, settings>>
      /\ t \in Subjects(c) /\ Accepts(c, t) /\ Write(After(c, t))
      /\ Executing(c) /\ pc[c] # "commit"
  BY DEF Exec, Moves
<1>5. pc'[c] = IF op[c] = "delete" THEN AfterDeletion(c, t) ELSE AfterCreation(c, t)
  BY <1>3, <1>4
<1>6. /\ pc[c] = "suspend" => pc'[c] = "drop"
      /\ pc[c] = "drop" => pc'[c] = IF todo[c] = {t} THEN "resume" ELSE "drop"
      /\ pc[c] = "resume" => pc'[c] = "commit"
      /\ pc[c] = "truncate" => pc'[c] = "create"
      /\ pc[c] = "create" => pc'[c] = "distribute"
      /\ pc[c] = "distribute" => pc'[c] = IF todo[c] = {t} THEN "commit" ELSE "truncate"
  BY <1>2, <1>5 DEF AfterDeletion, AfterCreation
<1>7. Executing(c)'
  BY <1>1, <1>6 DEF Executing, Statements
<1> QED BY <1>3, <1>4, <1>6, <1>7
-----------------------------------------------------------------------------
\* Who executes, or is active at all, has nobody beside it.
LEMMA OnlyOne ==
  ASSUME Inv, NEW c \in Calls, NEW d \in Calls, d # c
  PROVE  /\ InTx /\ Executing(c) => ~Executing(d)
         /\ Alone /\ Active(c) => ~Active(d) /\ ~Executing(d) /\ pc[d] # "connect"
BY DEF Inv, Rest, Exclusion, Active, Executing, Statements

LEMMA SubscribedMapped ==
  ASSUME Inv
  PROVE  /\ Subscribed(committed) \subseteq Mapped
         /\ InTx /\ Subscribed(committed) # {} => Subscribed(committed) = Mapped
BY MappedTables DEF Inv, Rest, Outside, AllOrNothing, InTx, Subscribed, Unsubscribed, Complete

\* A step of a call that does not execute yet: it changes nothing but itself.
LEMMA BeforeStep ==
  ASSUME Inv, NEW c \in Calls,
         pc[c] \in {"idle", "look", "connect"}, pc'[c] \in {"look", "connect", "over"},
         pc[c] = "idle" /\ pc'[c] = "look" => (Alone => \A d \in Calls : ~Active(d)),
         pc[c] = "idle" => pc'[c] # "connect",
         pc'[c] = "connect" =>
           \/ op[c] = "create" /\ Subscribed(committed) = {} /\ todo'[c] = Mapped
           \/ op[c] = "delete" /\ Subscribed(committed) # {} /\ todo'[c] = Subscribed(committed),
         pc'[c] # "connect" => todo'[c] = todo[c],
         pc'[c] # "over" => result'[c] = result[c],
         \A d \in Calls \ {c} : pc'[d] = pc[d] /\ todo'[d] = todo[d] /\ result'[d] = result[d],
         UNCHANGED <<committed, db, op, current, settings>>, faults' = 0 => faults = 0
  PROVE  Rest'
<1> USE DEF InTx, Alone, settings
<1>0. /\ Exclusion /\ Synced /\ Lists /\ Outside
      /\ CreationInTx /\ CreationAlone /\ Creation
      /\ DeletionInTx /\ DeletionAlone /\ Deletion
      /\ CaptureInTx /\ CaptureAlone
      /\ AllOrNothing /\ SuspensionIsReported
  BY DEF Inv, Rest
<1>1. /\ \A d \in Calls : Executing(d)' => d # c
      /\ \A d \in Calls \ {c} : /\ Executing(d)' <=> Executing(d)
                                /\ Active(d)' <=> Active(d)
      /\ Active(c)' => Active(c) \/ (pc[c] = "idle" /\ pc'[c] = "look")
      /\ ~Executing(c)
  BY DEF Executing, Active, Statements
<1>2. Exclusion'
  BY <1>0, <1>1 DEF Exclusion
<1>3. Synced' /\ Outside' /\ AllOrNothing'
  BY <1>0, <1>1 DEF Synced, Outside, AllOrNothing
<1>4. Lists'
  BY <1>0, SubscribedMapped DEF Lists
<1>5. CreationInTx' /\ DeletionInTx' /\ Creation'
  BY <1>0, <1>1 DEF CreationInTx, DeletionInTx, Creation, Made
<1>6. CreationAlone'
  BY <1>0, <1>1, MappedTables DEF CreationAlone, Made, Subscribed
<1>7. DeletionAlone'
  BY <1>0, <1>1 DEF DeletionAlone, Subscribed
<1>8. Deletion'
  <2> SUFFICES ASSUME InTx \/ Alone, NEW d \in Calls, (Executing(d) \/ pc[d] = "connect")', op[d] = "delete",
                      NEW t \in Mapped, t \notin todo'[d]
               PROVE  db.subs[t] = "none"
    BY DEF Deletion
  <2>1. CASE d # c
    BY <1>0, <1>1, <2>1 DEF Deletion
  <2>2. CASE d = c
    <3>1. todo'[c] = Subscribed(committed) /\ committed.subs[t] = "none"
      BY <1>1, <2>2, MappedTables DEF Subscribed
    <3>2. db = committed
      <4>1. CASE InTx
        BY <1>1, <2>2, <3>1, <4>1, SubscribedMapped
      <4>2. CASE Alone
        <5>1. \A e \in Calls : ~Executing(e)
          BY <1>1, <2>2, <4>2, OnlyOne DEF Active
        <5> QED BY <1>0, <5>1 DEF Synced
      <4> QED BY <4>1, <4>2
    <3> QED BY <3>1, <3>2
  <2> QED BY <2>1, <2>2
<1>9. CaptureInTx'
  BY <1>0, <1>1 DEF CaptureInTx
<1>10. CaptureAlone'
  BY <1>0 DEF CaptureAlone
<1>11. SuspensionIsReported'
  BY <1>0 DEF SuspensionIsReported
<1> QED BY <1>2, <1>3, <1>4, <1>5, <1>6, <1>7, <1>8, <1>9, <1>10, <1>11 DEF Rest

\* A call that stops executing: its transaction is rolled back or committed, or
\* its DDL has committed by itself.
LEMMA StopStep ==
  ASSUME Inv, NEW c \in Calls, Executing(c), pc'[c] = "over",
         \A d \in Calls \ {c} : pc'[d] = pc[d] /\ result'[d] = result[d],
         \/ Rollback /\ result'[c] = "error"
         \/ /\ ddlCommits /\ pc[c] # "commit" /\ result'[c] = "error" /\ faults' # 0
            /\ \E t \in Subjects(c) : Accepts(c, t) /\ Write(After(c, t))
         \/ pc[c] = "commit" /\ committed' = db /\ db' = db,
         UNCHANGED <<op, todo, current, settings>>, faults' = 0 => faults = 0,
         ddlCommits /\ Alone /\ faults' = 0 => pc[c] \notin {"drop", "resume"}
  PROVE  Rest'
<1> USE DEF InTx, Alone, settings
<1>0. /\ Exclusion /\ Synced /\ Lists /\ Outside
      /\ CreationInTx /\ CreationAlone /\ Creation
      /\ DeletionInTx /\ DeletionAlone /\ Deletion
      /\ CaptureInTx /\ CaptureAlone
      /\ AllOrNothing /\ SuspensionIsReported
      /\ TypeOK
  BY DEF Inv, Rest
<1>1. /\ \A d \in Calls : Executing(d)' => d # c /\ Executing(d)
      /\ \A d \in Calls : Active(d)' => d # c /\ Active(d)
      /\ Active(c)
  BY DEF Executing, Active, Statements
<1>2. /\ InTx \/ Alone => \A d \in Calls : ~Executing(d)'
      /\ Alone => \A d \in Calls : ~Active(d)' /\ pc'[d] # "connect"
  BY <1>1, OnlyOne DEF Active
<1>3. Exclusion' /\ Lists'
  BY <1>0, <1>1 DEF Exclusion, Lists
<1>4. db' = committed'
  BY <1>0 DEF Rollback, Write, Synced
<1>5. Synced'
  BY <1>4 DEF Synced
<1>6. Outside'
  <2>1. CASE Rollback \/ (committed' = db /\ db' = db)
    BY <1>0, <2>1 DEF Outside, Rollback
  <2>2. ASSUME NEW t \in Subjects(c), Write(After(c, t)), ddlCommits, pc[c] # "commit"
        PROVE  Outside'
    <3>1. \A u \in Tables \ Mapped : After(c, t).subs[u] = db.subs[u]
      BY <1>0, <2>2, Untouched DEF Lists
    <3> QED BY <1>0, <2>2, <3>1 DEF Outside, Write
  <2> QED BY <2>1, <2>2
<1>7. CreationInTx' /\ CreationAlone' /\ Creation' /\ DeletionInTx' /\ DeletionAlone'
  BY <1>2 DEF CreationInTx, CreationAlone, Creation, DeletionInTx, DeletionAlone
<1>8. Deletion'
  BY <1>0, <1>2 DEF Deletion, Lists
<1>9. AllOrNothing'
  <2> SUFFICES ASSUME InTx PROVE committed'.subs \in {Unsubscribed, Complete}
    BY DEF AllOrNothing, Unsubscribed, Complete
  <2>1. CASE Rollback
    BY <1>0, <2>1 DEF AllOrNothing, Rollback
  <2>2. CASE pc[c] = "commit" /\ committed' = db
    <3>1. db.subs \in [Tables -> {"none", "created", "distributed"}]
      BY <1>0, Parts DEF TypeOK
    <3>2. todo[c] = {} /\ op[c] \in {"create", "delete"} /\ \A t \in Tables \ Mapped : db.subs[t] = "none"
      BY <1>0, <2>2 DEF Lists, Outside
    <3>3. CASE op[c] = "create"
      <4>1. \A t \in Mapped : db.subs[t] = "distributed"
        BY <1>0, <3>2, <3>3 DEF Creation
      <4>2. db.subs = Complete
        BY <3>1, <3>2, <4>1 DEF Complete
      <4> QED BY <2>2, <4>2
    <3>4. CASE op[c] = "delete"
      <4>1. \A t \in Mapped : db.subs[t] = "none"
        BY <1>0, <3>2, <3>4 DEF Deletion
      <4>2. db.subs = Unsubscribed
        BY <3>1, <3>2, <4>1 DEF Unsubscribed
      <4> QED BY <2>2, <4>2
    <3> QED BY <3>2, <3>3, <3>4
  <2> QED BY <2>1, <2>2
<1>10. CaptureInTx'
  BY <1>0, <1>2 DEF CaptureInTx, Rollback
<1>11. CaptureAlone'
  <2> SUFFICES ASSUME Alone, ddlCommits
               PROVE  /\ \A d \in Calls : ~(pc'[d] = "commit")
                      /\ ~(faults' = 0 /\ committed'.capture = "suspended")
    BY DEF CaptureAlone
  <2>1. \A d \in Calls : pc'[d] # "commit"
    BY <1>2 DEF Active
  <2>2. ASSUME faults' = 0 PROVE committed'.capture # "suspended"
    <3>1. \A d \in Calls : pc[d] \notin {"drop", "resume"}
      BY <2>2, OnlyOne, <1>1 DEF Executing, Statements
    <3>2. committed.capture # "suspended" /\ db = committed
      BY <1>0, <2>2, <3>1 DEF CaptureAlone, Synced
    <3>3. committed' = committed \/ committed' = db
      BY <2>2 DEF Rollback
    <3> QED BY <3>2, <3>3
  <2> QED BY <2>1, <2>2
<1>12. SuspensionIsReported'
  <2> SUFFICES ASSUME committed'.capture = "suspended"
               PROVE  \E d \in Calls : /\ op[d] = "delete"
                                       /\ \/ pc'[d] \in {"drop", "resume"}
                                          \/ pc'[d] = "over" /\ result'[d] # "success"
    BY DEF SuspensionIsReported
  <2>1. CASE committed.capture = "suspended" /\ result'[c] = "error"
    BY <1>0, <2>1 DEF SuspensionIsReported
  <2>2. CASE committed.capture = "suspended" /\ pc[c] = "commit"
    BY <1>0, <2>2 DEF SuspensionIsReported
  <2>3. CASE committed.capture # "suspended"
    <3>1. ~Rollback
      BY <2>3 DEF Rollback
    <3>2. pc[c] # "commit"
      BY <1>0, <2>3, <3>1 DEF Synced, CaptureInTx
    <3>3. PICK t \in Subjects(c) : Write(After(c, t)) /\ ddlCommits /\ result'[c] = "error"
      BY <3>1, <3>2
    <3>4. db.capture # "suspended" /\ committed' = After(c, t)
      BY <1>0, <2>3, <3>3 DEF Synced, Write
    <3>5. pc[c] = "suspend"
      BY <1>0, <3>2, <3>4, Effect
    <3> QED BY <1>0, <3>3, <3>5 DEF Lists
  <2> QED BY <2>1, <2>2, <2>3
<1> QED BY <1>3, <1>5, <1>6, <1>7, <1>8, <1>9, <1>10, <1>11, <1>12 DEF Rest

\* A call begins its transaction: there is nothing uncommitted.
LEMMA ConnectStep == ASSUME Inv, NEW c \in Calls, Connect(c) PROVE Rest'
<1> USE DEF InTx, Alone
<1>0. /\ Exclusion /\ Synced /\ Lists /\ Outside
      /\ CreationInTx /\ CreationAlone /\ Creation
      /\ DeletionInTx /\ DeletionAlone /\ Deletion
      /\ CaptureInTx /\ CaptureAlone
      /\ AllOrNothing /\ SuspensionIsReported
      /\ TypeOK
  BY DEF Inv, Rest
<1>1. /\ pc[c] = "connect" /\ op[c] \in {"create", "delete"}
      /\ pc'[c] = IF op[c] = "delete" THEN "suspend" ELSE "truncate"
      /\ \A d \in Calls \ {c} : pc'[d] = pc[d]
      /\ UNCHANGED <<committed, db, op, todo, current, result, faults, ddlCommits, overlap>>
      /\ InTx => \A d \in Calls : ~Executing(d)
      /\ todo[c] \subseteq Mapped
  BY <1>0 DEF Connect, Moves, settings, TypeOK, Lists
<1>2. /\ Active(c) /\ Executing(c)' /\ Active(c)'
      /\ \A d \in Calls \ {c} : /\ Executing(d)' <=> Executing(d)
                                /\ Active(d)' <=> Active(d)
  BY <1>1 DEF Executing, Active, Statements
<1>3. InTx \/ Alone => /\ \A d \in Calls \ {c} : ~Executing(d)' /\ ~Executing(d)
                       /\ db = committed
  <2>1. Alone => \A d \in Calls \ {c} : ~Executing(d)
    BY <1>2, OnlyOne
  <2>2. ~Executing(c)
    BY <1>1 DEF Executing, Statements
  <2> QED BY <1>0, <1>1, <1>2, <2>1, <2>2 DEF Synced
<1>4. Exclusion'
  BY <1>0, <1>1, <1>2 DEF Exclusion
<1>5. Synced' /\ Outside' /\ AllOrNothing'
  BY <1>0, <1>1, <1>2 DEF Synced, Outside, AllOrNothing
<1>6. Lists'
  BY <1>0, <1>1 DEF Lists
<1>7. CreationInTx'
  BY <1>0, <1>1, <1>3 DEF CreationInTx, Made, Lists
<1>8. CreationAlone'
  <2> SUFFICES ASSUME Alone, ddlCommits, NEW d \in Calls, (Executing(d) \/ pc[d] = "connect")',
                      op[d] = "create", NEW t \in Mapped
               PROVE  Executing(d)' /\ committed.subs[t] = "none"
    BY <1>1 DEF CreationAlone
  <2>1. d = c
    BY <1>1, <1>3, OnlyOne, <1>2
  <2> QED BY <1>0, <1>1, <1>2, <2>1 DEF CreationAlone, Executing, Statements
<1>9. Creation'
  <2> SUFFICES ASSUME InTx \/ Alone, NEW d \in Calls, Executing(d)', op[d] = "create",
                      NEW t \in Mapped, t \notin todo[d]
               PROVE  FALSE
    BY <1>1 DEF Creation
  <2>1. d = c
    BY <1>3
  <2> QED BY <1>0, <1>1, <2>1 DEF Lists, CreationAlone, Executing, Statements
<1>10. DeletionInTx'
  BY <1>0, <1>1, <1>3, MappedTables DEF DeletionInTx
<1>11. DeletionAlone' /\ Deletion'
  BY <1>0, <1>1, <1>2 DEF DeletionAlone, Deletion
<1>12. CaptureInTx' /\ CaptureAlone'
  BY <1>0, <1>1, <1>3 DEF CaptureInTx, CaptureAlone
<1>13. SuspensionIsReported'
  BY <1>0, <1>1 DEF SuspensionIsReported
<1> QED BY <1>4, <1>5, <1>6, <1>7, <1>8, <1>9, <1>10, <1>11, <1>12, <1>13 DEF Rest

\* A statement of the list is executed.
LEMMA ExecStep ==
  ASSUME Inv, NEW c \in Calls, NEW t \in Tables \cup {NoTable}, Exec(c, t)
  PROVE  Rest'
<1> USE DEF InTx, Alone
<1>0. /\ Exclusion /\ Synced /\ Lists /\ Outside
      /\ CreationInTx /\ CreationAlone /\ Creation
      /\ DeletionInTx /\ DeletionAlone /\ Deletion
      /\ CaptureInTx /\ CaptureAlone
      /\ AllOrNothing /\ SuspensionIsReported
      /\ TypeOK
  BY DEF Inv, Rest
<1>1. /\ pc[c] = "suspend" => pc'[c] = "drop"
      /\ pc[c] = "drop" => pc'[c] = IF todo[c] = {t} THEN "resume" ELSE "drop"
      /\ pc[c] = "resume" => pc'[c] = "commit"
      /\ pc[c] = "truncate" => pc'[c] = "create" /\ current'[c] = t
      /\ pc[c] = "create" => pc'[c] = "distribute"
      /\ pc[c] = "distribute" => pc'[c] = IF todo[c] = {t} THEN "commit" ELSE "truncate"
      /\ pc[c] # "truncate" => current'[c] = current[c]
      /\ todo'[c] = IF pc[c] \in {"drop", "distribute"} THEN todo[c] \ {t} ELSE todo[c]
      /\ \A d \in Calls \ {c} : pc'[d] = pc[d] /\ todo'[d] = todo[d] /\ current'[d] = current[d]
      /\ UNCHANGED <<op, result, faults, ddlCommits, overlap>>
      /\ Executing(c) /\ pc[c] # "commit" /\ Executing(c)'
      /\ t \in Subjects(c) /\ Accepts(c, t)
      /\ db' = After(c, t) /\ committed' = IF ddlCommits THEN db' ELSE committed
  BY <1>0, Progress DEF settings, Write
<1>2. /\ pc[c] \in {"suspend", "drop", "resume", "truncate", "create", "distribute"}
      /\ pc[c] \in {"suspend", "drop", "resume"} => op[c] = "delete"
      /\ pc[c] \in {"truncate", "create", "distribute"} => op[c] = "create"
      /\ todo[c] \subseteq Mapped
  BY <1>0, <1>1 DEF Executing, Statements, Lists
<1>3. /\ db'.rows = IF pc[c] = "truncate" THEN db.rows \ {t} ELSE db.rows
      /\ db'.capture = CASE pc[c] = "suspend" -> "suspended"
                         [] pc[c] = "resume" -> "running"
                         [] OTHER -> db.capture
      /\ pc[c] \in {"drop", "truncate", "create", "distribute"} => t \in todo[c] /\ t \in Mapped
      /\ pc[c] \in {"create", "distribute"} => t = current[c]
  BY <1>0, <1>1, Effect
<1>4. \A u \in Tables : u # t \/ u \notin todo[c] \/ pc[c] \in {"suspend", "resume", "truncate"} =>
        db'.subs[u] = db.subs[u]
  BY <1>0, <1>1, Untouched
<1>5. /\ pc[c] = "drop" => db'.subs[t] = "none"
      /\ pc[c] = "create" => db'.subs[t] = "created" /\ db.subs[t] = "none"
      /\ pc[c] = "distribute" => db'.subs[t] = "distributed"
  BY <1>0, <1>1, <1>3, MappedTables, Effect DEF Accepts
<1>6. /\ \A d \in Calls : /\ Executing(d)' <=> Executing(d)
                          /\ Active(d)' <=> Active(d)
      /\ Active(c)
  BY <1>1 DEF Executing, Active, Statements
<1>7. InTx \/ Alone => \A d \in Calls \ {c} : ~Executing(d)' /\ ~Executing(d)
  BY <1>1, <1>6, OnlyOne
<1>8. Alone => \A d \in Calls \ {c} : pc[d] # "connect" /\ pc'[d] # "connect"
  BY <1>1, <1>6, OnlyOne
<1>9. ddlCommits => db = committed /\ db' = committed'
  BY <1>0, <1>1 DEF Synced
<1>10. Exclusion' /\ Synced'
  BY <1>0, <1>1, <1>6, <1>9 DEF Exclusion, Synced
<1>11. Lists'
  BY <1>0, <1>1, <1>2, <1>3 DEF Lists
<1>12. Outside'
  BY <1>0, <1>1, <1>2, <1>4, <1>9 DEF Outside
<1>13. AllOrNothing'
  BY <1>0, <1>1 DEF AllOrNothing
<1>14. CreationInTx'
  <2> SUFFICES ASSUME InTx, NEW d \in Calls, Executing(d)', op[d] = "create"
               PROVE  /\ \A u \in Mapped : IF Made(d, u)' THEN committed.subs[u] = "none"
                                                       ELSE db'.subs[u] = committed.subs[u]
                      /\ \A u \in committed.rows \ db'.rows :
                           u \in Mapped /\ (Made(d, u)' \/ (pc'[d] = "create" /\ u = current'[d]))
    BY <1>1 DEF CreationInTx
  <2>1. d = c /\ pc[c] \in {"truncate", "create", "distribute"}
    BY <1>2, <1>7
  <2>2. /\ \A u \in Mapped : IF Made(c, u) THEN committed.subs[u] = "none"
                                           ELSE db.subs[u] = committed.subs[u]
        /\ \A u \in committed.rows \ db.rows :
             u \in Mapped /\ (Made(c, u) \/ (pc[c] = "create" /\ u = current[c]))
    BY <1>0, <1>1, <2>1 DEF CreationInTx
  <2>3. \A u \in Mapped : /\ Made(c, u) => Made(c, u)'
                          /\ u # t \/ pc[c] # "create" => (Made(c, u)' <=> Made(c, u))
    BY <1>1, <1>3, <2>1 DEF Made
  <2>4. ASSUME NEW u \in Mapped
        PROVE  IF Made(c, u)' THEN committed.subs[u] = "none" ELSE db'.subs[u] = committed.subs[u]
    <3>1. CASE u = t /\ pc[c] = "create"
      <4>1. ~Made(c, u) /\ Made(c, u)'
        BY <1>1, <1>3, <3>1 DEF Made
      <4> QED BY <1>5, <2>2, <3>1, <4>1
    <3>2. CASE u # t \/ pc[c] # "create"
      <4>1. CASE Made(c, u)
        BY <2>2, <2>3, <4>1
      <4>2. CASE ~Made(c, u)
        <5>1. u # t \/ pc[c] = "truncate"
          BY <1>3, <2>1, <3>2, <4>2 DEF Made
        <5> QED BY <1>4, <2>2, <2>3, <3>2, <4>2, <5>1, MappedTables
      <4> QED BY <4>1, <4>2
    <3> QED BY <3>1, <3>2
  <2>5. ASSUME NEW u \in committed.rows \ db'.rows
        PROVE  u \in Mapped /\ (Made(c, u)' \/ (pc'[c] = "create" /\ u = current'[c]))
    <3>1. CASE u \in db.rows
      BY <1>1, <1>3, <2>5, <3>1
    <3>2. CASE u \notin db.rows /\ Made(c, u)
      BY <2>2, <2>3, <2>5, <3>2
    <3>3. CASE u \notin db.rows /\ pc[c] = "create" /\ u = current[c]
      BY <1>1, <1>3, <2>2, <3>3 DEF Made
    <3> QED BY <2>2, <2>5, <3>1, <3>2, <3>3
  <2> QED BY <2>1, <2>4, <2>5
<1>15. CreationAlone'
  <2> SUFFICES ASSUME Alone, ddlCommits, NEW d \in Calls, (Executing(d) \/ pc[d] = "connect")',
                      op[d] = "create", NEW u \in Mapped
               PROVE  Executing(d)' /\ (Made(d, u)' \/ committed'.subs[u] = "none")
    BY <1>1 DEF CreationAlone
  <2>1. d = c /\ pc[c] \in {"truncate", "create", "distribute"}
    BY <1>2, <1>7, <1>8
  <2>2. Made(c, u) \/ committed.subs[u] = "none"
    BY <1>0, <1>1, <2>1 DEF CreationAlone
  <2>3. Made(c, u) => Made(c, u)'
    BY <1>1, <1>3, <2>1 DEF Made
  <2>4. u = t /\ pc[c] # "truncate" => Made(c, u)'
    BY <1>1, <1>3, <2>1 DEF Made
  <2>5. u # t \/ pc[c] = "truncate" => committed'.subs[u] = committed.subs[u]
    BY <1>4, <1>9, MappedTables
  <2> QED BY <1>1, <2>1, <2>2, <2>3, <2>4, <2>5
<1>16. Creation'
  <2> SUFFICES ASSUME InTx \/ Alone, NEW d \in Calls, Executing(d)', op[d] = "create",
                      NEW u \in Mapped, u \notin todo'[d]
               PROVE  db'.subs[u] = "distributed"
    BY <1>1 DEF Creation
  <2>1. d = c /\ pc[c] \in {"truncate", "create", "distribute"}
    BY <1>2, <1>7
  <2>2. CASE u \notin todo[c]
    <3>1. db.subs[u] = "distributed"
      BY <1>0, <1>1, <2>1, <2>2 DEF Creation
    <3> QED BY <1>4, <2>2, <3>1, MappedTables
  <2>3. CASE u \in todo[c]
    BY <1>1, <1>5, <2>1, <2>3
  <2> QED BY <2>2, <2>3
<1>17. DeletionInTx'
  <2> SUFFICES ASSUME InTx, NEW d \in Calls, Executing(d)', op[d] = "delete"
               PROVE  /\ db'.rows = committed.rows
                      /\ \A u \in todo'[d] : db'.subs[u] = committed.subs[u]
    BY <1>1 DEF DeletionInTx
  <2>1. d = c /\ pc[c] \in {"suspend", "drop", "resume"}
    BY <1>2, <1>7
  <2>2. /\ db.rows = committed.rows
        /\ \A u \in todo[c] : db.subs[u] = committed.subs[u]
    BY <1>0, <1>1, <2>1 DEF DeletionInTx
  <2>3. ASSUME NEW u \in todo'[c] PROVE db'.subs[u] = committed.subs[u]
    <3>1. u \in todo[c] /\ u \in Tables /\ (u # t \/ pc[c] \in {"suspend", "resume"})
      BY <1>1, <1>2, <2>1, <2>3, MappedTables
    <3> QED BY <1>4, <2>2, <3>1
  <2> QED BY <1>3, <2>1, <2>2, <2>3
<1>18. DeletionAlone'
  <2> SUFFICES ASSUME Alone, ddlCommits, NEW d \in Calls, (Executing(d) \/ pc[d] = "connect")',
                      op[d] = "delete", NEW u \in todo'[d]
               PROVE  committed'.subs[u] # "none"
    BY <1>1 DEF DeletionAlone
  <2>1. d = c /\ pc[c] \in {"suspend", "drop", "resume"}
    BY <1>2, <1>7, <1>8
  <2>2. u \in todo[c] /\ u \in Tables /\ (u # t \/ pc[c] \in {"suspend", "resume"})
    BY <1>1, <1>2, <2>1, MappedTables
  <2>3. committed.subs[u] # "none"
    BY <1>0, <1>1, <2>1, <2>2 DEF DeletionAlone
  <2> QED BY <1>4, <1>9, <2>2, <2>3
<1>19. Deletion'
  <2> SUFFICES ASSUME InTx \/ Alone, NEW d \in Calls, (Executing(d) \/ pc[d] = "connect")',
                      op[d] = "delete", NEW u \in Mapped, u \notin todo'[d]
               PROVE  db'.subs[u] = "none"
    BY <1>1 DEF Deletion
  <2>1. CASE d = c
    <3>1. pc[c] \in {"suspend", "drop", "resume"}
      BY <1>2, <2>1
    <3>2. CASE u \notin todo[c]
      <4>1. db.subs[u] = "none"
        BY <1>0, <1>1, <2>1, <3>2 DEF Deletion
      <4> QED BY <1>4, <3>2, <4>1, MappedTables
    <3>3. CASE u \in todo[c]
      BY <1>1, <1>5, <2>1, <3>1, <3>3
    <3> QED BY <3>2, <3>3
  <2>2. CASE d # c
    <3>1. InTx /\ pc[d] = "connect" /\ todo'[d] = todo[d]
      BY <1>1, <1>7, <1>8, <2>2
    <3> QED BY <1>0, <3>1 DEF Lists
  <2> QED BY <2>1, <2>2
<1>20. CaptureInTx'
  <2>1. InTx => pc'[c] \in {"drop", "resume"} \/ db'.capture = "running"
    BY <1>0, <1>1, <1>2, <1>3 DEF CaptureInTx
  <2> QED BY <1>0, <1>1, <1>7, <2>1 DEF CaptureInTx
<1>21. CaptureAlone'
  <2> SUFFICES ASSUME Alone, ddlCommits PROVE CaptureAlone'
    BY <1>1 DEF CaptureAlone
  <2>1. committed'.capture = CASE pc[c] = "suspend" -> "suspended"
                               [] pc[c] = "resume" -> "running"
                               [] OTHER -> committed.capture
    BY <1>3, <1>9
  <2>2. \A d \in Calls \ {c} : pc[d] \notin {"drop", "resume", "commit"} /\ pc'[d] \notin {"drop", "resume", "commit"}
    BY <1>1, <1>7 DEF Executing, Statements
  <2>3. pc'[c] = "commit" /\ op[c] = "delete" => committed'.capture = "running"
    BY <1>1, <1>2, <2>1
  <2>4. faults = 0 /\ committed'.capture = "suspended" => pc'[c] \in {"drop", "resume"}
    BY <1>0, <1>1, <1>2, <2>1, <2>2 DEF CaptureAlone
  <2> QED BY <1>1, <2>2, <2>3, <2>4 DEF CaptureAlone
<1>22. SuspensionIsReported'
  <2> SUFFICES ASSUME committed'.capture = "suspended"
               PROVE  \E d \in Calls : /\ op[d] = "delete"
                                       /\ \/ pc'[d] \in {"drop", "resume"}
                                          \/ pc'[d] = "over" /\ result[d] # "success"
    BY <1>1 DEF SuspensionIsReported
  <2>1. CASE pc[c] = "suspend"
    BY <1>1, <1>2, <2>1
  <2>2. CASE pc[c] # "suspend"
    <3>1. committed.capture = "suspended" /\ pc[c] # "resume"
      BY <1>0, <1>1, <1>3, <1>9, <2>2 DEF CaptureInTx
    <3>2. PICK d \in Calls : /\ op[d] = "delete"
                             /\ \/ pc[d] \in {"drop", "resume"}
                                \/ pc[d] = "over" /\ result[d] # "success"
      BY <1>0, <3>1 DEF SuspensionIsReported
    <3>3. d = c => pc[c] = "drop" /\ pc'[c] \in {"drop", "resume"}
      BY <1>1, <1>2, <3>1, <3>2
    <3> QED BY <1>1, <3>2, <3>3
  <2> QED BY <2>1, <2>2
<1> QED BY <1>10, <1>11, <1>12, <1>13, <1>14, <1>15, <1>16, <1>17, <1>18, <1>19, <1>20, <1>21, <1>22
        DEF Rest

\* A crash rolls back; a change that is replicated touches rows only.
LEMMA CrashStep == ASSUME Inv, Crash PROVE Rest'
<1> USE DEF InTx, Alone, settings
<1>0. /\ Exclusion /\ Synced /\ Lists /\ Outside
      /\ CaptureInTx /\ CaptureAlone
      /\ AllOrNothing /\ SuspensionIsReported
      /\ TypeOK
  BY DEF Inv, Rest
<1>1. /\ \A d \in Calls : pc'[d] = IF Active(d) THEN "over" ELSE pc[d]
      /\ db' = committed /\ committed' = committed
      /\ UNCHANGED <<op, todo, current, result, ddlCommits, overlap>>
      /\ faults' # 0
  BY <1>0, MaxFaultsAssumption DEF Crash, Rollback, Fault, TypeOK
<1>2. \A d \in Calls : pc'[d] \in {"idle", "over"} /\ ~Active(d)' /\ ~Executing(d)'
  BY <1>1 DEF Active, Executing, Statements
<1>3. Exclusion' /\ Synced' /\ Lists' /\ AllOrNothing'
  BY <1>0, <1>1, <1>2 DEF Exclusion, Synced, Lists, AllOrNothing
<1>4. Outside'
  BY <1>0, <1>1 DEF Outside
<1>5. /\ CreationInTx' /\ CreationAlone' /\ Creation'
      /\ DeletionInTx' /\ DeletionAlone' /\ Deletion'
  BY <1>2 DEF CreationInTx, CreationAlone, Creation, DeletionInTx, DeletionAlone, Deletion
<1>6. CaptureInTx' /\ CaptureAlone'
  BY <1>0, <1>1, <1>2 DEF CaptureInTx, CaptureAlone
<1>7. SuspensionIsReported'
  BY <1>0, <1>1 DEF SuspensionIsReported, Lists, Active
<1> QED BY <1>3, <1>4, <1>5, <1>6, <1>7 DEF Rest

LEMMA ReplicateStep == ASSUME Inv, NEW t \in Tables, Replicate(t) PROVE Rest'
<1> USE DEF InTx, Alone, settings
<1>0. /\ Exclusion /\ Synced /\ Lists /\ Outside
      /\ CreationInTx /\ CreationAlone /\ Creation
      /\ DeletionInTx /\ DeletionAlone /\ Deletion
      /\ CaptureInTx /\ CaptureAlone
      /\ AllOrNothing /\ SuspensionIsReported
      /\ TypeOK
  BY DEF Inv, Rest
<1>1. /\ db = committed /\ db' = committed'
      /\ committed'.subs = committed.subs /\ committed'.capture = committed.capture
      /\ UNCHANGED <<pc, op, todo, current, result, faults, ddlCommits, overlap>>
  BY <1>0 DEF Replicate, callVars, TypeOK, Database
<1>2. \A d \in Calls : (Executing(d)' <=> Executing(d)) /\ (Active(d)' <=> Active(d))
  BY <1>1 DEF Executing, Active
<1>3. Exclusion' /\ Synced' /\ Lists' /\ Outside' /\ AllOrNothing' /\ SuspensionIsReported'
  BY <1>0, <1>1, <1>2 DEF Exclusion, Synced, Lists, Outside, AllOrNothing, SuspensionIsReported
<1>4. CreationInTx' /\ CreationAlone' /\ Creation'
  BY <1>0, <1>1, <1>2 DEF CreationInTx, CreationAlone, Creation, Made
<1>5. DeletionInTx' /\ DeletionAlone' /\ Deletion'
  BY <1>0, <1>1, <1>2 DEF DeletionInTx, DeletionAlone, Deletion
<1>6. CaptureInTx' /\ CaptureAlone'
  BY <1>0, <1>1, <1>2 DEF CaptureInTx, CaptureAlone
<1> QED BY <1>3, <1>4, <1>5, <1>6 DEF Rest

-----------------------------------------------------------------------------
\* Every step respects the types.
LEMMA TypeStep == ASSUME Inv, [Next]_vars PROVE TypeOK'
<1>0. TypeOK /\ Lists /\ Mapped \subseteq Tables
  BY MappedTables DEF Inv, Rest
<1>1. ASSUME NEW c \in Calls, CallStep(c) PROVE TypeOK'
  <2> USE DEF TypeOK, Moves, Returns, settings
  <2>1. CASE Begin(c) BY <1>0, <2>1 DEF Begin
  <2>2. CASE BadContext(c) BY <1>0, <2>2 DEF BadContext
  <2>3. CASE Look(c)
    <3>1. Subscribed(committed) \in SUBSET Tables
      BY DEF Subscribed
    <3> QED BY <1>0, <2>3, <3>1 DEF Look, LookOnly, LookToDelete, LookToCreate, Plans
  <2>4. CASE CallFails(c) BY <1>0, <2>4, MaxFaultsAssumption DEF CallFails, Fault
  <2>5. CASE Connect(c) BY <1>0, <2>5 DEF Connect, Statements
  <2>6. CASE Commit(c) BY <1>0, <2>6 DEF Commit
  <2>7. CASE CommitFails(c) BY <1>0, <2>7, MaxFaultsAssumption DEF CommitFails, Fault, Rollback
  <2>8. ASSUME NEW t \in Tables \cup {NoTable}, Exec(c, t) PROVE TypeOK'
    <3>1. /\ pc[c] \in {"suspend", "drop", "resume", "truncate", "create", "distribute"}
          /\ pc'[c] \in Statements
      BY <1>0, <2>8, Progress DEF Executing, Statements
    <3>2. pc' \in [Calls -> Statements \cup {"idle", "look", "connect", "over"}]
      BY <1>0, <2>8, <3>1 DEF Exec
    <3>3. After(c, t) \in Database
      BY <1>0, <2>8, Effect DEF Exec
    <3>4. db' \in Database /\ committed' \in Database
      BY <1>0, <2>8, <3>3 DEF Exec, Write
    <3>5. current' \in [Calls -> Tables \cup {NoTable}] /\ todo' \in [Calls -> SUBSET Tables]
      BY <1>0, <2>8 DEF Exec
    <3> QED BY <1>0, <2>8, <3>2, <3>4, <3>5 DEF Exec
  <2>9. ASSUME NEW t \in Tables \cup {NoTable}, Refused(c, t) PROVE TypeOK'
    BY <1>0, <2>9 DEF Refused, Rollback
  <2>10. ASSUME NEW t \in Tables \cup {NoTable}, ExecFails(c, t) PROVE TypeOK'
    <3>1. After(c, t) \in Database
      BY <1>0, <2>10, Effect DEF ExecFails
    <3>2. db' \in Database /\ committed' \in Database
      BY <1>0, <2>10, <3>1 DEF ExecFails, Rollback, Write
    <3>3. faults' \in 0..MaxFaults
      BY <1>0, <2>10, MaxFaultsAssumption DEF ExecFails, Fault
    <3> QED BY <1>0, <2>10, <3>2, <3>3 DEF ExecFails
  <2> QED BY <1>1, <2>1, <2>2, <2>3, <2>4, <2>5, <2>6, <2>7, <2>8, <2>9, <2>10 DEF CallStep
<1>2. CASE Crash
  BY <1>0, <1>2, MaxFaultsAssumption DEF TypeOK, Crash, Fault, Rollback, settings
<1>3. ASSUME NEW t \in Tables, Replicate(t) PROVE TypeOK'
  <2>1. committed' = [subs |-> committed.subs, rows |-> committed.rows \cup {t}, capture |-> committed.capture]
    BY <1>0, <1>3 DEF Replicate, TypeOK, Database
  <2>2. committed' \in Database
    BY <1>0, <2>1, Parts DEF TypeOK, Database
  <2> QED BY <1>0, <1>3, <2>2 DEF TypeOK, Replicate, callVars, settings
<1>4. CASE UNCHANGED vars
  BY <1>0, <1>4 DEF TypeOK, vars, callVars, settings
<1> QED BY <1>1, <1>2, <1>3, <1>4 DEF Next

LEMMA InvStep == ASSUME Inv, [Next]_vars PROVE Inv'
<1>0. TypeOK' /\ TypeOK /\ Lists
  BY TypeStep DEF Inv, Rest
<1>1. ASSUME NEW c \in Calls, CallStep(c) PROVE Rest'
  <2>0. /\ pc \in [Calls -> Statements \cup {"idle", "look", "connect", "over"}]
        /\ todo \in [Calls -> SUBSET Tables] /\ result \in [Calls -> {"none", "success", "skipped", "error"}]
        /\ faults \in Nat
    BY <1>0, MaxFaultsAssumption DEF TypeOK
  <2>1. CASE Begin(c) \/ BadContext(c) \/ Look(c) \/ CallFails(c)
    <3>1. /\ pc[c] \in {"idle", "look", "connect"} /\ pc'[c] \in {"look", "connect", "over"}
          /\ pc[c] = "idle" /\ pc'[c] = "look" => (Alone => \A d \in Calls : ~Active(d))
          /\ pc[c] = "idle" => pc'[c] # "connect"
          /\ UNCHANGED <<committed, db, op, current, settings>>
      BY <2>0, <2>1 DEF Begin, BadContext, Look, LookOnly, LookToDelete, LookToCreate, CallFails,
                        Moves, Returns, Plans, Alone
    <3>2. /\ pc'[c] = "connect" =>
               \/ op[c] = "create" /\ Subscribed(committed) = {} /\ todo'[c] = Mapped
               \/ op[c] = "delete" /\ Subscribed(committed) # {} /\ todo'[c] = Subscribed(committed)
          /\ pc'[c] # "connect" => todo'[c] = todo[c]
      BY <2>0, <2>1 DEF Begin, BadContext, Look, LookOnly, LookToDelete, LookToCreate, CallFails,
                        Moves, Returns, Plans
    <3>3. /\ pc'[c] # "over" => result'[c] = result[c]
          /\ \A d \in Calls \ {c} : pc'[d] = pc[d] /\ todo'[d] = todo[d] /\ result'[d] = result[d]
      BY <2>0, <2>1 DEF Begin, BadContext, Look, LookOnly, LookToDelete, LookToCreate, CallFails,
                        Moves, Returns, Plans
    <3>4. faults' = 0 => faults = 0
      BY <2>0, <2>1 DEF Begin, BadContext, Look, LookOnly, LookToDelete, LookToCreate, CallFails, Fault
    <3> QED BY <3>1, <3>2, <3>3, <3>4, BeforeStep
  <2>2. CASE Connect(c) BY <2>2, ConnectStep
  <2>3. ASSUME NEW t \in Tables \cup {NoTable}, Exec(c, t) PROVE Rest'
    BY <2>3, ExecStep
  <2>4. ASSUME NEW t \in Tables \cup {NoTable}, Refused(c, t) PROVE Rest'
    <3>1. Executing(c) /\ pc'[c] = "over" /\ result'[c] = "error" /\ Rollback
      BY <2>0, <2>4 DEF Refused, Returns
    <3>2. /\ \A d \in Calls \ {c} : pc'[d] = pc[d] /\ result'[d] = result[d]
          /\ UNCHANGED <<op, todo, current, settings>> /\ faults' = faults
      BY <2>0, <2>4 DEF Refused, Returns
    <3>3. ddlCommits /\ Alone => pc[c] \notin {"drop", "resume"}
      <4> SUFFICES ASSUME ddlCommits, Alone, pc[c] = "drop" PROVE FALSE
        BY <2>4 DEF Refused, Accepts
      <4>1. t \in todo[c] /\ op[c] = "delete" /\ db.subs[t] = "none"
        BY <1>0, <2>4 DEF Refused, Accepts, Subjects, Lists
      <4> QED BY <3>1, <4>1 DEF Inv, Rest, DeletionAlone, Synced
    <3> QED BY <3>1, <3>2, <3>3, StopStep
  <2>5. ASSUME NEW t \in Tables \cup {NoTable}, ExecFails(c, t) PROVE Rest'
    <3>1. /\ Executing(c) /\ pc[c] # "commit" /\ pc'[c] = "over" /\ result'[c] = "error"
          /\ Rollback \/ (ddlCommits /\ Accepts(c, t) /\ Write(After(c, t)))
          /\ t \in Subjects(c)
      BY <2>0, <2>5 DEF ExecFails, Returns
    <3>2. /\ \A d \in Calls \ {c} : pc'[d] = pc[d] /\ result'[d] = result[d]
          /\ UNCHANGED <<op, todo, current, settings>> /\ faults' # 0
      BY <2>0, <2>5 DEF ExecFails, Returns, Fault
    <3> QED BY <3>1, <3>2, StopStep
  <2>6. CASE Commit(c) \/ CommitFails(c)
    <3>1. /\ pc[c] = "commit" /\ pc'[c] = "over"
          /\ (Rollback /\ result'[c] = "error") \/ (committed' = db /\ db' = db)
      BY <2>0, <2>6 DEF Commit, CommitFails, Returns
    <3>2. /\ \A d \in Calls \ {c} : pc'[d] = pc[d] /\ result'[d] = result[d]
          /\ UNCHANGED <<op, todo, current, settings>> /\ (faults' = 0 => faults = 0)
      BY <2>0, <2>6 DEF Commit, CommitFails, Returns, Fault
    <3>3. Executing(c)
      BY <3>1 DEF Executing, Statements
    <3> QED BY <3>1, <3>2, <3>3, StopStep
  <2>7. CASE \E t \in Tables \cup {NoTable} : Exec(c, t) \/ Refused(c, t) \/ ExecFails(c, t)
    <3>1. PICK t \in Tables \cup {NoTable} : Exec(c, t) \/ Refused(c, t) \/ ExecFails(c, t)
      BY <2>7
    <3>2. CASE Exec(c, t) BY <2>3, <3>2
    <3>3. CASE Refused(c, t) BY <2>4, <3>3
    <3>4. CASE ExecFails(c, t) BY <2>5, <3>4
    <3> QED BY <3>1, <3>2, <3>3, <3>4
  <2> QED BY <1>1, <2>1, <2>2, <2>6, <2>7 DEF CallStep
<1>2. CASE Crash BY <1>0, <1>2, CrashStep DEF Inv
<1>3. ASSUME NEW t \in Tables, Replicate(t) PROVE Rest' BY <1>3, ReplicateStep
<1>4. CASE UNCHANGED vars
  <2>1. /\ UNCHANGED <<committed, db, pc, op, todo, current, result, faults, ddlCommits, overlap>>
        /\ Rest
    BY <1>4 DEF vars, callVars, settings, Inv
  <2>2. \A c \in Calls : (Executing(c)' <=> Executing(c)) /\ (Active(c)' <=> Active(c))
    BY <2>1 DEF Executing, Active
  <2>3. /\ Exclusion' /\ Synced' /\ Lists' /\ Outside'
        /\ AllOrNothing' /\ SuspensionIsReported' /\ CaptureInTx' /\ CaptureAlone'
    BY <2>1, <2>2 DEF Rest, Exclusion, Synced, Lists, Outside, AllOrNothing, SuspensionIsReported,
                      CaptureInTx, CaptureAlone, InTx, Alone
  <2>4. /\ CreationInTx' /\ CreationAlone' /\ Creation'
        /\ DeletionInTx' /\ DeletionAlone' /\ Deletion'
    BY <2>1, <2>2 DEF Rest, CreationInTx, CreationAlone, Creation, DeletionInTx, DeletionAlone,
                      Deletion, InTx, Alone, Made
  <2> QED BY <1>0, <2>3, <2>4 DEF Inv, Rest
<1> QED BY <1>0, <1>1, <1>2, <1>3, <1>4 DEF Next, Inv

THEOREM Invariance == Spec => []Inv
<1>1. Init => Inv
  <2> SUFFICES ASSUME Init PROVE Inv
    OBVIOUS
  <2>1. /\ Unsubscribed \in [Tables -> {"none", "created", "distributed"}]
        /\ Complete \in [Tables -> {"none", "created", "distributed"}]
        /\ \A t \in Tables \ Mapped : Unsubscribed[t] = "none" /\ Complete[t] = "none"
    BY DEF Unsubscribed, Complete
  <2>2. /\ committed.subs \in {Unsubscribed, Complete} /\ committed \in Database
        /\ committed.capture = "running" /\ db = committed
    BY <2>1 DEF Init, Database
  <2>3. TypeOK
    BY <2>2, MaxFaultsAssumption DEF Init, TypeOK
  <2>4. \A c \in Calls : pc[c] = "idle" /\ todo[c] = {} /\ result[c] = "none" /\ ~Executing(c) /\ ~Active(c)
    BY DEF Init, Executing, Active, Statements
  <2>5. Exclusion /\ Synced /\ Lists /\ AllOrNothing /\ SuspensionIsReported
    BY <2>2, <2>4 DEF Exclusion, Synced, Lists, AllOrNothing, SuspensionIsReported
  <2>6. Outside
    BY <2>1, <2>2 DEF Outside
  <2>7. /\ CreationInTx /\ CreationAlone /\ Creation /\ DeletionInTx /\ DeletionAlone /\ Deletion
        /\ CaptureInTx /\ CaptureAlone
    BY <2>2, <2>4 DEF CreationInTx, CreationAlone, Creation, DeletionInTx, DeletionAlone, Deletion,
                      CaptureInTx, CaptureAlone
  <2> QED BY <2>3, <2>5, <2>6, <2>7 DEF Inv, Rest
<1> QED BY <1>1, InvStep, PTL DEF Spec

\* The types.
THEOREM TypeCorrect == Spec => []TypeOK
BY Invariance, PTL DEF Inv

\* With DDL in transactions, no call, however it ends, leaves a schema partly subscribed.
THEOREM NeverPartial == Spec => []AllOrNothing
BY Invariance, PTL DEF Inv, Rest

\* A capture that stays suspended is not the work of a call that reported success.
THEOREM SuspensionNotHidden == Spec => []SuspensionIsReported
BY Invariance, PTL DEF Inv, Rest

\* A table is emptied only while it is not subscribed, where calls do not overlap or DDL
\* takes part in transactions.
THEOREM ReplicasKept == Spec => NoReplicaEmptied
<1> DEFINE Kept == Alone \/ InTx =>
             \A t \in committed.rows \ committed'.rows : committed.subs[t] = "none"
<1>1. Inv /\ [Next]_vars => Kept
  <2> SUFFICES ASSUME Inv, [Next]_vars, Alone \/ InTx, NEW t \in committed.rows, t \notin committed'.rows
               PROVE  committed.subs[t] = "none"
    OBVIOUS
  <2> USE DEF InTx, Alone
  <2>0. /\ Synced /\ Lists /\ Outside /\ CreationInTx /\ CreationAlone /\ DeletionInTx /\ TypeOK
    BY DEF Inv, Rest
  <2>1. ASSUME NEW c \in Calls, committed' = db, Executing(c), InTx, pc[c] = "commit"
        PROVE  committed.subs[t] = "none"
    <3>1. op[c] \in {"create", "delete"}
      BY <2>0, <2>1 DEF Lists
    <3>2. op[c] = "create"
      BY <2>0, <2>1, <3>1 DEF DeletionInTx
    <3>3. t \in Mapped /\ Made(c, t)
      BY <2>0, <2>1, <3>2 DEF CreationInTx
    <3> QED BY <2>0, <2>1, <3>2, <3>3 DEF CreationInTx
  <2>2. ASSUME NEW c \in Calls, NEW u \in Subjects(c), Executing(c), pc[c] # "commit",
               ddlCommits, committed' = After(c, u)
        PROVE  committed.subs[t] = "none"
    <3>1. db = committed
      BY <2>0, <2>2 DEF Synced
    <3>2. pc[c] = "truncate" /\ u = t /\ t \in todo[c] /\ t \in Mapped
      BY <2>0, <2>2, <3>1, Effect
    <3> QED BY <2>0, <2>2, <3>2 DEF Lists, CreationAlone, Made
  <2>3. ASSUME NEW c \in Calls, CallStep(c) PROVE committed.subs[t] = "none"
    <3>1. ASSUME NEW u \in Tables \cup {NoTable}, Exec(c, u) PROVE committed.subs[t] = "none"
      BY <2>2, <3>1 DEF Exec, Write
    <3>2. ASSUME NEW u \in Tables \cup {NoTable}, ExecFails(c, u) PROVE committed.subs[t] = "none"
      BY <2>2, <3>2 DEF ExecFails, Write, Rollback
    <3>3. CASE Commit(c) \/ CommitFails(c)
      <4>1. pc[c] = "commit" /\ Executing(c) /\ committed' = db
        BY <3>3 DEF Commit, CommitFails, Rollback, Executing, Statements
      <4> QED BY <2>0, <2>1, <4>1 DEF Synced
    <3>4. CASE committed' = committed
      BY <3>4
    <3> QED
      BY <2>3, <3>1, <3>2, <3>3, <3>4
         DEF CallStep, Begin, BadContext, Look, LookOnly, LookToDelete, LookToCreate, CallFails, Connect,
             Refused, Rollback
  <2>4. CASE Crash \/ UNCHANGED vars
    BY <2>4 DEF Crash, Rollback, vars
  <2>5. ASSUME NEW u \in Tables, Replicate(u) PROVE FALSE
    BY <2>0, <2>5 DEF Replicate, TypeOK, Database
  <2> QED BY <2>3, <2>4, <2>5 DEF Next
<1>2. Kept => ((~overlap \/ ~ddlCommits) =>
                 \A t \in committed.rows \ committed'.rows : committed.subs[t] = "none")
  BY DEF Alone, InTx
<1> QED BY <1>1, <1>2, Invariance, PTL DEF Spec, NoReplicaEmptied

\* What a call that did not overlap with another one has answered is so.
THEOREM AnswersAreTrue == Spec => AnswersHold
<1> DEFINE Held == ~overlap => \A c \in Calls : result'[c] # result[c] => AnswerHolds(c)
<1>1. Inv /\ Inv' /\ [Next]_vars => Held
  <2> SUFFICES ASSUME Inv, Inv', [Next]_vars, ~overlap, NEW c \in Calls, result'[c] # result[c]
               PROVE  AnswerHolds(c)
    OBVIOUS
  <2>0. /\ Synced /\ Lists /\ Outside /\ Creation /\ Deletion /\ CaptureInTx /\ CaptureAlone
        /\ AllOrNothing /\ TypeOK /\ Alone
    BY DEF Inv, Rest, Alone
  <2>1. CallStep(c)
    <3>1. ~Crash /\ ~UNCHANGED vars /\ \A t \in Tables : ~Replicate(t)
      BY DEF Crash, vars, callVars, Replicate
    <3>2. PICK d \in Calls : CallStep(d)
      BY <3>1 DEF Next
    <3>3. d # c => result'[c] = result[c]
      BY <2>0, <3>2 DEF CallStep, Begin, BadContext, Look, LookOnly, LookToDelete, LookToCreate, CallFails,
         Connect, Commit, CommitFails, Exec, Refused, ExecFails, Moves, Returns, Plans, TypeOK
    <3> QED BY <3>2, <3>3
  <2>2. committed.subs \in [Tables -> {"none", "created", "distributed"}]
        /\ db.subs \in [Tables -> {"none", "created", "distributed"}] /\ MaxFaults \in Nat
        /\ committed.capture \in {"running", "suspended"}
    BY <2>0, Parts, MaxFaultsAssumption DEF TypeOK
  <2>3. CASE LookToCreate(c)
    <3>1. committed' = committed /\ op[c] = "create" /\ result'[c] \in {"skipped", "success"}
      BY <2>0, <2>3 DEF LookToCreate, Returns, Plans, Moves, TypeOK
    <3>2. CASE result'[c] = "success"
      <4>1. Subscribed(committed) = {} /\ Mapped = {}
        BY <2>0, <2>3, <3>2 DEF LookToCreate, Returns, Plans, Moves, TypeOK
      <4>2. \A t \in Tables : committed.subs[t] = "none"
        BY <4>1 DEF Subscribed
      <4>3. committed.subs = Complete
        BY <2>2, <4>1, <4>2 DEF Complete
      <4> QED BY <3>1, <3>2, <4>3 DEF AnswerHolds
    <3>3. CASE result'[c] = "skipped"
      <4>1. Subscribed(committed) # {}
        BY <2>0, <2>3, <3>3 DEF LookToCreate, Returns, Plans, Moves, TypeOK
      <4>2. committed.subs # Unsubscribed
        BY <4>1 DEF Subscribed, Unsubscribed
      <4> QED BY <2>0, <3>1, <3>3, <4>2 DEF AnswerHolds, AllOrNothing
    <3> QED BY <3>1, <3>2, <3>3
  <2>4. CASE LookToDelete(c)
    <3>1. /\ pc[c] = "look" /\ op[c] = "delete" /\ result'[c] = "success" /\ Subscribed(committed) = {}
          /\ UNCHANGED <<committed, faults, ddlCommits>>
      BY <2>0, <2>4 DEF LookToDelete, Returns, Plans, Moves, TypeOK, settings
    <3>2. \A t \in Tables : committed.subs[t] = "none"
      BY <3>1 DEF Subscribed
    <3>3. committed.subs = Unsubscribed
      BY <2>2, <3>2 DEF Unsubscribed
    <3>4. \A d \in Calls : pc[d] \notin {"drop", "resume"}
      BY <2>0, <3>1, OnlyOne DEF Active, Executing, Statements
    <3>5. ~ddlCommits \/ faults = 0 => committed.capture = "running"
      BY <2>0, <2>2, <3>4 DEF CaptureInTx, CaptureAlone, InTx
    <3> QED BY <3>1, <3>3, <3>5 DEF AnswerHolds
  <2>5. CASE Commit(c)
    <3>1. /\ pc[c] = "commit" /\ committed' = db /\ result'[c] = "success" /\ Executing(c)
          /\ UNCHANGED <<faults, ddlCommits>>
      BY <2>0, <2>5 DEF Commit, Returns, TypeOK, Executing, Statements, settings
    <3>2. todo[c] = {} /\ op[c] \in {"create", "delete"} /\ \A t \in Tables \ Mapped : db.subs[t] = "none"
      BY <2>0, <3>1 DEF Lists, Outside
    <3>3. CASE op[c] = "create"
      <4>1. \A t \in Mapped : db.subs[t] = "distributed"
        BY <2>0, <3>1, <3>2, <3>3 DEF Creation
      <4>2. db.subs = Complete
        BY <2>2, <3>2, <4>1 DEF Complete
      <4> QED BY <3>1, <3>3, <4>2 DEF AnswerHolds
    <3>4. CASE op[c] = "delete"
      <4>1. \A t \in Mapped : db.subs[t] = "none"
        BY <2>0, <3>1, <3>2, <3>4 DEF Deletion
      <4>2. db.subs = Unsubscribed
        BY <2>2, <3>2, <4>1 DEF Unsubscribed
      <4>3. db.capture = "running"
        BY <2>0, <3>1, <3>4 DEF CaptureInTx, CaptureAlone, InTx, Synced
      <4> QED BY <3>1, <3>4, <4>2, <4>3 DEF AnswerHolds
    <3> QED BY <3>2, <3>3, <3>4
  <2>6. CASE result'[c] = "error"
    BY <2>6 DEF AnswerHolds
  <2>7. CASE LookOnly(c)
    BY <2>0, <2>7 DEF AnswerHolds, LookOnly, Returns, TypeOK
  <2>8. result'[c] = "error" \/ Look(c) \/ Commit(c)
    BY <2>0, <2>1 DEF CallStep, Begin, BadContext, CallFails, Connect, CommitFails, Exec, Refused, ExecFails,
                      Moves, Returns, TypeOK
  <2> QED BY <2>3, <2>4, <2>5, <2>6, <2>7, <2>8 DEF Look
<1>2. Held => (~overlap => \A c \in Calls : result'[c] # result[c] => AnswerHolds(c))
  OBVIOUS
<1> QED BY <1>1, <1>2, Invariance, PTL DEF Spec, AnswersHold
-----------------------------------------------------------------------------
\* What a creation in a transaction has left of the rows: it added none, and emptied
\* every table it got to, except one that was subscribed all along, which CREATE will
\* be refused for.
Emptied(c) ==
  /\ db.rows \subseteq committed.rows
  /\ \A t \in Mapped : Made(c, t) \/ (pc[c] = "create" /\ t = current[c]) =>
       t \notin db.rows \/ committed.subs[t] # "none"

EmptiedInTx == InTx => \A c \in Calls : Executing(c) /\ op[c] = "create" => Emptied(c)

LEMMA EmptiedByExec ==
  ASSUME Inv, InTx, NEW c \in Calls, op[c] = "create", Emptied(c),
         NEW u \in Tables \cup {NoTable}, Exec(c, u)
  PROVE  Emptied(c)'
<1>0. TypeOK /\ Lists /\ CreationInTx
  BY DEF Inv, Rest
<1>1. /\ pc[c] = "truncate" => pc'[c] = "create" /\ current'[c] = u
      /\ pc[c] = "create" => pc'[c] = "distribute"
      /\ pc[c] = "distribute" => pc'[c] \in {"commit", "truncate"}
      /\ pc[c] # "truncate" => current'[c] = current[c]
      /\ todo'[c] = IF pc[c] \in {"drop", "distribute"} THEN todo[c] \ {u} ELSE todo[c]
      /\ u \in Subjects(c) /\ Accepts(c, u) /\ Write(After(c, u))
      /\ Executing(c) /\ pc[c] # "commit"
  BY <1>0, Progress
<1>2. pc[c] \in {"truncate", "create", "distribute"}
  BY <1>0, <1>1 DEF Lists, Executing, Statements
<1>3. db' = After(c, u) /\ committed' = committed
  BY <1>1 DEF Write, InTx
<1>4. /\ db'.rows = IF pc[c] = "truncate" THEN db.rows \ {u} ELSE db.rows
      /\ u \in todo[c] /\ u \in Mapped
      /\ pc[c] \in {"create", "distribute"} => u = current[c]
  BY <1>0, <1>1, <1>2, <1>3, Effect
<1>5. db'.rows \subseteq committed'.rows
  BY <1>3, <1>4 DEF Emptied
<1>6. ASSUME NEW t \in Mapped, (Made(c, t) \/ (pc[c] = "create" /\ t = current[c]))'
      PROVE  t \notin db'.rows \/ committed'.subs[t] # "none"
  <2>1. CASE Made(c, t) \/ (pc[c] = "create" /\ t = current[c])
    BY <1>3, <1>4, <2>1 DEF Emptied
  <2>2. CASE pc[c] = "truncate"
    BY <1>1, <1>3, <1>4, <1>6, <2>1, <2>2 DEF Made
  <2>3. CASE pc[c] = "create"
    BY <1>1, <1>4, <1>6, <2>1, <2>3 DEF Made
  <2>4. CASE pc[c] = "distribute"
    BY <1>1, <1>4, <1>6, <2>1, <2>4 DEF Made
  <2> QED BY <1>2, <2>2, <2>3, <2>4
<1> QED BY <1>5, <1>6 DEF Emptied

\* The part of a step of a call that is about its own place.
LEMMA Places ==
  ASSUME TypeOK, NEW d \in Calls, CallStep(d)
  PROVE  /\ \A c \in Calls \ {d} : pc'[c] = pc[c] /\ todo'[c] = todo[c] /\ current'[c] = current[c]
         /\ \/ \E u \in Tables \cup {NoTable} : Exec(d, u)
            \/ Connect(d)
            \/ ~Executing(d) /\ ~Executing(d)' /\ UNCHANGED <<committed, db>>
            \/ Executing(d) /\ ~Executing(d)'
         /\ UNCHANGED <<op, settings>>
BY DEF TypeOK, CallStep, Begin, BadContext, Look, LookOnly, LookToDelete, LookToCreate, CallFails,
       Connect, Commit, CommitFails, Exec, Refused, ExecFails, Moves, Returns, Plans, Executing, Statements

LEMMA EmptiedStep == ASSUME Inv, EmptiedInTx, [Next]_vars PROVE EmptiedInTx'
<1>0. TypeOK /\ Lists /\ CreationInTx /\ Synced
  BY DEF Inv, Rest
<1>1. ASSUME NEW d \in Calls, CallStep(d) PROVE EmptiedInTx'
  <2>0. UNCHANGED <<op, settings>>
    BY <1>0, <1>1, Places
  <2> SUFFICES ASSUME InTx, NEW c \in Calls, Executing(c)', op[c] = "create" PROVE Emptied(c)'
    BY <2>0 DEF EmptiedInTx, InTx, settings
  <2>1. c # d => /\ pc'[c] = pc[c] /\ todo'[c] = todo[c] /\ current'[c] = current[c] /\ Executing(c)
    BY <1>0, <1>1, Places DEF Executing
  <2>2. ASSUME NEW u \in Tables \cup {NoTable}, Exec(d, u) PROVE Emptied(c)'
    <3>1. c = d
      BY <2>1, <2>2, OnlyOne DEF Exec
    <3> QED BY <2>2, <3>1, EmptiedByExec DEF EmptiedInTx, Exec
  <2>3. CASE Connect(d)
    <3>1. UNCHANGED <<committed, db, todo, current>> /\ \A e \in Calls : ~Executing(e)
      BY <2>3 DEF Connect, InTx
    <3>2. c = d /\ todo[c] = Mapped /\ pc'[c] = "truncate"
      BY <1>0, <2>1, <2>3, <3>1 DEF Connect, Moves, Lists, TypeOK
    <3>3. db = committed
      BY <1>0, <3>1 DEF Synced
    <3> QED BY <3>1, <3>2, <3>3 DEF Emptied, Made
  <2>4. CASE ~Executing(d) /\ ~Executing(d)' /\ UNCHANGED <<committed, db>>
    BY <2>1, <2>4 DEF EmptiedInTx, Emptied, Made
  <2>5. CASE Executing(d) /\ ~Executing(d)'
    BY <2>1, <2>5, OnlyOne
  <2> QED BY <1>0, <1>1, <2>2, <2>3, <2>4, <2>5, Places
<1>2. CASE Crash
  BY <1>0, <1>2 DEF Crash, Active, EmptiedInTx, Executing, Statements, TypeOK
<1>3. ASSUME NEW u \in Tables, Replicate(u) PROVE EmptiedInTx'
  <2>1. /\ db = committed /\ db' = committed' /\ committed.subs[u] = "distributed"
        /\ UNCHANGED <<pc, op, todo, current, ddlCommits>>
        /\ committed' = [committed EXCEPT !.rows = @ \cup {u}]
    BY <1>3 DEF Replicate, callVars, settings
  <2>2. committed'.rows = committed.rows \cup {u} /\ committed'.subs = committed.subs
    BY <1>0, <2>1 DEF TypeOK, Database
  <2> SUFFICES ASSUME InTx, NEW c \in Calls, Executing(c), op[c] = "create", Emptied(c) PROVE Emptied(c)'
    BY <2>1 DEF EmptiedInTx, InTx, Executing
  <2> QED BY <2>1, <2>2 DEF Emptied, Made
<1>4. CASE UNCHANGED vars
  BY <1>4 DEF vars, callVars, settings, EmptiedInTx, Emptied, Made, Executing, InTx
<1> QED BY <1>1, <1>2, <1>3, <1>4 DEF Next
-----------------------------------------------------------------------------
\* What a transaction shows when it is committed: the list as a whole.
LEMMA Committed ==
  ASSUME Inv, EmptiedInTx, InTx, NEW c \in Calls, pc[c] = "commit", committed' = db
  PROVE  SR!Subscribe \/ SR!Unsubscribe \/ UNCHANGED committed
<1>0. /\ TypeOK /\ Lists /\ Outside /\ CreationInTx /\ Creation /\ DeletionInTx /\ Deletion
      /\ CaptureInTx /\ AllOrNothing
  BY DEF Inv, Rest
<1>1. Executing(c) /\ op[c] \in {"create", "delete"} /\ todo[c] = {}
  BY <1>0 DEF Lists, Executing, Statements
<1>2. /\ db.subs \in [Tables -> {"none", "created", "distributed"}]
      /\ committed.subs \in [Tables -> {"none", "created", "distributed"}]
      /\ db.rows \subseteq Tables /\ committed.rows \subseteq Tables
  BY <1>0, Parts DEF TypeOK
<1>3. committed.capture = "running" /\ db.capture = "running"
  BY <1>0, <1>1 DEF CaptureInTx
<1>4. \A t \in Tables \ Mapped : db.subs[t] = "none" /\ committed.subs[t] = "none"
  BY <1>0 DEF Outside
<1>5. CASE op[c] = "create"
  <2>1. \A t \in Mapped : db.subs[t] = "distributed" /\ committed.subs[t] = "none" /\ Made(c, t)
    BY <1>0, <1>1, <1>5 DEF Creation, CreationInTx, Made
  <2>2. db.subs = Complete /\ committed.subs = Unsubscribed
    BY <1>2, <1>4, <2>1 DEF Complete, Unsubscribed
  <2>3. Emptied(c) /\ committed.rows \ db.rows \subseteq Mapped
    BY <1>0, <1>1, <1>5 DEF EmptiedInTx, CreationInTx
  <2>4. db.rows = committed.rows \ Mapped
    BY <2>1, <2>3 DEF Emptied
  <2> QED BY <1>3, <2>2, <2>4 DEF SR!Subscribe, SR!Nothing, SR!Everything, Complete, Unsubscribed
<1>6. CASE op[c] = "delete"
  <2>1. \A t \in Mapped : db.subs[t] = "none"
    BY <1>0, <1>1, <1>6 DEF Deletion
  <2>2. db.subs = Unsubscribed
    BY <1>2, <1>4, <2>1 DEF Unsubscribed
  <2>3. db.rows = committed.rows
    BY <1>0, <1>1, <1>6 DEF DeletionInTx
  <2>4. CASE committed.subs = Unsubscribed
    BY <1>0, <1>3, <2>2, <2>3, <2>4 DEF TypeOK, Database
  <2>5. CASE committed.subs = Complete
    BY <1>3, <2>2, <2>3, <2>5 DEF SR!Unsubscribe, SR!Nothing, SR!Everything, Complete, Unsubscribed
  <2> QED BY <1>0, <2>4, <2>5 DEF AllOrNothing, InTx
<1> QED BY <1>1, <1>5, <1>6

LEMMA ReplicationStep == ASSUME Inv, EmptiedInTx, [Next]_vars PROVE [SR!Next]_SR!schema
<1>0. TypeOK
  BY DEF Inv
<1>1. UNCHANGED ddlCommits
  BY DEF Next, CallStep, Begin, BadContext, Look, LookOnly, LookToDelete, LookToCreate, CallFails, Connect,
         Commit, CommitFails, Exec, Refused, ExecFails, Crash, Replicate, settings, vars
<1>2. CASE ddlCommits
  BY <1>1, <1>2 DEF SR!Next
<1>3. ASSUME InTx PROVE \/ SR!Subscribe \/ SR!Unsubscribe \/ UNCHANGED committed
                        \/ \E t \in Tables : SR!Replicate(t)
  <2>1. ASSUME NEW c \in Calls, CallStep(c) PROVE SR!Subscribe \/ SR!Unsubscribe \/ UNCHANGED committed
    <3>1. CASE pc[c] = "commit" /\ committed' = db
      BY <1>3, <3>1, Committed
    <3>2. (pc[c] = "commit" /\ committed' = db) \/ committed' = committed
      BY <1>3, <2>1 DEF InTx, CallStep, Begin, BadContext, Look, LookOnly, LookToDelete, LookToCreate,
         CallFails, Connect, Commit, CommitFails, Exec, Refused, ExecFails, Write, Rollback
    <3> QED BY <3>1, <3>2
  <2>2. CASE Crash \/ UNCHANGED vars
    BY <2>2 DEF Crash, Rollback, vars
  <2>3. ASSUME NEW t \in Tables, Replicate(t) PROVE SR!Replicate(t)
    <3>1. /\ committed'.rows = committed.rows \cup {t} /\ committed'.subs = committed.subs
          /\ committed'.capture = committed.capture
      BY <1>0, <2>3 DEF Replicate, TypeOK, Database
    <3> QED BY <2>3, <3>1 DEF Replicate, SR!Replicate
  <2> QED BY <2>1, <2>2, <2>3 DEF Next
<1>4. CASE InTx
  <2>1. CASE UNCHANGED committed
    BY <1>1, <2>1 DEF SR!schema
  <2>2. CASE SR!Subscribe \/ SR!Unsubscribe \/ \E t \in Tables : SR!Replicate(t)
    BY <1>1, <2>2 DEF SR!Next
  <2> QED BY <1>3, <1>4, <2>1, <2>2
<1> QED BY <1>2, <1>4 DEF InTx

\* executeInTx makes one step of a list of statements, where the database lets it: whatever
\* fails, stops or overlaps, the schema is seen to be subscribed as a whole, its tables emptied
\* with it and never else, or unsubscribed as a whole, and the capture runs.
THEOREM ReplicationKept == Spec => ImplementsReplication
<1>1. Init => SR!Init
  BY DEF Init, SR!Init, SR!Nothing, SR!Everything, Unsubscribed, Complete
<1>2. Init => EmptiedInTx
  BY DEF Init, EmptiedInTx, Executing, Statements
<1>3. Spec => []EmptiedInTx
  BY <1>2, EmptiedStep, Invariance, PTL DEF Spec
<1> QED BY <1>1, <1>3, ReplicationStep, Invariance, PTL DEF Spec, ImplementsReplication, SR!Spec
-----------------------------------------------------------------------------
\* How many steps a call has left: three statements for every table of a creation, one
\* for every table of a deletion, and those before, around and after the list.
StepsLeft(c) ==
  CASE pc[c] = "idle"       -> 3 * Cardinality(Tables) + 5
    [] pc[c] = "look"       -> 3 * Cardinality(Tables) + 4
    [] pc[c] = "connect"    -> 3 * Cardinality(todo[c]) + 3
    [] pc[c] = "suspend"    -> 3 * Cardinality(todo[c]) + 2
    [] pc[c] = "drop"       -> 3 * Cardinality(todo[c]) + 1
    [] pc[c] = "resume"     -> 2
    [] pc[c] = "truncate"   -> 3 * Cardinality(todo[c]) + 1
    [] pc[c] = "create"     -> 3 * Cardinality(todo[c])
    [] pc[c] = "distribute" -> 3 * Cardinality(todo[c]) - 1
    [] pc[c] = "commit"     -> 1
    [] pc[c] = "over"       -> 0

\* How many tables a list is about.
LEMMA Counting ==
  ASSUME NEW S \in SUBSET Tables
  PROVE  /\ Cardinality(S) \in Nat /\ Cardinality(S) <= Cardinality(Tables)
         /\ Cardinality(Tables) \in Nat
         /\ \A t \in S : /\ Cardinality(S) >= 1
                         /\ Cardinality(S \ {t}) = Cardinality(S) - 1
<1>1. IsFiniteSet(Tables) /\ IsFiniteSet(S)
  BY TablesAssumption, FS_Subset
<1>2. Cardinality(S) \in Nat /\ Cardinality(Tables) \in Nat /\ Cardinality(S) <= Cardinality(Tables)
  BY <1>1, FS_CardinalityType, FS_Subset
<1>3. ASSUME NEW t \in S PROVE Cardinality(S \ {t}) = Cardinality(S) - 1 /\ Cardinality(S) >= 1
  <2>1. IsFiniteSet(S \ {t}) /\ Cardinality(S \ {t}) = Cardinality(S) - 1
    BY <1>1, FS_RemoveElement
  <2>2. Cardinality(S \ {t}) \in Nat
    BY <2>1, FS_CardinalityType
  <2> QED BY <1>2, <2>1, <2>2
<1> QED BY <1>2, <1>3

LEMMA LeftIsNat == ASSUME TypeOK, Lists, NEW c \in Calls PROVE StepsLeft(c) \in Nat
<1>1. /\ pc[c] \in Statements \cup {"idle", "look", "connect", "over"}
      /\ todo[c] \in SUBSET Tables
  BY DEF TypeOK
<1>2. Cardinality(todo[c]) \in Nat /\ Cardinality(Tables) \in Nat
  BY <1>1, Counting
<1>3. pc[c] = "distribute" => Cardinality(todo[c]) >= 1
  BY <1>1, Counting DEF Lists
<1> QED BY <1>1, <1>2, <1>3 DEF StepsLeft, Statements

\* A statement that is carried out brings the end of the list nearer.
LEMMA ExecLowers ==
  ASSUME TypeOK, Lists, NEW c \in Calls, NEW t \in Tables \cup {NoTable}, Exec(c, t)
  PROVE  StepsLeft(c)' < StepsLeft(c)
<1>1. /\ pc[c] = "suspend" => pc'[c] = "drop"
      /\ pc[c] = "drop" => pc'[c] = IF todo[c] = {t} THEN "resume" ELSE "drop"
      /\ pc[c] = "resume" => pc'[c] = "commit"
      /\ pc[c] = "truncate" => pc'[c] = "create"
      /\ pc[c] = "create" => pc'[c] = "distribute"
      /\ pc[c] = "distribute" => pc'[c] = IF todo[c] = {t} THEN "commit" ELSE "truncate"
      /\ todo'[c] = IF pc[c] \in {"drop", "distribute"} THEN todo[c] \ {t} ELSE todo[c]
      /\ t \in Subjects(c) /\ Executing(c) /\ pc[c] # "commit"
  BY Progress
<1>2. pc[c] \in {"suspend", "drop", "resume", "truncate", "create", "distribute"}
  BY <1>1 DEF Executing, Statements
<1>3. pc[c] \in {"drop", "distribute"} => t \in todo[c]
  BY <1>1, Effect
<1>4. todo[c] \in SUBSET Tables
  BY DEF TypeOK
<1>5. Cardinality(todo[c]) \in Nat
  BY <1>4, Counting
<1>6. CASE pc[c] \in {"drop", "distribute"}
  <2>1. /\ todo'[c] = todo[c] \ {t}
        /\ Cardinality(todo[c] \ {t}) = Cardinality(todo[c]) - 1
        /\ Cardinality(todo[c]) >= 1
    BY <1>1, <1>3, <1>4, <1>6, Counting
  <2>2. Cardinality(todo'[c]) = Cardinality(todo[c]) - 1
    BY <2>1
  <2>3. CASE pc[c] = "drop"
    BY <1>1, <1>5, <2>1, <2>2, <2>3 DEF StepsLeft
  <2>4. CASE pc[c] = "distribute"
    BY <1>1, <1>5, <2>1, <2>2, <2>4 DEF StepsLeft
  <2> QED BY <1>6, <2>3, <2>4
<1>7. CASE pc[c] \in {"suspend", "resume", "truncate", "create"}
  <2>1. todo'[c] = todo[c]
    BY <1>1, <1>7
  <2> QED BY <1>1, <1>5, <1>7, <2>1 DEF StepsLeft
<1> QED BY <1>2, <1>6, <1>7

\* So does every other step of the call.
LEMMA StepLowers ==
  ASSUME TypeOK, Lists, NEW c \in Calls, CallStep(c)
  PROVE  StepsLeft(c)' < StepsLeft(c)
<1>1. todo[c] \in SUBSET Tables /\ Mapped \in SUBSET Tables /\ Subscribed(committed) \in SUBSET Tables
  BY MappedTables DEF TypeOK, Subscribed
<1>2. /\ Cardinality(todo[c]) \in Nat /\ Cardinality(Tables) \in Nat
      /\ \A S \in SUBSET Tables : Cardinality(S) \in Nat /\ Cardinality(S) <= Cardinality(Tables)
  BY <1>1, Counting
<1>3. ASSUME pc[c] # "over", pc'[c] = "over" PROVE StepsLeft(c)' < StepsLeft(c)
  <2>1. StepsLeft(c)' = 0
    BY <1>3 DEF StepsLeft
  <2>2. StepsLeft(c) \in Nat /\ pc[c] \in (Statements \cup {"idle", "look", "connect", "over"})
    BY LeftIsNat DEF TypeOK
  <2>3. pc[c] = "distribute" => Cardinality(todo[c]) >= 1
    BY <1>1, Counting DEF Lists
  <2>4. pc[c] = "create" => Cardinality(todo[c]) >= 1
    BY <1>1, Counting DEF Lists
  <2>5. StepsLeft(c) # 0
    BY <1>2, <1>3, <2>2, <2>3, <2>4 DEF StepsLeft, Statements
  <2> QED BY <2>1, <2>2, <2>5
<1>4. ASSUME NEW t \in Tables \cup {NoTable}, Exec(c, t) PROVE StepsLeft(c)' < StepsLeft(c)
  BY <1>4, ExecLowers
<1>5. CASE Begin(c)
  <2>1. pc[c] = "idle" /\ pc'[c] = "look"
    BY <1>5 DEF Begin, Moves, TypeOK
  <2> QED BY <1>2, <2>1 DEF StepsLeft
<1>6. CASE Connect(c)
  <2>1. pc[c] = "connect" /\ pc'[c] \in {"suspend", "truncate"} /\ todo' = todo
    BY <1>6 DEF Connect, Moves, TypeOK
  <2> QED BY <1>2, <2>1 DEF StepsLeft
<1>7. CASE pc[c] = "look" /\ pc'[c] = "connect" /\ todo'[c] \in SUBSET Tables
  <2>1. Cardinality(todo'[c]) \in Nat /\ Cardinality(todo'[c]) <= Cardinality(Tables)
    BY <1>2, <1>7
  <2> QED BY <1>2, <1>7, <2>1 DEF StepsLeft
<1>8. CASE LookToDelete(c) \/ LookToCreate(c)
  <2>1. /\ pc[c] = "look" /\ pc'[c] \in {"over", "connect"}
        /\ pc'[c] = "connect" => todo'[c] \in {Mapped, Subscribed(committed)}
    BY <1>8 DEF LookToDelete, LookToCreate, Plans, Moves, Returns, TypeOK
  <2> QED BY <1>1, <1>3, <1>7, <2>1
<1>9. CASE BadContext(c) \/ LookOnly(c) \/ CallFails(c) \/ Commit(c) \/ CommitFails(c)
  BY <1>3, <1>9 DEF BadContext, LookOnly, CallFails, Commit, CommitFails, Returns, TypeOK
<1>10. ASSUME NEW t \in Tables \cup {NoTable}, Refused(c, t) \/ ExecFails(c, t)
       PROVE  StepsLeft(c)' < StepsLeft(c)
  BY <1>3, <1>10 DEF Refused, ExecFails, Executing, Statements, Returns, TypeOK
<1> QED BY <1>4, <1>5, <1>6, <1>8, <1>9, <1>10 DEF CallStep, Look

\* executeInTx and the looks before it have nothing that repeats: every step of a call
\* leaves it fewer steps, of a number that the schema's tables give.  No other call, no
\* replication and no crash gives it more, although others change the subscriptions that
\* its list was made from.
THEOREM CallsAreBounded ==
  Spec => [][\A c \in Calls : /\ StepsLeft(c)' \in Nat /\ StepsLeft(c)' <= StepsLeft(c)
                              /\ CallStep(c) => StepsLeft(c)' < StepsLeft(c)]_vars
<1> DEFINE Less(c) == /\ StepsLeft(c)' \in Nat /\ StepsLeft(c)' <= StepsLeft(c)
                      /\ CallStep(c) => StepsLeft(c)' < StepsLeft(c)
<1> DEFINE Natural == \A c \in Calls : StepsLeft(c) \in Nat
<1>0. Inv => TypeOK /\ Lists /\ Natural
  BY LeftIsNat DEF Inv, Rest
<1> HIDE DEF Natural
<1>00. Inv' => Natural'
  BY <1>0, PTL
<1> USE DEF Natural
<1>1. Inv' => \A c \in Calls : StepsLeft(c)' \in Nat
  BY <1>00
<1>2. ASSUME Inv, Inv', [Next]_vars, NEW c \in Calls PROVE Less(c)
  <2>0. TypeOK /\ Lists /\ StepsLeft(c) \in Nat /\ StepsLeft(c)' \in Nat
    BY <1>0, <1>1, <1>2
  <2>1. CallStep(c) => StepsLeft(c)' < StepsLeft(c)
    BY <2>0, StepLowers
  <2>2. ASSUME NEW d \in Calls, CallStep(d), d # c PROVE StepsLeft(c)' = StepsLeft(c)
    <3>1. pc'[c] = pc[c] /\ todo'[c] = todo[c]
      BY <2>0, <2>2, Places
    <3> QED BY <3>1 DEF StepsLeft
  <2>3. CASE Crash
    <3>1. todo' = todo /\ pc'[c] \in {pc[c], "over"}
      BY <2>0, <2>3 DEF Crash, TypeOK
    <3>2. CASE pc'[c] = pc[c]
      <4>1. StepsLeft(c)' = StepsLeft(c)
        BY <3>1, <3>2 DEF StepsLeft
      <4> QED BY <2>0, <2>1, <4>1
    <3>3. CASE pc'[c] = "over"
      <4>1. StepsLeft(c)' = 0
        BY <3>3 DEF StepsLeft
      <4> QED BY <2>0, <2>1, <4>1
    <3> QED BY <3>1, <3>2, <3>3
  <2>4. CASE UNCHANGED vars \/ \E t \in Tables : Replicate(t)
    <3>1. UNCHANGED <<pc, todo>>
      BY <2>4 DEF vars, callVars, Replicate
    <3>2. StepsLeft(c)' = StepsLeft(c)
      BY <3>1 DEF StepsLeft
    <3> QED BY <2>0, <2>1, <3>2
  <2>5. StepsLeft(c)' <= StepsLeft(c)
    <3>1. ASSUME NEW d \in Calls, CallStep(d) PROVE StepsLeft(c)' <= StepsLeft(c)
      BY <2>0, <2>1, <2>2, <3>1
    <3>2. CASE Crash \/ UNCHANGED vars \/ \E t \in Tables : Replicate(t)
      BY <2>3, <2>4, <3>2
    <3> QED BY <1>2, <3>1, <3>2 DEF Next
  <2> QED BY <2>0, <2>1, <2>5
<1>3. Inv /\ Inv' /\ [Next]_vars => \A c \in Calls : Less(c)
  BY <1>2
<1> HIDE DEF Less
<1>4. (\A c \in Calls : Less(c)) =>
        \A c \in Calls : /\ StepsLeft(c)' \in Nat /\ StepsLeft(c)' <= StepsLeft(c)
                         /\ CallStep(c) => StepsLeft(c)' < StepsLeft(c)
  BY DEF Less
<1> QED BY <1>3, <1>4, Invariance, PTL DEF Spec
=============================================================================
