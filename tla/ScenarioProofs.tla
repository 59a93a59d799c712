--------------------------- MODULE ScenarioProofs ---------------------------
(***************************************************************************)
(* Proofs about ScenarioFSM, for every transition table, every binding of  *)
(* tasks to states and any number of calls, and about ScenarioRestart:     *)
(* restarts leave the scenario's machines alone, so that the same holds of *)
(* them, and a completed execution stays as it is.                         *)
(***************************************************************************)
EXTENDS ScenarioRestart, TLAPS

USE StatesAssumption, InternalAssumption, TargetAssumption, FaultAssumption

\* A call that has read the scenario's state and may still act on it.
Aware(m) == pc[m] \in {"bootstrap", "loaded", "posted", "create", "executing"}

StateKnown == \A m \in Machines : /\ Aware(m) => state[m] \in States
                                  /\ pc[m] = "create" => from[m] \in HasTasks

\* Without overlap one call at a time is under way, ...
OneAtATime == ~overlap => \A m, n \in Machines : ~Over(m) /\ ~Over(n) => m = n

\* ... and what it knows of the scenario is not out of date.
UpToDate ==
  ~overlap => \A m \in Machines :
    /\ pc[m] = "bootstrap" => persisted = NoState
    /\ pc[m] \in {"loaded", "posted"} /\ persisted # NoState => persisted = state[m]
    /\ pc[m] \in {"create", "executing"} => persisted = state[m]

\* Once a call has an execution it only waits for it and reports its outcome.
OnlyReports ==
  \A x \in executions : \/ pc[x.by] \in {"executing", "quiet", "dead"}
                        \/ pc[x.by] = "posted" /\ event[x.by] \in InternalSet

IInv == StateKnown /\ OneAtATime /\ UpToDate /\ OnlyReports /\ OneExecutionPerCommand
-----------------------------------------------------------------------------
\* What the machine reports is an internal event, and is a known one.
LEMMA OutcomeInternal ==
  ASSUME NEW success \in BOOLEAN
  PROVE  Outcome(success) \in InternalSet /\ Outcome(success) \in Events
<1>1. 1 \in DOMAIN Internal /\ 2 \in DOMAIN Internal
  OBVIOUS
<1> QED
  BY <1>1 DEF Outcome, InternalSet, Events

LEMMA TargetIsState ==
  ASSUME NEW m \in Machines, ~Ignored(m), state[m] \in States
  PROVE  event[m] \in Events /\ Target[event[m]][state[m]] \in States
BY DEF Ignored

\* pc, state, from and event are functions on Machines, executions are records.
THEOREM TypeCorrect == Spec => [](TypeOK /\ StateKnown)
<1>1. Init => TypeOK /\ StateKnown
  BY DEF Init, TypeOK, Places, StateKnown, Aware
<1>2. TypeOK /\ StateKnown /\ [Next]_vars => TypeOK' /\ StateKnown'
  <2> SUFFICES ASSUME TypeOK, StateKnown, [Next]_vars
               PROVE  TypeOK' /\ StateKnown'
    OBVIOUS
  <2> USE DEF TypeOK, Places, StateKnown, Aware, Moves
  <2>1. CASE Crash
    BY <2>1 DEF Crash
  <2>2. ASSUME NEW m \in Machines, Call(m) PROVE TypeOK' /\ StateKnown'
    BY <2>2 DEF Call
  <2>3. ASSUME NEW m \in Machines, ConfigFails(m) PROVE TypeOK' /\ StateKnown'
    BY <2>3 DEF ConfigFails
  <2>4. ASSUME NEW m \in Machines, Load(m) PROVE TypeOK' /\ StateKnown'
    BY <2>4 DEF Load
  <2>5. ASSUME NEW m \in Machines, Bootstrap(m) PROVE TypeOK' /\ StateKnown'
    BY <2>5 DEF Bootstrap
  <2>6. ASSUME NEW m \in Machines, Post(m) PROVE TypeOK' /\ StateKnown'
    BY <2>6 DEF Post
  <2>7. ASSUME NEW m \in Machines, Ignore(m) PROVE TypeOK' /\ StateKnown'
    BY <2>7 DEF Ignore
  <2>8. ASSUME NEW m \in Machines, Transit(m) PROVE TypeOK' /\ StateKnown'
    <3>1. ~Ignored(m) /\ state[m] \in States
      BY <2>8 DEF Transit, Move
    <3>2. event[m] \in Events /\ Target[event[m]][state[m]] \in States
      BY <3>1, TargetIsState
    <3> QED
      BY <2>8, <3>1, <3>2 DEF Transit, Move, Persist, StartsTasks
  <2>9. ASSUME NEW m \in Machines, Create(m) PROVE TypeOK' /\ StateKnown'
    <3>1. NewExecution(m) \in Execution
      BY <2>9 DEF Create, NewExecution, Execution
    <3> QED
      BY <2>9, <3>1 DEF Create
  <2>10. ASSUME NEW m \in Machines, NEW success \in BOOLEAN, Execute(m, success)
         PROVE  TypeOK' /\ StateKnown'
    BY <2>10, OutcomeInternal DEF Execute
  <2>11. CASE UNCHANGED vars
    BY <2>11 DEF vars
  <2> QED
    BY <2>1, <2>2, <2>3, <2>4, <2>5, <2>6, <2>7, <2>8, <2>9, <2>10, <2>11
    DEF Next, Step
<1> QED
  BY <1>1, <1>2, PTL DEF Spec
\* While machines run alone, one of them moves at most, and on what it has read.
LEMMA AloneStep ==
  ASSUME TypeOK, StateKnown, OneAtATime, UpToDate, [Next]_vars
  PROVE  OneAtATime' /\ UpToDate'
<1> USE DEF TypeOK, Places, OneAtATime, Moves, Over
<1> DEFINE Goal == OneAtATime' /\ UpToDate'
<1>1. CASE Crash
  BY <1>1 DEF Crash, UpToDate
<1>2. ASSUME NEW m \in Machines, Call(m) PROVE Goal
  BY <1>2 DEF Call, UpToDate
<1>3. ASSUME NEW m \in Machines, ConfigFails(m) PROVE Goal
  BY <1>3 DEF ConfigFails, UpToDate
<1>4. ASSUME NEW m \in Machines, Load(m) PROVE Goal
  BY <1>4 DEF Load, UpToDate
<1>5. ASSUME NEW m \in Machines, Bootstrap(m) PROVE Goal
  BY <1>5 DEF Bootstrap, UpToDate
<1>6. ASSUME NEW m \in Machines, Post(m) PROVE Goal
  BY <1>6 DEF Post, UpToDate
<1>7. ASSUME NEW m \in Machines, Ignore(m) PROVE Goal
  BY <1>7 DEF Ignore, UpToDate
<1>8. ASSUME NEW m \in Machines, Transit(m) PROVE Goal
  BY <1>8 DEF Transit, Move, Persist, UpToDate
<1>9. ASSUME NEW m \in Machines, Create(m) PROVE Goal
  BY <1>9 DEF Create, UpToDate
<1>10. ASSUME NEW m \in Machines, NEW success \in BOOLEAN, Execute(m, success)
       PROVE  Goal
  BY <1>10 DEF Execute, UpToDate
<1>11. CASE UNCHANGED vars
  BY <1>11 DEF vars, UpToDate
<1> QED
  BY <1>1, <1>2, <1>3, <1>4, <1>5, <1>6, <1>7, <1>8, <1>9, <1>10, <1>11
  DEF Next, Step

\* Only an event of the user leads to an execution, and it is handled once.
LEMMA ReportStep ==
  ASSUME TypeOK, OnlyReports, OneExecutionPerCommand, [Next]_vars
  PROVE  OnlyReports' /\ OneExecutionPerCommand'
<1> USE DEF TypeOK, Places, OnlyReports, OneExecutionPerCommand, Moves, Execution
<1> DEFINE Goal == OnlyReports' /\ OneExecutionPerCommand'
<1>1. CASE Crash
  BY <1>1 DEF Crash
<1>2. ASSUME NEW m \in Machines, Call(m) PROVE Goal
  BY <1>2 DEF Call
<1>3. ASSUME NEW m \in Machines, ConfigFails(m) PROVE Goal
  BY <1>3 DEF ConfigFails
<1>4. ASSUME NEW m \in Machines, Load(m) PROVE Goal
  BY <1>4 DEF Load
<1>5. ASSUME NEW m \in Machines, Bootstrap(m) PROVE Goal
  BY <1>5 DEF Bootstrap
<1>6. ASSUME NEW m \in Machines, Post(m) PROVE Goal
  BY <1>6 DEF Post
<1>7. ASSUME NEW m \in Machines, Ignore(m) PROVE Goal
  BY <1>7 DEF Ignore
<1>8. ASSUME NEW m \in Machines, Transit(m) PROVE Goal
  BY <1>8 DEF Transit, Move, StartsTasks
<1>9. ASSUME NEW m \in Machines, Create(m) PROVE Goal
  <2>1. \A x \in executions : pc[m] = "create" => x.by # m
    OBVIOUS
  <2>2. NewExecution(m).by = m
    BY DEF NewExecution
  <2>3. CASE executions' = executions
    BY <1>9, <2>3 DEF Create
  <2>4. CASE /\ Moves(m, "create", "executing")
             /\ executions' = executions \cup {NewExecution(m)}
    <3>1. OnlyReports'
      BY <1>9, <2>2, <2>4 DEF Create
    <3>2. OneExecutionPerCommand'
      BY <2>1, <2>2, <2>4
    <3> QED
      BY <3>1, <3>2
  <2> QED
    BY <1>9, <2>3, <2>4 DEF Create
<1>10. ASSUME NEW m \in Machines, NEW success \in BOOLEAN, Execute(m, success)
       PROVE  Goal
  BY <1>10, OutcomeInternal DEF Execute
<1>11. CASE UNCHANGED vars
  BY <1>11 DEF vars
<1> QED
  BY <1>1, <1>2, <1>3, <1>4, <1>5, <1>6, <1>7, <1>8, <1>9, <1>10, <1>11
  DEF Next, Step

\* The inductive invariant.
THEOREM Invariance == Spec => [](TypeOK /\ IInv)
<1>1. Init => OneAtATime /\ UpToDate /\ OnlyReports /\ OneExecutionPerCommand
  BY DEF Init, OneAtATime, Over, UpToDate, OnlyReports, OneExecutionPerCommand
<1>2. TypeOK /\ StateKnown /\ OneAtATime /\ UpToDate /\ [Next]_vars
        => OneAtATime' /\ UpToDate'
  BY AloneStep
<1>3. TypeOK /\ OnlyReports /\ OneExecutionPerCommand /\ [Next]_vars
        => OnlyReports' /\ OneExecutionPerCommand'
  BY ReportStep
<1> QED
  BY <1>1, <1>2, <1>3, TypeCorrect, PTL DEF Spec, IInv

\* The tasks of a command run only after the transition it causes is durable.
THEOREM PersistedBeforeTasks == Spec => []TasksAfterPersist
<1>1. IInv => TasksAfterPersist
  BY DEF IInv, UpToDate, TasksAfterPersist
<1> QED
  BY <1>1, Invariance, PTL

\* No command runs two task lists, whatever the table and the bindings are.
THEOREM OneExecution == Spec => []OneExecutionPerCommand
BY Invariance, PTL DEF IInv

\* Machines that run alone move the scenario along the table only.
THEOREM TableFollowed == Spec => FollowsTable
<1>1. TypeOK /\ IInv /\ [Next]_vars
        => [~overlap /\ persisted # NoState =>
              \E e \in Events : persisted' = Target[e][persisted]]_persisted
  <2> SUFFICES ASSUME TypeOK, IInv, [Next]_vars, ~overlap, persisted # NoState,
                      persisted' # persisted
               PROVE  \E e \in Events : persisted' = Target[e][persisted]
    OBVIOUS
  <2>1. UpToDate
    BY DEF IInv
  <2>2. ASSUME NEW m \in Machines, Bootstrap(m) PROVE FALSE
    BY <2>1, <2>2 DEF Bootstrap, Moves, UpToDate
  <2>3. PICK m \in Machines : Transit(m)
    BY <2>2 DEF Next, Step, Crash, Call, ConfigFails, Load, Post, Ignore, Create,
                Execute, vars
  <2>4. pc[m] = "posted" /\ ~Ignored(m) /\ persisted' = Target[event[m]][state[m]]
    BY <2>3 DEF Transit, Move, Moves, Persist
  <2>5. event[m] \in Events /\ persisted = state[m]
    BY <2>1, <2>4 DEF UpToDate, Ignored
  <2> QED
    BY <2>4, <2>5
<1> QED
  BY <1>1, Invariance, PTL DEF Spec, FollowsTable
-----------------------------------------------------------------------------
\* How many steps a call has left: an external event may still make an execution, whose
\* outcome is one more event.
StepsLeft(m) ==
  CASE pc[m] = "absent"    -> 8
    [] pc[m] = "called"    -> 7
    [] pc[m] = "bootstrap" -> 6
    [] pc[m] = "loaded"    -> 5
    [] pc[m] = "posted"    -> IF event[m] \in InternalSet THEN 1 ELSE 4
    [] pc[m] = "create"    -> 3
    [] pc[m] = "executing" -> 2
    [] pc[m] = "quiet"     -> 0
    [] pc[m] = "dead"      -> 0

\* Where a step of a call takes it; no other call moves with it.
LEMMA CallMoves ==
  ASSUME TypeOK, NEW m \in Machines, Call(m) \/ Step(m)
  PROVE  /\ \A n \in Machines \ {m} : pc'[n] = pc[n] /\ event'[n] = event[n]
         /\ \/ <<pc[m], pc'[m]>> \in
                 {<<"absent", "called">>, <<"called", "bootstrap">>, <<"called", "loaded">>,
                  <<"called", "quiet">>, <<"bootstrap", "loaded">>, <<"loaded", "posted">>,
                  <<"posted", "quiet">>, <<"create", "executing">>, <<"create", "quiet">>}
            \/ pc[m] = "posted" /\ pc'[m] = "create" /\ event[m] \notin InternalSet
            \/ pc[m] = "executing" /\ pc'[m] = "posted" /\ event'[m] \in InternalSet
<1>0. pc \in [Machines -> Places] /\ event \in [Machines -> Commands \cup Events \cup {NoEvent}]
  BY DEF TypeOK
<1>1. ASSUME NEW source, NEW target, Moves(m, source, target)
      PROVE  /\ pc[m] = source /\ pc'[m] = target
             /\ \A n \in Machines \ {m} : pc'[n] = pc[n]
  BY <1>0, <1>1 DEF Moves
<1>2. CASE Transit(m)
  <2>1. \/ Moves(m, "posted", "quiet")
        \/ Moves(m, "posted", "create") /\ event[m] \notin InternalSet
    BY <1>2 DEF Transit, StartsTasks
  <2>2. event' = event
    BY <1>2 DEF Transit, Move
  <2> QED
    BY <1>1, <2>1, <2>2
<1>3. ASSUME NEW success \in BOOLEAN, Execute(m, success)
      PROVE  /\ \A n \in Machines \ {m} : pc'[n] = pc[n] /\ event'[n] = event[n]
             /\ pc[m] = "executing" /\ pc'[m] = "posted" /\ event'[m] \in InternalSet
  <2>1. event' = [event EXCEPT ![m] = Outcome(success)] /\ Outcome(success) \in InternalSet
    BY <1>3, OutcomeInternal DEF Execute
  <2>2. Moves(m, "executing", "posted")
    BY <1>3 DEF Execute
  <2> QED
    BY <1>0, <1>1, <2>1, <2>2
<1>4. CASE Post(m)
  <2>1. event' = [event EXCEPT ![m] = command] /\ Moves(m, "loaded", "posted")
    BY <1>4 DEF Post
  <2> QED
    BY <1>0, <1>1, <2>1
<1>5. CASE Call(m) \/ ConfigFails(m)
  BY <1>1, <1>5 DEF Call, ConfigFails
<1>6. CASE Load(m)
  BY <1>1, <1>6 DEF Load
<1>7. CASE Bootstrap(m) \/ Ignore(m)
  BY <1>1, <1>7 DEF Bootstrap, Ignore
<1>8. CASE Create(m)
  BY <1>1, <1>8 DEF Create
<1> QED
  BY <1>2, <1>3, <1>4, <1>5, <1>6, <1>7, <1>8 DEF Step

LEMMA LeftIsNat == TypeOK => \A m \in Machines : StepsLeft(m) \in 0..8
BY DEF TypeOK, Places, StepsLeft

\* A machine handles two events at most, the command and the outcome of its tasks, whatever
\* the transition table says of internal events: each step of a call leaves it fewer of
\* eight steps, and neither other calls, which share its command, nor a crash give it more.
THEOREM MachinesAreBounded ==
  Spec => [][\A m \in Machines : /\ StepsLeft(m)' <= StepsLeft(m)
                                 /\ Call(m) \/ Step(m) => StepsLeft(m)' < StepsLeft(m)]_vars
<1> DEFINE Less(m) == /\ StepsLeft(m)' <= StepsLeft(m)
                      /\ Call(m) \/ Step(m) => StepsLeft(m)' < StepsLeft(m)
<1>1. ASSUME TypeOK, [Next]_vars, NEW m \in Machines PROVE Less(m)
  <2>0. StepsLeft(m) \in 0..8
    BY <1>1, LeftIsNat
  <2>1. Call(m) \/ Step(m) => StepsLeft(m)' < StepsLeft(m)
    <3> SUFFICES ASSUME Call(m) \/ Step(m) PROVE StepsLeft(m)' < StepsLeft(m)
      OBVIOUS
    <3>1. CASE <<pc[m], pc'[m]>> \in
                 {<<"absent", "called">>, <<"called", "bootstrap">>, <<"called", "loaded">>,
                  <<"called", "quiet">>, <<"bootstrap", "loaded">>, <<"loaded", "posted">>,
                  <<"posted", "quiet">>, <<"create", "executing">>, <<"create", "quiet">>}
      BY <3>1 DEF StepsLeft
    <3>2. CASE pc[m] = "posted" /\ pc'[m] = "create" /\ event[m] \notin InternalSet
      BY <3>2 DEF StepsLeft
    <3>3. CASE pc[m] = "executing" /\ pc'[m] = "posted" /\ event'[m] \in InternalSet
      BY <3>3 DEF StepsLeft
    <3> QED
      BY <1>1, <3>1, <3>2, <3>3, CallMoves
  <2>2. ASSUME NEW n \in Machines, Call(n) \/ Step(n) PROVE StepsLeft(m)' <= StepsLeft(m)
    <3>1. CASE n = m
      <4>1. StepsLeft(m)' < StepsLeft(m)
        BY <2>1, <2>2, <3>1
      <4>2. pc'[m] \in Places
        BY <1>1, <2>2, <3>1, CallMoves DEF Places
      <4>3. StepsLeft(m)' \in 0..8
        BY <4>2 DEF StepsLeft, Places
      <4> QED
        BY <2>0, <4>1, <4>3
    <3>2. CASE n # m
      <4>1. pc'[m] = pc[m] /\ event'[m] = event[m]
        BY <1>1, <2>2, <3>2, CallMoves
      <4>2. StepsLeft(m)' = StepsLeft(m)
        BY <4>1 DEF StepsLeft
      <4> QED
        BY <2>0, <4>2
    <3> QED
      BY <3>1, <3>2
  <2>3. CASE Crash
    <3>1. pc[m] \in Places /\ pc'[m] = IF pc[m] = "absent" THEN "absent" ELSE "dead"
      BY <1>1, <2>3 DEF Crash, TypeOK
    <3>2. StepsLeft(m)' = IF pc[m] = "absent" THEN 8 ELSE 0
      BY <3>1 DEF StepsLeft
    <3>3. pc[m] = "absent" => StepsLeft(m) = 8
      BY DEF StepsLeft
    <3>4. StepsLeft(m)' <= StepsLeft(m)
      BY <2>0, <3>2, <3>3
    <3> QED
      BY <2>1, <3>4
  <2>4. CASE UNCHANGED vars
    <3>1. StepsLeft(m)' = StepsLeft(m)
      BY <2>4 DEF vars, StepsLeft
    <3> QED
      BY <2>0, <2>1, <3>1
  <2> QED
    BY <1>1, <2>1, <2>2, <2>3, <2>4 DEF Next
<1>2. TypeOK /\ [Next]_vars => \A m \in Machines : Less(m)
  BY <1>1
<1> HIDE DEF Less
<1>3. (\A m \in Machines : Less(m)) =>
        \A m \in Machines : /\ StepsLeft(m)' <= StepsLeft(m)
                            /\ Call(m) \/ Step(m) => StepsLeft(m)' < StepsLeft(m)
  BY DEF Less
<1> QED
  BY <1>2, <1>3, Invariance, PTL DEF Spec
-----------------------------------------------------------------------------
USE TaskCountAssumption

\* Every behaviour is one of ScenarioFSM.
THEOREM RestartsLeaveMachinesAlone == RestartSpec => Spec
<1>1. RestartInit => Init
  BY DEF RestartInit
<1>2. [RestartNext]_allVars => [Next]_vars
  <2> SUFFICES ASSUME [RestartNext]_allVars PROVE [Next]_vars
    OBVIOUS
  <2>1. ASSUME NEW m \in Machines, MachineStep(m) PROVE [Next]_vars
    BY <2>1 DEF MachineStep, Initialize, Progress, Perform, Next, Step
  <2>2. ASSUME NEW r \in Restarts, Ask(r) \/ RestartStep(r) PROVE UNCHANGED vars
    BY <2>2 DEF Ask, RestartStep, Read, Reset, Rerun, Goes, vars
  <2>3. CASE Stop
    BY <2>3 DEF Stop, Next
  <2>4. ASSUME NEW m \in Machines, Call(m) PROVE [Next]_vars
    BY <2>4 DEF Next
  <2>5. CASE UNCHANGED allVars
    BY <2>5 DEF allVars
  <2> QED
    BY <2>1, <2>2, <2>3, <2>4, <2>5 DEF RestartNext
<1> QED
  BY <1>1, <1>2, PTL DEF RestartSpec, Spec

\* A command still runs one task list at most, restarts or not.
COROLLARY OneExecutionDespiteRestarts == RestartSpec => []OneExecutionPerCommand
BY OneExecution, RestartsLeaveMachinesAlone, PTL
-----------------------------------------------------------------------------
\* A machine that has not created its execution yet has no records, ...
Fresh ==
  \A m \in Machines :
    \/ pc[m] \in {"absent", "called", "bootstrap", "loaded", "create"}
    \/ pc[m] = "posted" /\ event[m] \notin InternalSet
    => record[m] = NoRecord

\* ... one that runs its tasks has records of an execution under way, ...
Owned == \A m \in Machines : pc[m] = "executing" => record[m].status = "in-progress"

\* ... and records name the state whose tasks they are and the one it led to.
Named == \A m \in Machines : record[m].status # "none" =>
           record[m].initial \in HasTasks /\ record[m].target \in States

Active(r) == place[r] \in {"asked", "reset", "running", "hung"}

\* Nobody else runs the execution that a call restarts.
Exclusive ==
  \A r \in Restarts : Active(r) =>
    /\ pc[subject[r]] \in {"quiet", "dead"}
    /\ \A q \in Restarts : Active(q) /\ subject[q] = subject[r] => q = r

\* A call that writes has found an execution, and found it not completed; once
\* it runs the tasks it has opened the execution again.
Reopened ==
  \A r \in Restarts :
    /\ place[r] = "reset" => record[subject[r]].status \in {"in-progress", "failed"}
    /\ place[r] = "running" => record[subject[r]].status = "in-progress"

RInv == Fresh /\ Owned /\ Named /\ Exclusive /\ Reopened

\* What a write of one execution's records has to observe.
LEMMA WriteTyped ==
  ASSUME RecordsTypeOK, NEW m \in Machines, NEW rec \in Record,
         rec.status # "none" => rec.completed <= TaskCount[rec.initial],
         record' = [record EXCEPT ![m] = rec]
  PROVE  /\ record' \in [Machines -> Record]
         /\ \A n \in Machines : record'[n].status # "none" =>
                                  record'[n].completed <= TaskCount[record'[n].initial]
BY DEF RecordsTypeOK

\* The writes of a status and of a count are such writes.
LEMMA FieldWritten ==
  ASSUME NEW rec \in Record, NEW status \in Statuses, NEW n \in Nat
  PROVE  /\ [rec EXCEPT !.status = status] \in Record
         /\ [rec EXCEPT !.status = status].status = status
         /\ [rec EXCEPT !.status = status].initial = rec.initial
         /\ [rec EXCEPT !.status = status].target = rec.target
         /\ [rec EXCEPT !.status = status].completed = rec.completed
         /\ [rec EXCEPT !.completed = n] \in Record
         /\ [rec EXCEPT !.completed = n].status = rec.status
         /\ [rec EXCEPT !.completed = n].initial = rec.initial
         /\ [rec EXCEPT !.completed = n].target = rec.target
         /\ [rec EXCEPT !.completed = n].completed = n
BY DEF Record

\* In particular the write of another status of an execution that exists is one.
LEMMA StatusTyped ==
  ASSUME RecordsTypeOK, NEW m \in Machines, record[m].status # "none",
         NEW status \in Statuses, record' = [record EXCEPT ![m].status = status]
  PROVE  /\ record' \in [Machines -> Record]
         /\ \A n \in Machines : record'[n].status # "none" =>
                                  record'[n].completed <= TaskCount[record'[n].initial]
<1> DEFINE rec == [record[m] EXCEPT !.status = status]
<1>1. record[m] \in Record /\ record[m].completed <= TaskCount[record[m].initial]
  BY DEF RecordsTypeOK
<1>2. 0 \in Nat
  OBVIOUS
<1>3. /\ rec \in Record
      /\ rec.initial = record[m].initial
      /\ rec.completed = record[m].completed
  BY <1>1 DEF Record
<1>4. record' = [record EXCEPT ![m] = rec]
  OBVIOUS
<1> HIDE DEF rec
<1> QED
  BY <1>1, <1>3, <1>4, WriteTyped

\* It changes nothing else, so that the execution stays the one it is.
OnlyStatus(m, status) ==
  \A n \in Machines :
    /\ record'[n].status = IF n = m THEN status ELSE record[n].status
    /\ record'[n].completed = record[n].completed
    /\ record'[n].initial = record[n].initial
    /\ record'[n].target = record[n].target

LEMMA StatusWritten ==
  ASSUME RecordsTypeOK, NEW m \in Machines, NEW status \in Statuses,
         record' = [record EXCEPT ![m].status = status]
  PROVE  OnlyStatus(m, status)
<1> DEFINE rec == [record[m] EXCEPT !.status = status]
<1>1. record[m] \in Record /\ 0 \in Nat
  BY DEF RecordsTypeOK
<1>2. /\ rec.status = status
      /\ rec.initial = record[m].initial
      /\ rec.target = record[m].target
      /\ rec.completed = record[m].completed
  BY <1>1, FieldWritten DEF Record
<1>3. \A n \in Machines : record'[n] = IF n = m THEN rec ELSE record[n]
  BY DEF RecordsTypeOK
<1> HIDE DEF rec
<1> QED
  BY <1>2, <1>3 DEF OnlyStatus

LEMMA NamedStays ==
  ASSUME RecordsTypeOK, Named, NEW m \in Machines, record[m].status # "none",
         NEW status \in Statuses,
         record' = [record EXCEPT ![m].status = status] \/ record' = record
  PROVE  Named'
<1>1. CASE record' = record
  BY <1>1 DEF Named
<1>2. CASE record' = [record EXCEPT ![m].status = status]
  BY <1>2, StatusWritten DEF Named, OnlyStatus
<1> QED
  BY <1>1, <1>2

\* A machine that takes a step has an execution that nobody restarts.
LEMMA NotRestarted ==
  ASSUME RInv, NEW m \in Machines, pc[m] \notin {"quiet", "dead"},
         \A n \in Machines \ {m} : pc'[n] = pc[n] /\ record'[n] = record[n],
         subject \in [Restarts -> Machines], UNCHANGED <<place, subject>>
  PROVE  Exclusive' /\ Reopened'
<1>1. \A r \in Restarts : Active(r) => subject[r] \in Machines \ {m}
  BY DEF RInv, Exclusive
<1>2. \A r \in Restarts : Active(r)' <=> Active(r)
  BY DEF Active
<1>3. Exclusive'
  BY <1>1, <1>2 DEF RInv, Exclusive
<1>4. Reopened'
  BY <1>1 DEF RInv, Reopened, Active
<1> QED
  BY <1>3, <1>4

\* A machine's step: its own record changes at most, and no call's place does.
LEMMA MachineStepSafe ==
  ASSUME TypeOK, StateKnown, RecordsTypeOK, RInv,
         NEW m \in Machines, MachineStep(m)
  PROVE  RecordsTypeOK' /\ RInv'
<1> USE DEF TypeOK, Places, StateKnown, RecordsTypeOK, RInv, Record, Statuses, Moves
<1>1. CASE Initialize(m)
  <2>1. /\ from[m] \in States /\ from[m] \in HasTasks
        /\ state[m] \in States /\ record[m] = NoRecord
    BY <1>1 DEF Initialize, Create, Aware, Fresh
  <2>2. RecordsTypeOK'
    <3>1. [status |-> "in-progress", initial |-> from[m],
           target |-> state[m], completed |-> 0] \in Record
      BY <2>1
    <3>2. TaskCount[from[m]] >= 0
      BY <2>1
    <3> QED
      BY <1>1, <3>1, <3>2, WriteTyped DEF Initialize
  <2>3. Fresh' /\ Owned' /\ Named'
    <3>1. /\ \A n \in Machines \ {m} : pc'[n] = pc[n] /\ record'[n] = record[n]
          /\ pc'[m] \in {"executing", "quiet"} /\ event' = event
          /\ pc'[m] = "executing" => record'[m].status = "in-progress"
          /\ \/ record'[m] = record[m]
             \/ record'[m].initial = from[m] /\ record'[m].target = state[m]
      BY <1>1 DEF Initialize, Create
    <3>2. Fresh'
      BY <3>1 DEF Fresh
    <3>3. Owned'
      BY <2>1, <3>1 DEF Owned
    <3>4. Named'
      BY <2>1, <3>1 DEF Named
    <3> QED
      BY <3>2, <3>3, <3>4
  <2>4. /\ \A n \in Machines \ {m} : pc'[n] = pc[n] /\ record'[n] = record[n]
        /\ pc[m] = "create" /\ UNCHANGED <<place, subject>>
    BY <1>1 DEF Initialize, Create
  <2>5. Exclusive' /\ Reopened'
    BY <2>4, NotRestarted
  <2> QED
    BY <2>2, <2>3, <2>5
<1>2. CASE Progress(m)
  <2>1. RecordsTypeOK'
    <3> DEFINE rec == [record[m] EXCEPT !.completed = @ + 1]
    <3>1. record[m] \in Record /\ record[m].completed + 1 \in Nat
      OBVIOUS
    <3>2. rec \in Record /\ rec.initial = record[m].initial
          /\ rec.completed = record[m].completed + 1
      BY <3>1, FieldWritten
    <3>3. record[m].initial \in States /\ TaskCount[record[m].initial] \in Nat
      BY <1>2 DEF Progress, Owned, Named
    <3>4. rec.completed <= TaskCount[rec.initial]
      BY <1>2, <3>1, <3>2, <3>3 DEF Progress
    <3>5. record' = [record EXCEPT ![m] = rec]
      BY <1>2 DEF Progress
    <3> QED
      BY <1>2, <3>2, <3>4, <3>5, WriteTyped DEF Progress
  <2>2. Fresh' /\ Owned' /\ Named'
    <3> DEFINE rec == [record[m] EXCEPT !.completed = @ + 1]
    <3>1. record[m] \in Record /\ record[m].completed + 1 \in Nat
      OBVIOUS
    <3>2. /\ rec.initial = record[m].initial /\ rec.target = record[m].target
          /\ rec.status = record[m].status
      BY <3>1, FieldWritten
    <3>3. \A n \in Machines : record'[n] = IF n = m THEN rec ELSE record[n]
      BY <1>2 DEF Progress
    <3>4. pc[m] = "executing" /\ pc' = pc /\ event' = event
      BY <1>2 DEF Progress, vars
    <3> HIDE DEF rec
    <3> QED
      BY <3>2, <3>3, <3>4 DEF Fresh, Owned, Named
  <2>3. /\ \A n \in Machines \ {m} : pc'[n] = pc[n] /\ record'[n] = record[n]
        /\ pc[m] = "executing" /\ UNCHANGED <<place, subject>>
    BY <1>2 DEF Progress, vars
  <2>4. Exclusive' /\ Reopened'
    BY <2>3, NotRestarted
  <2> QED
    BY <2>1, <2>2, <2>4
<1>3. ASSUME NEW success \in BOOLEAN, Perform(m, success)
      PROVE  RecordsTypeOK' /\ RInv'
  <2>1. pc[m] = "executing" /\ pc'[m] = "posted" /\ event'[m] \in InternalSet
    BY <1>3, OutcomeInternal DEF Perform, Execute
  <2>2. RecordsTypeOK'
    BY <1>3, <2>1, StatusTyped DEF Perform, Execute, Owned
  <2>3. Fresh' /\ Owned' /\ Named'
    <3>1. Fresh' /\ Owned'
      BY <1>3, <2>1 DEF Perform, Execute, Fresh, Owned
    <3>2. Named'
      BY <1>3, <2>1, NamedStays DEF Perform, Owned
    <3> QED
      BY <3>1, <3>2
  <2>4. /\ \A n \in Machines \ {m} : pc'[n] = pc[n] /\ record'[n] = record[n]
        /\ UNCHANGED <<place, subject>>
    BY <1>3 DEF Perform, Execute
  <2>5. Exclusive' /\ Reopened'
    BY <2>1, <2>4, NotRestarted
  <2> QED
    BY <2>2, <2>3, <2>5
<1>4. ASSUME ConfigFails(m) \/ Load(m) \/ Bootstrap(m) \/ Post(m) \/ Ignore(m) \/ Transit(m),
             UNCHANGED restartVars
      PROVE  RecordsTypeOK' /\ RInv'
  <2>1. RecordsTypeOK'
    BY <1>4 DEF restartVars
  <2>2. Fresh' /\ Owned' /\ Named'
    BY <1>4 DEF restartVars, ConfigFails, Load, Bootstrap, Post, Ignore, Transit, Move,
                StartsTasks, Fresh, Owned, Named
  <2>3. /\ pc[m] \notin {"quiet", "dead"} /\ UNCHANGED <<place, subject>>
        /\ \A n \in Machines \ {m} : pc'[n] = pc[n] /\ record'[n] = record[n]
    BY <1>4 DEF restartVars, ConfigFails, Load, Bootstrap, Post, Ignore, Transit
  <2>4. Exclusive' /\ Reopened'
    BY <2>3, NotRestarted
  <2> QED
    BY <2>1, <2>2, <2>4
<1> QED
  BY <1>1, <1>2, <1>3, <1>4 DEF MachineStep

\* A restart's step: it writes the record of the execution it restarts at most.
LEMMA RestartStepSafe ==
  ASSUME RecordsTypeOK, RInv, NEW r \in Restarts, Ask(r) \/ RestartStep(r)
  PROVE  RecordsTypeOK' /\ RInv'
<1> USE DEF RecordsTypeOK, RInv, Record, Statuses, Goes, vars
<1>1. CASE Ask(r)
  BY <1>1 DEF Ask, Abandoned, Fresh, Owned, Named, Exclusive, Reopened, Active
<1>2. CASE Read(r)
  <2>1. /\ place' \in [Restarts -> {"absent", "asked", "reset", "running", "hung", "over"}]
        /\ \A q \in Restarts : q # r => place'[q] = place[q]
        /\ place[r] = "asked" /\ place'[r] \in {"reset", "over"}
        /\ place'[r] = "reset" => record[subject[r]].status \notin {"none", "completed"}
        /\ UNCHANGED <<vars, record, subject>>
    BY <1>2 DEF Read
  <2>2. RecordsTypeOK' /\ Fresh' /\ Owned' /\ Named'
    BY <2>1 DEF Fresh, Owned, Named
  <2>3. Exclusive'
    BY <2>1 DEF Exclusive, Active
  <2>4. Reopened'
    BY <2>1 DEF Reopened
  <2> QED
    BY <2>2, <2>3, <2>4
<1>3. CASE Reset(r)
  <2>1. RecordsTypeOK'
    BY <1>3, StatusTyped DEF Reset, Reopened
  <2>2. Fresh' /\ Owned'
    BY <1>3 DEF Reset, Fresh, Owned, Exclusive, Active
  <2>3. Named'
    BY <1>3, NamedStays DEF Reset, Reopened
  <2>4. Exclusive'
    BY <1>3 DEF Reset, Exclusive, Active
  <2>5. Reopened'
    <3> DEFINE m == subject[r]
    <3>1. /\ place[r] = "reset" /\ place'[r] \in {"running", "over"} /\ UNCHANGED subject
          /\ \A q \in Restarts \ {r} : place'[q] = place[q]
      BY <1>3 DEF Reset
    <3>2. CASE UNCHANGED record /\ place'[r] = "over"
      BY <3>1, <3>2 DEF Reopened
    <3>3. CASE record' = [record EXCEPT ![m].status = "in-progress"]
      <4>1. \A n \in Machines : record'[n].status = IF n = m THEN "in-progress" ELSE record[n].status
        BY <3>3, StatusWritten DEF OnlyStatus
      <4>2. \A q \in Restarts \ {r} : place[q] \in {"reset", "running"} => subject[q] # m
        BY <3>1 DEF Exclusive, Active
      <4> QED
        BY <3>1, <4>1, <4>2 DEF Reopened
    <3> QED
      BY <1>3, <3>2, <3>3 DEF Reset
  <2> QED
    BY <2>1, <2>2, <2>3, <2>4, <2>5
<1>4. CASE Rerun(r)
  <2>1. RecordsTypeOK'
    BY <1>4, StatusTyped DEF Rerun, Reopened
  <2>2. Fresh' /\ Owned'
    BY <1>4 DEF Rerun, Fresh, Owned, Exclusive, Active
  <2>3. Named'
    BY <1>4, NamedStays DEF Rerun, Reopened
  <2>4. Exclusive'
    BY <1>4 DEF Rerun, Exclusive, Active
  <2>5. Reopened'
    BY <1>4, StatusWritten DEF OnlyStatus, Rerun, Exclusive, Reopened, Active
  <2> QED
    BY <2>1, <2>2, <2>3, <2>4, <2>5
<1> QED
  BY <1>1, <1>2, <1>3, <1>4 DEF RestartStep

\* The records' type and the inductive invariant.
THEOREM RestartInvariance == RestartSpec => [](RecordsTypeOK /\ RInv)
<1>1. RestartInit => RecordsTypeOK /\ RInv
  BY DEF RestartInit, Init, RecordsTypeOK, Record, Statuses, NoRecord, RInv, Fresh,
         Owned, Named, Exclusive, Reopened, Active
<1>2. TypeOK /\ StateKnown /\ RecordsTypeOK /\ RInv /\ [RestartNext]_allVars
        => RecordsTypeOK' /\ RInv'
  <2> SUFFICES ASSUME TypeOK, StateKnown, RecordsTypeOK, RInv, [RestartNext]_allVars
               PROVE  RecordsTypeOK' /\ RInv'
    OBVIOUS
  <2>1. CASE Stop
    BY <2>1 DEF Stop, Crash, TypeOK, RecordsTypeOK, RInv, Fresh, Owned, Named, Exclusive,
                Reopened, Active
  <2>2. ASSUME NEW m \in Machines, Call(m), UNCHANGED restartVars
        PROVE  RecordsTypeOK' /\ RInv'
    BY <2>2 DEF restartVars, Call, Moves, TypeOK, RecordsTypeOK, RInv, Fresh, Owned, Named,
                Exclusive, Reopened, Active
  <2>3. CASE UNCHANGED allVars
    BY <2>3 DEF allVars, vars, restartVars, RecordsTypeOK, RInv, Fresh, Owned, Named,
                Exclusive, Reopened, Active
  <2> QED
    BY <2>1, <2>2, <2>3, MachineStepSafe, RestartStepSafe DEF RestartNext
<1> QED
  BY <1>1, <1>2, TypeCorrect, RestartsLeaveMachinesAlone, PTL DEF RestartSpec

\* Nothing changes the records of a completed execution, not even the states it
\* was created for.
CompletedIsFinal ==
  [][\A m \in Machines : record[m].status = "completed" => record'[m] = record[m]]_record

THEOREM CompletedStays == RestartSpec => CompletedIsFinal
<1>1. RecordsTypeOK /\ RInv /\ [RestartNext]_allVars
        => [\A m \in Machines : record[m].status = "completed"
                                => record'[m] = record[m]]_record
  <2> SUFFICES ASSUME RecordsTypeOK, RInv, [RestartNext]_allVars,
                      NEW n \in Machines, record[n].status = "completed"
               PROVE  record'[n] = record[n]
    OBVIOUS
  <2>1. ASSUME NEW m \in Machines, Initialize(m) PROVE record'[n] = record[n]
    <3>1. record[m].status = "none"
      BY <2>1 DEF Initialize, Create, Moves, RInv, Fresh, NoRecord
    <3> QED
      BY <2>1, <3>1 DEF Initialize, RecordsTypeOK
  <2>2. ASSUME NEW m \in Machines, NEW success \in BOOLEAN,
               Progress(m) \/ Perform(m, success)
        PROVE  record'[n] = record[n]
    <3>1. record[m].status = "in-progress"
      BY <2>2 DEF Progress, Perform, Execute, Moves, RInv, Owned
    <3> QED
      BY <2>2, <3>1 DEF Progress, Perform, RecordsTypeOK
  <2>3. ASSUME NEW r \in Restarts, Reset(r) \/ Rerun(r) PROVE record'[n] = record[n]
    <3>1. subject[r] # n
      BY <2>3 DEF Reset, Rerun, Goes, RInv, Reopened
    <3> QED
      BY <2>3, <3>1 DEF Reset, Rerun, RecordsTypeOK
  <2> QED
    BY <2>1, <2>2, <2>3 DEF RestartNext, MachineStep, RestartStep, Stop, Ask, Read,
                            restartVars, allVars
<1> QED
  BY <1>1, RestartInvariance, PTL DEF RestartSpec, CompletedIsFinal
-----------------------------------------------------------------------------
\* No call has been made to restart the execution of machine m.
Untouched(m) == \A r \in Restarts : subject[r] = m => place[r] = "absent"

Earned(m) == /\ record[m].status = "completed" => record[m].completed = TaskCount[record[m].initial]
             /\ record[m].status = "failed" => record[m].completed # TaskCount[record[m].initial]

EarnedByRun == \A m \in Machines : Untouched(m) => Earned(m)

LEMMA EarnedStep ==
  ASSUME RecordsTypeOK, RInv, EarnedByRun, [RestartNext]_allVars
  PROVE  EarnedByRun'
<1> SUFFICES ASSUME NEW n \in Machines, Untouched(n)' PROVE Earned(n)'
  BY DEF EarnedByRun
<1>1. ASSUME Untouched(n), record'[n] = record[n] PROVE Earned(n)'
  BY <1>1 DEF EarnedByRun, Earned
<1>2. ASSUME UNCHANGED <<place, subject>> PROVE Untouched(n)
  BY <1>2 DEF Untouched
<1>3. ASSUME NEW m \in Machines, Initialize(m) PROVE Earned(n)'
  <2>1. Untouched(n)
    BY <1>2, <1>3 DEF Initialize
  <2>2. CASE record'[n] = record[n]
    BY <1>1, <2>1, <2>2
  <2>3. CASE n = m /\ record' = [record EXCEPT ![m] = [status |-> "in-progress", initial |-> from[m],
                                                      target |-> state[m], completed |-> 0]]
    <3>1. record'[n].status = "in-progress"
      BY <2>3 DEF RecordsTypeOK
    <3> QED
      BY <3>1 DEF Earned
  <2> QED
    BY <1>3, <2>2, <2>3 DEF Initialize, RecordsTypeOK
<1>4. ASSUME NEW m \in Machines, Progress(m) PROVE Earned(n)'
  <2>1. Untouched(n)
    BY <1>2, <1>4 DEF Progress
  <2>2. record[m].status = "in-progress" /\ record[m] \in Record
    BY <1>4 DEF Progress, RInv, Owned, RecordsTypeOK
  <2>3. CASE n = m
    <3>1. record'[n] = [record[n] EXCEPT !.completed = @ + 1]
      BY <1>4, <2>3 DEF Progress, RecordsTypeOK
    <3>2. record'[n].status = "in-progress"
      BY <2>2, <2>3, <3>1 DEF Record
    <3> QED
      BY <3>2 DEF Earned
  <2>4. CASE n # m
    <3>1. record'[n] = record[n]
      BY <1>4, <2>4 DEF Progress, RecordsTypeOK
    <3> QED
      BY <1>1, <2>1, <3>1
  <2> QED
    BY <2>3, <2>4
<1>5. ASSUME NEW m \in Machines, NEW success \in BOOLEAN, Perform(m, success) PROVE Earned(n)'
  <2> DEFINE all == record[m].completed = TaskCount[record[m].initial]
             verdict == IF all THEN "completed" ELSE "failed"
  <2>1. Untouched(n)
    BY <1>2, <1>5 DEF Perform
  <2>2. CASE record' = record
    BY <1>1, <2>1, <2>2
  <2>3. CASE record' = [record EXCEPT ![m].status = verdict]
    <3>1. verdict \in Statuses
      BY DEF Statuses
    <3>2. OnlyStatus(m, verdict)
      BY <2>3, <3>1, StatusWritten
    <3> HIDE DEF verdict
    <3>3. /\ record'[n].status = IF n = m THEN verdict ELSE record[n].status
          /\ record'[n].completed = record[n].completed
          /\ record'[n].initial = record[n].initial
      BY <3>2 DEF OnlyStatus
    <3>4. CASE n = m
      BY <3>3, <3>4 DEF Earned, verdict
    <3>5. CASE n # m
      BY <2>1, <3>3, <3>5 DEF EarnedByRun, Earned
    <3> QED
      BY <3>4, <3>5
  <2> QED
    BY <1>5, <2>2, <2>3 DEF Perform
<1>6. ASSUME NEW r \in Restarts, Ask(r) \/ RestartStep(r) PROVE Earned(n)'
  <2>1. /\ place' \in [Restarts -> {"absent", "asked", "reset", "running", "hung", "over"}]
        /\ subject' = subject /\ place'[r] # "absent"
        /\ \A q \in Restarts \ {r} : place'[q] = place[q]
    BY <1>6 DEF Ask, RestartStep, Read, Reset, Rerun, Goes, RecordsTypeOK
  <2>2. subject[r] # n
    BY <2>1 DEF Untouched
  <2>3. Untouched(n)
    BY <2>1, <2>2 DEF Untouched
  <2>4. record'[n] = record[n]
    BY <1>6, <2>2 DEF Ask, RestartStep, Read, Reset, Rerun, RecordsTypeOK
  <2> QED
    BY <1>1, <2>3, <2>4
<1>7. CASE Stop
  <2>1. record' = record /\ subject' = subject
        /\ \A r \in Restarts : place'[r] = "absent" <=> place[r] = "absent"
    BY <1>7 DEF Stop, RecordsTypeOK
  <2>2. Untouched(n)
    BY <2>1 DEF Untouched
  <2> QED
    BY <1>1, <2>1, <2>2
<1>8. CASE UNCHANGED restartVars
  <2>1. record' = record /\ UNCHANGED <<place, subject>>
    BY <1>8 DEF restartVars
  <2> QED
    BY <1>1, <1>2, <2>1
<1> QED
  BY <1>3, <1>4, <1>5, <1>6, <1>7, <1>8 DEF RestartNext, MachineStep, allVars

\* What run Fsm_restart shows needs a restart of that very execution: as long as nobody has
\* asked for one, the verdict that its own runner has recorded (right, by this module's view
\* of the runner) agrees with its tasks, through lost writes, crashes of the process,
\* overlapping calls and the restarts of other executions.
THEOREM VerdictsBeforeRestart == RestartSpec => []EarnedByRun
<1>1. RestartInit => EarnedByRun
  BY DEF RestartInit, NoRecord, EarnedByRun, Earned
<1>2. RecordsTypeOK /\ RInv /\ EarnedByRun /\ [RestartNext]_allVars => EarnedByRun'
  BY EarnedStep
<1> QED
  BY <1>1, <1>2, RestartInvariance, PTL DEF RestartSpec
-----------------------------------------------------------------------------
(***************************************************************************)
(* The records of an execution go through its life cycle.                  *)
(***************************************************************************)
\* A change of nothing but one execution's status is a turn of its life, or none.
LEMMA TurnTaken ==
  ASSUME NEW m \in Machines, NEW status \in Statuses,
         record[m].status # "none", status # "none", OnlyStatus(m, status)
  PROVE  /\ Life!Turns(m, record[m].status, status)
         /\ UNCHANGED <<[n \in Machines |-> record[n].completed],
                        [n \in Machines |-> TotalOf(n)]>>
<1>1. \A n \in Machines :
        /\ record'[n].status = IF n = m THEN status ELSE record[n].status
        /\ record'[n].completed = record[n].completed
        /\ record'[n].initial = record[n].initial
        /\ record'[n].target = record[n].target
  BY Zenon DEF OnlyStatus
<1>2. ASSUME NEW n \in Machines PROVE TotalOf(n)' = TotalOf(n)
  <2>1. record'[n].status = "none" <=> record[n].status = "none"
    BY <1>1
  <2>2. record'[n].initial = record[n].initial
    BY <1>1
  <2> QED
    BY <2>1, <2>2, Zenon DEF TotalOf
<1>3. [n \in Machines |-> TotalOf(n)]' = [n \in Machines |-> TotalOf(n)]
  BY <1>2, Zenon
<1>4. [n \in Machines |-> record[n].completed]' = [n \in Machines |-> record[n].completed]
  BY <1>1
<1>5. Life!Turns(m, record[m].status, status)
  BY <1>1 DEF Life!Turns
<1> QED
  BY <1>3, <1>4, <1>5, Zenon

LEMMA Turn ==
  ASSUME RecordsTypeOK, NEW m \in Machines, NEW status \in Statuses,
         record[m].status # "none", status # "none",
         record' = [record EXCEPT ![m].status = status]
  PROVE  /\ Life!Turns(m, record[m].status, status)
         /\ UNCHANGED <<[n \in Machines |-> record[n].completed],
                        [n \in Machines |-> TotalOf(n)]>>
<1>1. OnlyStatus(m, status)
  BY StatusWritten
<1> QED
  BY <1>1, TurnTaken

LEMMA LifeStep ==
  ASSUME TypeOK, StateKnown, RecordsTypeOK, RInv, [RestartNext]_allVars
  PROVE  [Life!Next]_(Life!life)
<1> USE DEF Moves
<1>1. ASSUME record' = record PROVE UNCHANGED Life!life
  BY <1>1 DEF Life!life, TotalOf
<1>2. ASSUME NEW m \in Machines, Initialize(m), record' # record
      PROVE  Life!Create(m)
  <2> DEFINE rec == [status |-> "in-progress", initial |-> from[m],
                     target |-> state[m], completed |-> 0]
  <2>1. /\ from[m] \in HasTasks /\ record[m] = NoRecord
        /\ record' = [record EXCEPT ![m] = rec]
    BY <1>2 DEF Initialize, Create, StateKnown, RInv, Fresh
  <2>2. \A n \in Machines : record'[n] = IF n = m THEN rec ELSE record[n]
    BY <2>1 DEF RecordsTypeOK
  <2>3. /\ rec.status = "in-progress" /\ rec.completed = 0 /\ rec.initial = from[m]
        /\ record[m].status = "none" /\ record[m].completed = 0
    BY <2>1 DEF NoRecord
  <2> HIDE DEF rec
  <2>4. \A n \in Machines :
          /\ record'[n].status = IF n = m THEN "in-progress" ELSE record[n].status
          /\ record'[n].completed = record[n].completed
          /\ n # m => TotalOf(n)' = TotalOf(n)
    BY <2>2, <2>3 DEF TotalOf
  <2>5. TotalOf(m)' > 0
    BY <2>1, <2>2, <2>3 DEF TotalOf
  <2> QED
    BY <2>3, <2>4, <2>5 DEF Life!Create, Life!Turns
<1>3. ASSUME NEW m \in Machines, Progress(m) PROVE Life!Advance(m)
  <2> DEFINE rec == [record[m] EXCEPT !.completed = @ + 1]
  <2>1. record[m].status = "in-progress" /\ record[m].completed < TotalOf(m)
    BY <1>3 DEF Progress, RInv, Owned, Named, TotalOf
  <2>2. record[m] \in Record /\ record[m].completed + 1 \in Nat
    BY DEF RecordsTypeOK, Record
  <2>3. /\ rec.status = record[m].status /\ rec.initial = record[m].initial
        /\ rec.completed = record[m].completed + 1
    BY <2>2, FieldWritten
  <2>4. \A n \in Machines : record'[n] = IF n = m THEN rec ELSE record[n]
    BY <1>3 DEF Progress, RecordsTypeOK
  <2> HIDE DEF rec
  <2>5. \A n \in Machines :
          /\ record'[n].status = record[n].status
          /\ record'[n].completed = IF n = m THEN record[m].completed + 1
                                             ELSE record[n].completed
          /\ TotalOf(n)' = TotalOf(n)
    BY <2>3, <2>4 DEF TotalOf
  <2> QED
    BY <2>1, <2>5 DEF Life!Advance
<1>4. ASSUME NEW m \in Machines, NEW success \in BOOLEAN, Perform(m, success),
             record' # record
      PROVE  Life!Fail(m) \/ Life!Complete(m)
  <2> DEFINE all == record[m].completed = TaskCount[record[m].initial]
  <2>1. record[m].status = "in-progress" /\ record[m].initial \in HasTasks
    BY <1>4 DEF Perform, Execute, RInv, Owned, Named
  <2>2. /\ record[m].completed \in Nat
        /\ record[m].completed <= TaskCount[record[m].initial]
        /\ TaskCount[record[m].initial] \in Nat
        /\ TaskCount[record[m].initial] > 0
        /\ TotalOf(m) = TaskCount[record[m].initial]
    BY <2>1 DEF RecordsTypeOK, Record, TotalOf
  <2>3. CASE all
    <3>1. record' = [record EXCEPT ![m].status = "completed"]
      BY <1>4, <2>3 DEF Perform
    <3>2. /\ Life!Turns(m, "in-progress", "completed")
          /\ UNCHANGED <<[n \in Machines |-> record[n].completed],
                         [n \in Machines |-> TotalOf(n)]>>
      BY <2>1, <3>1, Turn DEF Statuses
    <3>3. record[m].completed > 0
      BY <2>2, <2>3
    <3> QED
      BY <3>2, <3>3 DEF Life!Complete
  <2>4. CASE ~all
    <3>1. record' = [record EXCEPT ![m].status = "failed"]
      BY <1>4, <2>4 DEF Perform
    <3>2. /\ Life!Turns(m, "in-progress", "failed")
          /\ UNCHANGED <<[n \in Machines |-> record[n].completed],
                         [n \in Machines |-> TotalOf(n)]>>
      BY <2>1, <3>1, Turn DEF Statuses
    <3>3. record[m].completed < TotalOf(m)
      BY <2>2, <2>4
    <3> QED
      BY <3>2, <3>3 DEF Life!Fail
  <2> QED
    BY <2>3, <2>4
<1>5. ASSUME NEW r \in Restarts, Reset(r), record' # record
      PROVE  [Life!Next]_(Life!life)
  <2>1. PICK m \in Machines : m = subject[r]
    BY DEF RecordsTypeOK
  <2>2. /\ record[m].status \in {"in-progress", "failed"}
        /\ record' = [record EXCEPT ![m].status = "in-progress"]
    BY <1>5, <2>1 DEF Reset, Goes, RInv, Reopened
  <2>3. /\ Life!Turns(m, record[m].status, "in-progress")
        /\ UNCHANGED <<[n \in Machines |-> record[n].completed],
                       [n \in Machines |-> TotalOf(n)]>>
    BY <2>2, Turn DEF Statuses
  <2> QED
    BY <2>2, <2>3 DEF Life!Reopen, Life!Turns, Life!life, Life!Next
<1>6. ASSUME NEW r \in Restarts, Rerun(r), record' # record
      PROVE  Life!Next
  <2>1. PICK m \in Machines : m = subject[r]
    BY DEF RecordsTypeOK
  <2>2. /\ record[m].status = "in-progress"
        /\ record' = [record EXCEPT ![m].status = "completed"]
        /\ TaskCount[record[m].target] > 0
        /\ record[m].completed >= TaskCount[record[m].target]
    BY <1>6, <2>1 DEF Rerun, Goes, RInv, Reopened
  <2>3. record[m].completed > 0
    <3>1. record[m].completed \in Nat
      BY DEF RecordsTypeOK, Record
    <3>2. TaskCount[record[m].target] \in Nat
      BY <2>2 DEF RInv, Named
    <3> QED
      BY <2>2, <3>1, <3>2
  <2>4. /\ Life!Turns(m, "in-progress", "completed")
        /\ UNCHANGED <<[n \in Machines |-> record[n].completed],
                       [n \in Machines |-> TotalOf(n)]>>
    BY <2>2, Turn DEF Statuses
  <2> QED
    BY <2>3, <2>4 DEF Life!Complete, Life!Next
<1>7. ASSUME NEW m \in Machines, MachineStep(m) PROVE [Life!Next]_(Life!life)
  <2>1. CASE record' = record
    BY <1>1, <2>1
  <2>2. CASE record' # record
    BY <1>2, <1>3, <1>4, <1>7, <2>2 DEF MachineStep, restartVars, Life!Next
  <2> QED
    BY <2>1, <2>2
<1>8. ASSUME NEW r \in Restarts, Ask(r) \/ RestartStep(r)
      PROVE  [Life!Next]_(Life!life)
  <2>1. CASE record' = record
    BY <1>1, <2>1
  <2>2. CASE record' # record
    <3>1. Reset(r) \/ Rerun(r)
      BY <1>8, <2>2 DEF RestartStep, Ask, Read
    <3> QED
      BY <1>5, <1>6, <2>2, <3>1
  <2> QED
    BY <2>1, <2>2
<1>9. ASSUME Stop \/ (\E m \in Machines : Call(m) /\ UNCHANGED restartVars) \/ UNCHANGED allVars
      PROVE  record' = record
  BY <1>9 DEF Stop, restartVars, allVars
<1> QED
  BY <1>1, <1>7, <1>8, <1>9 DEF RestartNext

\* The records of every execution go through what ExecutionLifecycle allows.
THEOREM LifecycleKept == RestartSpec => ImplementsLifecycle
<1>1. RestartInit => Life!Init
  BY DEF RestartInit, NoRecord, TotalOf, Life!Init
<1>2. TypeOK /\ StateKnown /\ RecordsTypeOK /\ RInv /\ [RestartNext]_allVars
        => [Life!Next]_(Life!life)
  BY LifeStep
<1> QED
  BY <1>1, <1>2, TypeCorrect, RestartInvariance, RestartsLeaveMachinesAlone, PTL
  DEF RestartSpec, ImplementsLifecycle, Life!Spec

\* Machines and records are well typed.
THEOREM RestartTypeCorrect == RestartSpec => []RestartTypeOK
<1>1. TypeOK /\ RecordsTypeOK => RestartTypeOK
  BY DEF RestartTypeOK
<1> QED
  BY <1>1, TypeCorrect, RestartInvariance, RestartsLeaveMachinesAlone, PTL
=============================================================================
