-------------------------- MODULE TaskRunnerProofs --------------------------
(***************************************************************************)
(* What TLC checks of TaskRunner on two tasks, proved for every finite     *)
(* list of tasks, every dependency relation among them, every set of       *)
(* workers, and every choice of faults and cancellation.                   *)
(***************************************************************************)
EXTENDS TaskRunner, FiniteSetTheorems, SequenceTheorems, TLAPS

\* The capacity of the channels is a positive number.
LEMMA CapacityType == Capacity \in Nat /\ Capacity > 0
BY TasksAssumption, FS_CardinalityType, FS_EmptySet DEF Capacity

\* Every task is finished when as many are as there are tasks.
LEMMA AllFinished ==
  ASSUME Cardinality(FinishedTasks(details)) >= Cardinality(Tasks)
  PROVE  FinishedTasks(details) = Tasks
<1>1. FinishedTasks(details) \in SUBSET Tasks
  BY DEF FinishedTasks
<1>2. /\ Cardinality(FinishedTasks(details)) <= Cardinality(Tasks)
      /\ Cardinality(Tasks) = Cardinality(FinishedTasks(details))
           => Tasks = FinishedTasks(details)
  BY <1>1, TasksAssumption, FS_Subset
<1>3. Cardinality(FinishedTasks(details)) \in Nat /\ Cardinality(Tasks) \in Nat
  BY <1>1, TasksAssumption, FS_Subset, FS_CardinalityType
<1> QED
  BY <1>2, <1>3

\* What the engine writes is a TaskDetail.
LEMMA DetailTypes ==
  /\ PendingDetail \in Detail
  /\ CompletedDetail \in Detail
  /\ BlockedDetail \in Detail
  /\ \A err \in BOOLEAN : StartedDetail(err) \in Detail
  /\ \A err, succeeded \in BOOLEAN : FinalDetail(err, succeeded) \in Detail
BY DEF PendingDetail, CompletedDetail, BlockedDetail, StartedDetail,
       FinalDetail, Detail, Statuses

\* Replacing one task's detail keeps the record well formed.
LEMMA WithDetailType ==
  ASSUME details \in [Tasks -> Detail], NEW t \in Tasks, NEW d \in Detail
  PROVE  WithDetail(details, t, d) \in [Tasks -> Detail]
BY DEF WithDetail

-----------------------------------------------------------------------------
(***************************************************************************)
(* Type correctness.                                                       *)
(***************************************************************************)

\* A call starts from the record, and the writes, of tasks that are done.
LEMMA InitStarted ==
  ASSUME Init
  PROVE  \E done \in SUBSET Tasks :
           /\ details = InitialDetails(done)
           /\ ranOk = done
           /\ goWrites \subseteq RestartWrites(done)
BY ChoicesAssumption DEF Init, Started

LEMMA InitType == Init => TypeOK
<1> SUFFICES ASSUME Init PROVE TypeOK
  OBVIOUS
<1>1. PICK done \in SUBSET Tasks : /\ details = InitialDetails(done)
                                   /\ ranOk = done
                                   /\ goWrites \subseteq RestartWrites(done)
  BY InitStarted
<1>2. done \subseteq Tasks
  OBVIOUS
<1>3. details \in [Tasks -> Detail]
  BY <1>1, DetailTypes DEF InitialDetails
<1>4. keyValid \in BOOLEAN
  BY ChoicesAssumption DEF Init
<1>5. queue \in Seq(Tasks) /\ Len(queue) = 0
  BY EmptySeq DEF Init
<1>6. Len(queue) <= Capacity /\ signals \in 0..Capacity
  BY <1>5, CapacityType DEF Init
<1>7. \A w \in Workers : worker[w] \notin Busy
  BY DEF Init, Busy
<1>8. ranOk \subseteq Tasks /\ ranBad \subseteq Tasks /\ blocked \subseteq Tasks
  BY <1>1, <1>2 DEF Init
<1>9. goWrites \subseteq GoWrites
  BY <1>1, <1>3 DEF RestartWrites, GoWrites, Calls
<1>10. toSend \subseteq Tasks /\ header \in HeaderStatuses
  BY DEF Init, HeaderStatuses
<1> QED
  BY <1>3, <1>4, <1>5, <1>6, <1>7, <1>8, <1>9, <1>10 DEF Init, TypeOK

LEMMA DispatchType == TypeOK /\ Dispatch => TypeOK'
<1> SUFFICES ASSUME TypeOK, Dispatch PROVE TypeOK'
  OBVIOUS
<1> USE DEF TypeOK, storeVars, channelVars, dispatcherVars, workerVars, hubVars,
            contextVars, historyVars
<1>1. CASE ScanFails
  BY <1>1 DEF ScanFails
<1>2. CASE ScanFindsAllFinished
  BY <1>2 DEF ScanFindsAllFinished
<1>3. CASE Scan
  <2>1. TasksToBlock(details) \subseteq Tasks /\ ReadyTasks(details) \subseteq Tasks
    BY DEF TasksToBlock, ReadyTasks, PendingTasks
  <2>2. goWrites' \subseteq GoWrites
    BY <1>3, <2>1, DetailTypes DEF Scan, Spawned, GoWrites, Calls
  <2>3. toSend' \subseteq Tasks /\ dispatcher' \in {"send", "wait"}
    BY <1>3, <2>1 DEF Scan
  <2>4. blocked' \subseteq Tasks
    BY <1>3, <2>1 DEF Scan
  <2> QED
    BY <1>3, <2>2, <2>3, <2>4 DEF Scan
<1>4. ASSUME NEW t \in Tasks, Send(t) PROVE TypeOK'
  <2>1. queue' \in Seq(Tasks) /\ Len(queue') <= Capacity
    <3>1. CASE closedBy = "none" /\ Len(queue) < Capacity
      <4>1. queue' = Append(queue, t)
        BY <1>4, <3>1 DEF Send
      <4>2. queue' \in Seq(Tasks) /\ Len(queue') = Len(queue) + 1
        BY <4>1
      <4> QED
        BY <4>2, <3>1, CapacityType, LenProperties
    <3>2. CASE ~(closedBy = "none" /\ Len(queue) < Capacity)
      BY <1>4, <3>2 DEF Send
    <3> QED
      BY <3>1, <3>2
  <2> QED
    BY <1>4, <2>1 DEF Send
<1>5. CASE TakeSignal
  <2>1. signals' \in 0..Capacity
    BY <1>5, CapacityType DEF TakeSignal
  <2> QED
    BY <1>5, <2>1 DEF TakeSignal
<1>6. CASE Tick
  BY <1>6 DEF Tick
<1>7. CASE DispatcherCancelled
  BY <1>7 DEF DispatcherCancelled
<1> QED
  BY <1>1, <1>2, <1>3, <1>4, <1>5, <1>6, <1>7 DEF Dispatch

LEMMA WorkType == ASSUME TypeOK, NEW w \in Workers, Work(w) PROVE TypeOK'
<1> USE DEF TypeOK, storeVars, channelVars, dispatcherVars, workerVars, hubVars,
            contextVars, historyVars, Moves, Busy
<1>1. CASE WorkerStart(w)
  BY <1>1 DEF WorkerStart
<1>2. CASE Receive(w)
  <2>1. /\ Head(queue) \in Tasks
        /\ Tail(queue) \in Seq(Tasks)
        /\ Len(Tail(queue)) = Len(queue) - 1
    BY <1>2, HeadTailProperties DEF Receive
  <2>2. Len(queue) \in Nat
    BY LenProperties
  <2>3. queue' \in Seq(Tasks) /\ Len(queue') <= Capacity
    BY <1>2, <2>1, <2>2, CapacityType DEF Receive
  <2> QED
    BY <1>2, <2>1, <2>3 DEF Receive
<1>3. CASE WorkerExit(w)
  BY <1>3 DEF WorkerExit
<1>4. CASE GetTask(w)
  <2>1. details[inHand[w]].err \in BOOLEAN
    BY <1>4 DEF GetTask, Detail
  <2> QED
    BY <1>4, <2>1 DEF GetTask
<1>5. CASE GetTaskFails(w)
  BY <1>5 DEF GetTaskFails
<1>6. CASE MarkInProgress(w)
  <2>1. inHand[w] \in Tasks /\ StartedDetail(inHandErr[w]) \in Detail
    BY <1>6, DetailTypes DEF MarkInProgress
  <2>2. details' \in [Tasks -> Detail]
    BY <1>6, <2>1, WithDetailType DEF MarkInProgress, Written
  <2>3. goWrites' \subseteq GoWrites
    BY <1>6, <2>1 DEF MarkInProgress, Spawned, GoWrites, Calls
  <2> QED
    BY <1>6, <2>2, <2>3 DEF MarkInProgress
<1>7. CASE MarkInProgressFails(w)
  <2>1. inHand[w] \in Tasks /\ StartedDetail(inHandErr[w]) \in Detail
    BY <1>7, DetailTypes DEF MarkInProgressFails
  <2>2. details' \in [Tasks -> Detail]
    BY <1>7, <2>1, WithDetailType DEF MarkInProgressFails, MaybeWritten, Written
  <2> QED
    BY <1>7, <2>2 DEF MarkInProgressFails
<1>8. CASE Finish(w)
  <2>1. PICK succeeded \in BOOLEAN :
          LET t == inHand[w]
              final == FinalDetail(inHandErr[w], succeeded)
          IN  /\ \/ Written(t, final)
                 \/ CallMayFail /\ UNCHANGED details
              /\ Spawned({[task |-> t, detail |-> final, by |-> "worker"]})
              /\ ranOk' = IF succeeded THEN ranOk \cup {t} ELSE ranOk
              /\ ranBad' = IF succeeded THEN ranBad ELSE ranBad \cup {t}
    BY <1>8 DEF Finish
  <2>2. inHand[w] \in Tasks /\ FinalDetail(inHandErr[w], succeeded) \in Detail
    BY <1>8, DetailTypes DEF Finish
  <2>3. details' \in [Tasks -> Detail]
    BY <2>1, <2>2, WithDetailType DEF Written
  <2>4. goWrites' \subseteq GoWrites
    BY <2>1, <2>2 DEF Spawned, GoWrites, Calls
  <2>5. ranOk' \subseteq Tasks /\ ranBad' \subseteq Tasks
    BY <2>1, <2>2
  <2> QED
    BY <1>8, <2>3, <2>4, <2>5 DEF Finish
<1>9. CASE Signal(w)
  <2>1. signals' \in 0..Capacity
    BY <1>9, CapacityType DEF Signal
  <2> QED
    BY <1>9, <2>1 DEF Signal
<1> QED
  BY <1>1, <1>2, <1>3, <1>4, <1>5, <1>6, <1>7, <1>8, <1>9 DEF Work

LEMMA OtherType ==
  /\ \A r \in goWrites : TypeOK /\ GoWrite(r) => TypeOK'
  /\ TypeOK /\ Hub => TypeOK'
  /\ TypeOK /\ Cancel => TypeOK'
<1> USE DEF TypeOK, storeVars, channelVars, dispatcherVars, workerVars, hubVars,
            contextVars, historyVars
<1>1. ASSUME NEW r \in goWrites, TypeOK, GoWrite(r) PROVE TypeOK'
  <2>1. r.task \in Tasks /\ r.detail \in Detail
    BY <1>1 DEF GoWrites
  <2>2. WithDetail(details, r.task, r.detail) \in [Tasks -> Detail]
    BY <1>1, <2>1, WithDetailType
  <2>3. \/ details' = WithDetail(details, r.task, r.detail)
        \/ details' = details
    BY <1>1 DEF GoWrite, Written
  <2>4. details' \in [Tasks -> Detail]
    BY <1>1, <2>2, <2>3
  <2>5. goWrites' \subseteq GoWrites
    BY <1>1 DEF GoWrite
  <2> QED
    BY <1>1, <2>4, <2>5 DEF GoWrite
<1>2. ASSUME TypeOK, Hub PROVE TypeOK'
  <2>1. CASE HubFinished
    BY <1>2, <2>1 DEF HubFinished
  <2>2. CASE HubCancelled
    BY <1>2, <2>2 DEF HubCancelled
  <2>3. CASE HubJoin
    BY <1>2, <2>3 DEF HubJoin
  <2>4. CASE HubFinal
    BY <1>2, <2>4 DEF HubFinal
  <2>5. CASE HubHeader
    <3>1. header' \in HeaderStatuses
      BY <1>2, <2>5 DEF HubHeader, HeaderOf, HeaderStatuses
    <3> QED
      BY <1>2, <2>5, <3>1 DEF HubHeader
  <2> QED
    BY <1>2, <2>1, <2>2, <2>3, <2>4, <2>5 DEF Hub
<1>3. ASSUME TypeOK, Cancel PROVE TypeOK'
  BY <1>3 DEF Cancel
<1> QED
  BY <1>1, <1>2, <1>3

\* Every action, and a stuttering step, keeps the variables in their types.
LEMMA NextType == TypeOK /\ [Next]_vars => TypeOK'
<1>1. ASSUME TypeOK, UNCHANGED vars PROVE TypeOK'
  BY <1>1 DEF TypeOK, vars, storeVars, channelVars, dispatcherVars, workerVars,
              hubVars, contextVars, historyVars, Busy
<1> QED
  BY <1>1, DispatchType, WorkType, OtherType DEF Next

\* Every reachable state is well typed; in particular neither channel ever
\* holds more values than it was made for.
THEOREM TypeCorrect == Spec => []TypeOK
BY InitType, NextType, PTL DEF Spec

-----------------------------------------------------------------------------
(***************************************************************************)
(* The inductive invariant, in three parts.                                *)
(***************************************************************************)

\* Whatever may still reach the record is as honest as the record itself: the
\* writes that wait for the store, and the Error a worker carries from its
\* read to its final write.
RecordInv ==
  /\ RecordsAreHonest
  /\ \A r \in goWrites : HonestDetail(r.task, r.detail)
  /\ \A w \in Workers : worker[w] \in {"have", "run"} /\ inHandErr[w]
                          => inHand[w] \in ranBad \cup blocked

\* Wherever a task is on its way to a worker, its dependencies have run; a task
\* is blocked for a cause, and only within reach of the runs that failed: a set
\* that has these and whatever waits for a task of it has every blocked task.
DepsRan(t) == Deps[t] \subseteq ranOk

Encloses(S) == ranBad \subseteq S /\ Downstream(Tasks, Deps, S)

BlastRadius == \A S \in SUBSET Tasks : Encloses(S) => blocked \subseteq S

DispatchInv ==
  /\ \A i \in 1..Len(queue) : DepsRan(queue[i])
  /\ \A t \in toSend : DepsRan(t)
  /\ \A w \in Workers : worker[w] \in Busy => DepsRan(inHand[w])
  /\ \A t \in blocked : Deps[t] \cap (ranBad \cup blocked) # {}
  /\ BlastRadius

\* Where the hub is, what it has seen, and what that says of the others.
AllAccounted == Tasks \subseteq ranOk \cup ranBad \cup blocked

ControlInv ==
  /\ hub = "wait" <=> closedBy = "none"
  /\ closedBy = "cancel" => cancelled
  /\ allFinished \/ closedBy = "finished" => dispatcher = "done" /\ AllAccounted
  /\ dispatcher = "panic" => closedBy = "cancel"
  /\ hub \in {"final", "header", "returned"} =>
       \A w \in Workers : worker[w] = "exited"
  /\ verdict = "failure" => ranBad # {}
  /\ hub = "header" => verdict \in {"success", "failure"}
  /\ header = "failed" => ranBad # {}
  /\ hub = "header" \/ header # "in-progress" => closedBy = "finished"

IInv == RecordInv /\ DispatchInv /\ ControlInv

LEMMA InitIInv == Init => IInv
<1> SUFFICES ASSUME Init PROVE IInv
  OBVIOUS
<1>1. PICK done \in SUBSET Tasks : /\ details = InitialDetails(done)
                                   /\ ranOk = done
                                   /\ goWrites \subseteq RestartWrites(done)
  BY InitStarted
<1>2. RecordInv
  <2>1. \A t \in Tasks : HonestDetail(t, InitialDetails(done)[t])
    BY <1>1 DEF InitialDetails, HonestDetail, CompletedDetail, PendingDetail
  <2>2. \A r \in goWrites : HonestDetail(r.task, r.detail)
    BY <1>1, <2>1 DEF RestartWrites
  <2> QED
    BY <1>1, <2>1, <2>2 DEF Init, RecordInv, RecordsAreHonest
<1>3. DispatchInv
  <2>1. \A w \in Workers : worker[w] \notin Busy
    BY DEF Init, Busy
  <2>2. Len(queue) = 0
    BY EmptySeq DEF Init
  <2> QED
    BY <2>1, <2>2 DEF Init, DispatchInv, BlastRadius
<1>4. ControlInv
  BY DEF Init, ControlInv
<1> QED
  BY <1>2, <1>3, <1>4 DEF IInv

-----------------------------------------------------------------------------
(***************************************************************************)
(* The history only grows, so what was honest stays so.                    *)
(***************************************************************************)
HistoryGrows == /\ ranOk \subseteq ranOk'
                /\ ranBad \subseteq ranBad'
                /\ blocked \subseteq blocked'

\* No step takes a task out of the history.
LEMMA HistoryStep == [Next]_vars => HistoryGrows
<1> SUFFICES ASSUME [Next]_vars PROVE HistoryGrows
  OBVIOUS
<1> USE DEF HistoryGrows, historyVars
<1>1. CASE UNCHANGED vars
  BY <1>1 DEF vars
<1>2. CASE Dispatch
  BY <1>2 DEF Dispatch, ScanFails, ScanFindsAllFinished, Scan, Send, TakeSignal,
              Tick, DispatcherCancelled
<1>3. ASSUME NEW w \in Workers, Work(w) PROVE HistoryGrows
  <2>1. CASE Finish(w)
    BY <2>1 DEF Finish
  <2>2. CASE ~Finish(w)
    BY <1>3, <2>2 DEF Work, WorkerStart, Receive, WorkerExit, GetTask,
                      GetTaskFails, MarkInProgress, MarkInProgressFails, Signal
  <2> QED
    BY <2>1, <2>2
<1>4. ASSUME NEW r \in goWrites, GoWrite(r) PROVE HistoryGrows
  BY <1>4 DEF GoWrite
<1>5. CASE Hub
  BY <1>5 DEF Hub, HubFinished, HubCancelled, HubJoin, HubFinal, HubHeader
<1>6. CASE Cancel
  BY <1>6 DEF Cancel
<1> QED
  BY <1>1, <1>2, <1>3, <1>4, <1>5, <1>6 DEF Next

\* A detail that is honest about a task stays honest about it.
LEMMA HonestStays ==
  ASSUME HistoryGrows, NEW t, NEW d, HonestDetail(t, d)
  PROVE  HonestDetail(t, d)'
BY DEF HistoryGrows, HonestDetail

\* Writing an honest detail, or nothing, keeps the record honest.
LEMMA HonestWrite ==
  ASSUME TypeOK, RecordsAreHonest, HistoryGrows,
         NEW t \in Tasks, NEW d \in Detail, HonestDetail(t, d)',
         details' = WithDetail(details, t, d) \/ details' = details
  PROVE  RecordsAreHonest'
<1> SUFFICES ASSUME NEW u \in Tasks PROVE HonestDetail(u, details[u])'
  BY DEF RecordsAreHonest
<1>1. HonestDetail(u, details[u])
  BY DEF RecordsAreHonest
<1>2. details'[u] = details[u] \/ (u = t /\ details'[u] = d)
  BY DEF WithDetail, TypeOK
<1>3. CASE details'[u] = details[u]
  BY <1>1, <1>3, HonestStays DEF HistoryGrows, HonestDetail
<1>4. CASE u = t /\ details'[u] = d
  BY <1>4 DEF HonestDetail
<1> QED
  BY <1>2, <1>3, <1>4

\* The goroutines that wait stay honest when the ones that join them are.
LEMMA HonestSpawn ==
  ASSUME RecordInv, HistoryGrows, NEW S, goWrites' \subseteq goWrites \cup S,
         \A r \in S : HonestDetail(r.task, r.detail)'
  PROVE  (\A r \in goWrites : HonestDetail(r.task, r.detail))'
<1> SUFFICES ASSUME NEW r \in goWrites' PROVE HonestDetail(r.task, r.detail)'
  OBVIOUS
<1>1. CASE r \in goWrites
  BY <1>1, HonestStays DEF RecordInv
<1>2. CASE r \in S
  BY <1>2
<1> QED
  BY <1>1, <1>2

\* Both at once, for a step that writes one detail and sends it once more.
LEMMA RecordWrite ==
  ASSUME TypeOK, RecordInv, HistoryGrows,
         NEW t \in Tasks, NEW d \in Detail, HonestDetail(t, d)',
         details' = WithDetail(details, t, d) \/ details' = details,
         goWrites' \subseteq
           goWrites \cup {[task |-> t, detail |-> d, by |-> "worker"]}
  PROVE  /\ RecordsAreHonest'
         /\ (\A r \in goWrites : HonestDetail(r.task, r.detail))'
<1> DEFINE S == {[task |-> t, detail |-> d, by |-> "worker"]}
<1>1. RecordsAreHonest'
  BY HonestWrite DEF RecordInv
<1>2. \A r \in S : HonestDetail(r.task, r.detail)'
  BY DEF HonestDetail
<1> HIDE DEF S
<1>3. goWrites' \subseteq goWrites \cup S
  BY DEF S
<1> QED
  BY <1>1, <1>2, <1>3, HonestSpawn

\* The errors workers carry stay accounted for when no worker takes one up.
LEMMA ErrorsStay ==
  ASSUME RecordInv, HistoryGrows,
         \A w \in Workers : worker'[w] \in {"have", "run"} /\ inHandErr'[w] =>
            /\ worker[w] \in {"have", "run"} /\ inHandErr[w]
            /\ inHand'[w] = inHand[w]
  PROVE  (\A w \in Workers : worker[w] \in {"have", "run"} /\ inHandErr[w]
                               => inHand[w] \in ranBad \cup blocked)'
BY DEF RecordInv, HistoryGrows

-----------------------------------------------------------------------------
(***************************************************************************)
(* RecordInv is inductive.                                                 *)
(***************************************************************************)

\* A step that leaves the record, the waiting writes and the errors in hand
\* alone, or only drops some of them, keeps RecordInv.
LEMMA RecordUndisturbed ==
  ASSUME TypeOK, RecordInv, HistoryGrows,
         details' = details, goWrites' \subseteq goWrites,
         \A w \in Workers : worker'[w] \in {"have", "run"} /\ inHandErr'[w] =>
            /\ worker[w] \in {"have", "run"} /\ inHandErr[w]
            /\ inHand'[w] = inHand[w]
  PROVE  RecordInv'
<1>1. RecordsAreHonest'
  <2> SUFFICES ASSUME NEW u \in Tasks PROVE HonestDetail(u, details[u])'
    BY DEF RecordsAreHonest
  <2>1. HonestDetail(u, details[u])
    BY DEF RecordInv, RecordsAreHonest
  <2> QED
    BY <2>1 DEF HistoryGrows, HonestDetail
<1>2. (\A r \in goWrites : HonestDetail(r.task, r.detail))'
  BY HonestStays DEF RecordInv
<1> QED
  BY <1>1, <1>2, ErrorsStay DEF RecordInv

LEMMA RecordDispatch ==
  ASSUME TypeOK, RecordInv, HistoryGrows, Dispatch
  PROVE  RecordInv'
<1> USE DEF storeVars, workerVars
<1>1. CASE Scan
  <2> DEFINE S == [task : TasksToBlock(details), detail : {BlockedDetail},
                   by : BlockCalls]
  <2>1. \A r \in S : HonestDetail(r.task, r.detail)'
    BY <1>1 DEF Scan, HonestDetail, BlockedDetail
  <2>2. goWrites' \subseteq goWrites \cup S
    BY <1>1 DEF Scan, Spawned
  <2>3. (\A r \in goWrites : HonestDetail(r.task, r.detail))'
    BY <2>1, <2>2, HonestSpawn
  <2>4. RecordsAreHonest'
    <3> SUFFICES ASSUME NEW u \in Tasks PROVE HonestDetail(u, details[u])'
      BY DEF RecordsAreHonest
    <3>1. HonestDetail(u, details[u]) /\ details' = details
      BY <1>1 DEF RecordInv, RecordsAreHonest, Scan
    <3> QED
      BY <3>1 DEF HistoryGrows, HonestDetail
  <2>5. UNCHANGED workerVars
    BY <1>1 DEF Scan
  <2> QED
    BY <2>3, <2>4, <2>5, ErrorsStay DEF RecordInv
<1>2. CASE ~Scan
  <2>1. UNCHANGED <<details, goWrites, worker, inHand, inHandErr>>
    BY <1>2 DEF Dispatch, ScanFails, ScanFindsAllFinished, Send, TakeSignal,
                Tick, DispatcherCancelled
  <2> QED
    BY <2>1, RecordUndisturbed
<1> QED
  BY <1>1, <1>2

LEMMA RecordWork ==
  ASSUME TypeOK, RecordInv, HistoryGrows, NEW w \in Workers, Work(w)
  PROVE  RecordInv'
<1> USE DEF storeVars, workerVars, historyVars, Moves
<1>1. CASE WorkerStart(w) \/ Receive(w) \/ WorkerExit(w) \/ GetTaskFails(w) \/ Signal(w)
  <2>1. /\ UNCHANGED <<details, goWrites, inHandErr>>
        /\ \A v \in Workers : worker'[v] \in {"have", "run"} =>
             worker'[v] = worker[v] /\ inHand'[v] = inHand[v]
    BY <1>1 DEF WorkerStart, Receive, WorkerExit, GetTaskFails, Signal, TypeOK
  <2> QED
    BY <2>1, RecordUndisturbed
<1>2. CASE GetTask(w)
  <2>1. UNCHANGED <<details, goWrites, inHand, ranOk, ranBad, blocked>>
    BY <1>2 DEF GetTask
  <2>2. RecordsAreHonest' /\ (\A r \in goWrites : HonestDetail(r.task, r.detail))'
    BY <2>1 DEF RecordInv, RecordsAreHonest, HonestDetail
  <2>3. ASSUME NEW v \in Workers, worker'[v] \in {"have", "run"}, inHandErr'[v]
        PROVE  inHand'[v] \in ranBad' \cup blocked'
    <3>1. CASE v = w
      <4>1. inHand[w] \in Tasks /\ details[inHand[w]].err
        BY <1>2, <2>3, <3>1 DEF GetTask, TypeOK, Busy
      <4> QED
        BY <2>1, <3>1, <4>1 DEF RecordInv, RecordsAreHonest, HonestDetail
    <3>2. CASE v # w
      <4>1. worker[v] \in {"have", "run"} /\ inHandErr[v]
        BY <1>2, <2>3, <3>2 DEF GetTask, TypeOK
      <4> QED
        BY <2>1, <4>1 DEF RecordInv
    <3> QED
      BY <3>1, <3>2
  <2> QED
    BY <2>2, <2>3 DEF RecordInv
<1>3. CASE MarkInProgress(w) \/ MarkInProgressFails(w)
  <2>1. PICK t \in Tasks, d \in Detail :
          t = inHand[w] /\ d = StartedDetail(inHandErr[w]) /\ worker[w] = "have"
    BY <1>3, DetailTypes DEF MarkInProgress, MarkInProgressFails, TypeOK, Busy
  <2>2. HonestDetail(t, d)
    BY <2>1 DEF HonestDetail, StartedDetail, RecordInv
  <2>3. HonestDetail(t, d)'
    BY <2>2, HonestStays
  <2>4. details' = WithDetail(details, t, d) \/ details' = details
    BY <1>3, <2>1 DEF MarkInProgress, MarkInProgressFails, MaybeWritten, Written
  <2>5. goWrites' \subseteq goWrites \cup
          {[task |-> t, detail |-> d, by |-> "worker"]}
    BY <1>3, <2>1 DEF MarkInProgress, MarkInProgressFails, Spawned
  <2>6. /\ RecordsAreHonest'
        /\ (\A r \in goWrites : HonestDetail(r.task, r.detail))'
    BY <2>3, <2>4, <2>5, RecordWrite
  <2>7. \A v \in Workers : worker'[v] \in {"have", "run"} /\ inHandErr'[v] =>
            /\ worker[v] \in {"have", "run"} /\ inHandErr[v]
            /\ inHand'[v] = inHand[v]
    BY <1>3 DEF MarkInProgress, MarkInProgressFails, TypeOK
  <2> QED
    BY <2>6, <2>7, ErrorsStay DEF RecordInv
<1>4. CASE Finish(w)
  <2>1. PICK succeeded \in BOOLEAN :
          LET t == inHand[w]
              final == FinalDetail(inHandErr[w], succeeded)
          IN  /\ \/ Written(t, final)
                 \/ CallMayFail /\ UNCHANGED details
              /\ Spawned({[task |-> t, detail |-> final, by |-> "worker"]})
              /\ ranOk' = IF succeeded THEN ranOk \cup {t} ELSE ranOk
              /\ ranBad' = IF succeeded THEN ranBad ELSE ranBad \cup {t}
    BY <1>4 DEF Finish
  <2>2. PICK t \in Tasks, d \in Detail :
          /\ t = inHand[w] /\ d = FinalDetail(inHandErr[w], succeeded)
          /\ worker[w] = "run"
    BY <1>4, DetailTypes DEF Finish, TypeOK, Busy
  <2>3. HonestDetail(t, d)'
    <3>1. CASE succeeded /\ ~inHandErr[w]
      BY <2>1, <2>2, <3>1 DEF HonestDetail, FinalDetail, CompletedDetail
    <3>2. CASE ~succeeded
      BY <2>1, <2>2, <3>2 DEF HonestDetail, FinalDetail
    <3>3. CASE inHandErr[w]
      <4>1. t \in ranBad \cup blocked
        BY <2>2, <3>3 DEF RecordInv
      <4> QED
        BY <2>2, <3>3, <4>1 DEF HonestDetail, FinalDetail, HistoryGrows
    <3> QED
      BY <3>1, <3>2, <3>3
  <2>4. details' = WithDetail(details, t, d) \/ details' = details
    BY <2>1, <2>2 DEF Written
  <2>5. goWrites' \subseteq goWrites \cup
          {[task |-> t, detail |-> d, by |-> "worker"]}
    BY <2>1, <2>2 DEF Spawned
  <2>6. /\ RecordsAreHonest'
        /\ (\A r \in goWrites : HonestDetail(r.task, r.detail))'
    BY <2>3, <2>4, <2>5, RecordWrite
  <2>7. \A v \in Workers : worker'[v] \in {"have", "run"} /\ inHandErr'[v] =>
            /\ worker[v] \in {"have", "run"} /\ inHandErr[v]
            /\ inHand'[v] = inHand[v]
    BY <1>4 DEF Finish, TypeOK
  <2> QED
    BY <2>6, <2>7, ErrorsStay DEF RecordInv
<1> QED
  BY <1>1, <1>2, <1>3, <1>4 DEF Work

LEMMA RecordGoWrite ==
  ASSUME TypeOK, RecordInv, HistoryGrows, NEW r \in goWrites, GoWrite(r)
  PROVE  RecordInv'
<1>1. PICK t \in Tasks, d \in Detail : t = r.task /\ d = r.detail
  BY DEF TypeOK, GoWrites
<1>2. HonestDetail(t, d)'
  BY <1>1, HonestStays DEF RecordInv
<1>3. details' = WithDetail(details, t, d) \/ details' = details
  BY <1>1 DEF GoWrite, Written
<1>4. goWrites' \subseteq goWrites \cup {[task |-> t, detail |-> d, by |-> "worker"]}
  BY DEF GoWrite
<1>5. /\ RecordsAreHonest'
      /\ (\A q \in goWrites : HonestDetail(q.task, q.detail))'
  BY <1>2, <1>3, <1>4, RecordWrite
<1>6. UNCHANGED <<worker, inHand, inHandErr>>
  BY DEF GoWrite, workerVars
<1> QED
  BY <1>5, <1>6, ErrorsStay DEF RecordInv

\* No step makes the record, or a write on its way to it, dishonest.
LEMMA RecordStep == TypeOK /\ RecordInv /\ [Next]_vars => RecordInv'
<1> SUFFICES ASSUME TypeOK, RecordInv, [Next]_vars PROVE RecordInv'
  OBVIOUS
<1>1. HistoryGrows
  BY HistoryStep
<1>2. CASE Hub \/ Cancel \/ UNCHANGED vars
  <2>1. UNCHANGED <<details, goWrites, worker, inHand, inHandErr>>
    BY <1>2 DEF Hub, HubFinished, HubCancelled, HubJoin, HubFinal, HubHeader,
                Cancel, vars, storeVars, workerVars
  <2> QED
    BY <1>1, <2>1, RecordUndisturbed
<1> QED
  BY <1>1, <1>2, RecordDispatch, RecordWork, RecordGoWrite DEF Next

-----------------------------------------------------------------------------
(***************************************************************************)
(* DispatchInv is inductive, given that the record is honest.              *)
(***************************************************************************)

\* What an honest record calls ready has dependencies that have all run.
LEMMA ReadyRan ==
  ASSUME RecordsAreHonest, TypeOK, NEW t \in ReadyTasks(details)
  PROVE  DepsRan(t)
<1>1. t \in Tasks /\ DepsMet(details, t)
  BY DEF ReadyTasks, PendingTasks
<1>2. ASSUME NEW d \in Deps[t] PROVE d \in ranOk
  <2>1. d \in Tasks
    BY <1>1, <1>2, DepsAssumption
  <2>2. details[d].status \in {"completed", "skipped"}
    BY <1>1, <1>2 DEF DepsMet
  <2> QED
    BY <2>1, <2>2 DEF RecordsAreHonest, HonestDetail
<1> QED
  BY <1>2 DEF DepsRan

\* What an honest record says must be blocked has a cause.
LEMMA BlockCause ==
  ASSUME RecordsAreHonest, TypeOK, NEW t \in TasksToBlock(details)
  PROVE  t \in Tasks /\ Deps[t] \cap (ranBad \cup blocked) # {}
<1>1. t \in Tasks /\ DepFailed(details, t)
  BY DEF TasksToBlock, PendingTasks
<1>2. PICK d \in Deps[t] : details[d].status \in {"failed", "blocked"}
  BY <1>1 DEF DepFailed
<1>3. d \in Tasks
  BY <1>1, <1>2, DepsAssumption
<1>4. d \in ranBad \cup blocked
  BY <1>2, <1>3 DEF RecordsAreHonest, HonestDetail
<1> QED
  BY <1>1, <1>2, <1>4

\* Some run has failed if a task is blocked: nothing encloses no failure at all
\* but the empty set.
LEMMA BlockedNotAlone ==
  ASSUME DispatchInv, blocked # {}
  PROVE  ranBad # {}
<1>1. ranBad = {} => Encloses({})
  BY DEF Encloses, Downstream
<1> QED
  BY <1>1 DEF DispatchInv, BlastRadius

\* What encloses the failed runs of the next state encloses those of this one.
LEMMA RadiusGrows ==
  ASSUME BlastRadius, HistoryGrows, blocked' = blocked
  PROVE  BlastRadius'
<1> SUFFICES ASSUME NEW S \in SUBSET Tasks, Encloses(S)' PROVE blocked' \subseteq S
  BY DEF BlastRadius
<1>1. Encloses(S)
  BY DEF Encloses, Downstream, HistoryGrows
<1> QED
  BY <1>1 DEF BlastRadius

\* A step that puts no task on its way and blocks none keeps DispatchInv.
LEMMA DispatchUndisturbed ==
  ASSUME DispatchInv, HistoryGrows, queue' = queue, toSend' \subseteq toSend,
         blocked' = blocked,
         \A w \in Workers : worker'[w] \in Busy =>
            worker[w] \in Busy /\ inHand'[w] = inHand[w]
  PROVE  DispatchInv'
<1>1. BlastRadius'
  BY RadiusGrows DEF DispatchInv
<1> QED
  BY <1>1 DEF DispatchInv, DepsRan, HistoryGrows

LEMMA DispatchDispatch ==
  ASSUME TypeOK, RecordInv, DispatchInv, HistoryGrows, Dispatch
  PROVE  DispatchInv'
<1> USE DEF channelVars, workerVars, historyVars, dispatcherVars
<1>1. CASE ScanFails \/ ScanFindsAllFinished \/ TakeSignal \/ Tick \/ DispatcherCancelled
  <2>1. UNCHANGED <<queue, toSend, blocked, worker, inHand>>
    BY <1>1 DEF ScanFails, ScanFindsAllFinished, TakeSignal, Tick, DispatcherCancelled
  <2> QED
    BY <2>1, DispatchUndisturbed
<1>2. CASE Scan
  <2>1. UNCHANGED <<queue, worker, inHand, ranOk, ranBad>>
    BY <1>2 DEF Scan
  <2>2. \A t \in toSend' : DepsRan(t)
    BY <1>2, ReadyRan DEF Scan, DispatchInv, RecordInv
  <2>3. ASSUME NEW t \in blocked'
        PROVE  Deps[t] \cap (ranBad \cup blocked) # {}
    <3>1. CASE t \in blocked
      BY <3>1 DEF DispatchInv
    <3>2. CASE t \in TasksToBlock(details)
      BY <3>2, BlockCause DEF RecordInv
    <3> QED
      BY <1>2, <2>3, <3>1, <3>2 DEF Scan
  <2>4. \A t \in blocked' : Deps[t] \cap (ranBad' \cup blocked') # {}
    BY <2>1, <2>3 DEF HistoryGrows
  <2>5. BlastRadius'
    <3> SUFFICES ASSUME NEW S \in SUBSET Tasks, Encloses(S)', NEW t \in blocked'
                 PROVE  t \in S
      BY DEF BlastRadius
    <3>1. Encloses(S) /\ blocked \subseteq S
      BY <2>1 DEF Encloses, Downstream, DispatchInv, BlastRadius
    <3>2. CASE t \in TasksToBlock(details)
      <4>1. t \in Tasks /\ Deps[t] \cap S # {}
        BY <3>1, <3>2, BlockCause DEF RecordInv, Encloses
      <4> QED
        BY <3>1, <4>1 DEF Encloses, Downstream
    <3> QED
      BY <1>2, <3>1, <3>2 DEF Scan
  <2> QED
    BY <2>1, <2>2, <2>4, <2>5 DEF DispatchInv, DepsRan
<1>3. ASSUME NEW t \in Tasks, Send(t) PROVE DispatchInv'
  <2>1. /\ UNCHANGED <<worker, inHand, ranOk, ranBad, blocked>>
        /\ toSend' = toSend \ {t}
        /\ DepsRan(t)
    BY <1>3 DEF Send, DispatchInv
  <2>2. \A i \in 1..Len(queue') : DepsRan(queue'[i])
    <3>1. CASE queue' = queue
      BY <3>1 DEF DispatchInv
    <3>2. CASE queue' = Append(queue, t)
      <4>1. queue \in Seq(Tasks) /\ Len(queue) \in Nat
        BY LenProperties DEF TypeOK
      <4>2. /\ Len(queue') = Len(queue) + 1
            /\ \A i \in 1..Len(queue) : queue'[i] = queue[i]
            /\ queue'[Len(queue) + 1] = t
        BY <3>2, <4>1
      <4>3. ASSUME NEW i \in 1..Len(queue') PROVE DepsRan(queue'[i])
        <5>1. CASE i \in 1..Len(queue)
          BY <4>2, <5>1 DEF DispatchInv
        <5>2. CASE i = Len(queue) + 1
          BY <2>1, <4>2, <5>2
        <5> QED
          BY <4>1, <4>2, <4>3, <5>1, <5>2
      <4> QED
        BY <4>3
    <3> QED
      BY <1>3, <3>1, <3>2 DEF Send
  <2>3. BlastRadius'
    BY <2>1, RadiusGrows DEF DispatchInv
  <2> QED
    BY <2>1, <2>2, <2>3 DEF DispatchInv, DepsRan
<1> QED
  BY <1>1, <1>2, <1>3 DEF Dispatch

LEMMA DispatchWork ==
  ASSUME TypeOK, DispatchInv, HistoryGrows, NEW w \in Workers, Work(w)
  PROVE  DispatchInv'
<1> USE DEF channelVars, dispatcherVars, historyVars, workerVars, Moves
<1>1. CASE Receive(w)
  <2>1. queue \in Seq(Tasks) /\ queue # <<>> /\ Len(queue) \in Nat
    BY <1>1, LenProperties DEF TypeOK, Receive
  <2>2. /\ Head(queue) = queue[1]
        /\ Len(queue') = Len(queue) - 1
        /\ \A i \in 1..Len(queue') : queue'[i] = queue[i+1]
        /\ Len(queue) > 0
    BY <1>1, <2>1, HeadTailProperties, EmptySeq DEF Receive
  <2>3. DepsRan(Head(queue))
    BY <2>1, <2>2 DEF DispatchInv
  <2>4. \A i \in 1..Len(queue') : DepsRan(queue'[i])
    BY <2>1, <2>2 DEF DispatchInv
  <2>5. UNCHANGED <<toSend, ranOk, ranBad, blocked>>
    BY <1>1 DEF Receive
  <2>6. \A v \in Workers : worker'[v] \in Busy => DepsRan(inHand'[v])
    BY <1>1, <2>3 DEF Receive, DispatchInv, TypeOK
  <2>7. BlastRadius'
    BY <2>5, RadiusGrows DEF DispatchInv
  <2> QED
    BY <2>4, <2>5, <2>6, <2>7 DEF DispatchInv, DepsRan
<1>2. CASE ~Receive(w)
  <2>1. /\ UNCHANGED <<queue, toSend, blocked>>
        /\ \A v \in Workers : worker'[v] \in Busy =>
             worker[v] \in Busy /\ inHand'[v] = inHand[v]
    BY <1>2 DEF Work, WorkerStart, WorkerExit, GetTask, GetTaskFails,
                MarkInProgress, MarkInProgressFails, Finish, Signal, Busy, TypeOK
  <2> QED
    BY <2>1, DispatchUndisturbed
<1> QED
  BY <1>1, <1>2

\* No step puts a task on its way before its time, or blocks one for nothing.
LEMMA DispatchStep ==
  TypeOK /\ RecordInv /\ DispatchInv /\ [Next]_vars => DispatchInv'
<1> SUFFICES ASSUME TypeOK, RecordInv, DispatchInv, [Next]_vars
             PROVE  DispatchInv'
  OBVIOUS
<1>1. HistoryGrows
  BY HistoryStep
<1>2. CASE Hub \/ Cancel \/ UNCHANGED vars \/ \E r \in goWrites : GoWrite(r)
  <2>1. UNCHANGED <<queue, toSend, blocked, worker, inHand>>
    BY <1>2 DEF Hub, HubFinished, HubCancelled, HubJoin, HubFinal, HubHeader,
                Cancel, GoWrite, vars, channelVars, dispatcherVars, workerVars,
                historyVars
  <2> QED
    BY <1>1, <2>1, DispatchUndisturbed
<1> QED
  BY <1>1, <1>2, DispatchDispatch, DispatchWork DEF Next

-----------------------------------------------------------------------------
(***************************************************************************)
(* ControlInv is inductive, given the other two.                           *)
(***************************************************************************)

\* A record in which every task is finished accounts for every task.
LEMMA FinishedAccounted ==
  ASSUME TypeOK, RecordsAreHonest, FinishedTasks(details) = Tasks
  PROVE  AllAccounted
<1> SUFFICES ASSUME NEW t \in Tasks PROVE t \in ranOk \cup ranBad \cup blocked
  BY DEF AllAccounted
<1>1. t \in FinishedTasks(details)
  OBVIOUS
<1>2. Finished(details[t].status)
  BY <1>1 DEF FinishedTasks
<1>3. details[t].status \in {"completed", "failed", "skipped", "blocked"}
  BY <1>2 DEF Finished, TypeOK, Detail, Statuses
<1> QED
  BY <1>3 DEF RecordsAreHonest, HonestDetail

LEMMA ControlDispatch ==
  ASSUME TypeOK, RecordInv, ControlInv, HistoryGrows, Dispatch
  PROVE  ControlInv'
<1> USE DEF storeVars, channelVars, workerVars, hubVars, contextVars, historyVars
<1>1. ~allFinished /\ closedBy # "finished" /\ dispatcher \notin {"done", "panic"}
  BY DEF Dispatch, ScanFails, ScanFindsAllFinished, Scan, Send, TakeSignal, Tick,
         DispatcherCancelled, ControlInv
<1>2. UNCHANGED <<header, closedBy, worker, hub, verdict, cancelled>>
  BY DEF Dispatch, ScanFails, ScanFindsAllFinished, Scan, Send, TakeSignal, Tick,
         DispatcherCancelled
<1>3. CASE ScanFindsAllFinished
  <2>1. AllAccounted
    BY <1>3, AllFinished, FinishedAccounted DEF ScanFindsAllFinished, RecordInv
  <2>2. AllAccounted' /\ dispatcher' = "done" /\ ranBad' = ranBad
    BY <1>3, <2>1 DEF ScanFindsAllFinished, AllAccounted
  <2> QED
    BY <1>2, <2>2 DEF ControlInv
<1>4. CASE ~ScanFindsAllFinished
  <2>1. allFinished' = allFinished /\ ranBad' = ranBad
    BY <1>4 DEF Dispatch, ScanFails, Scan, Send, TakeSignal, Tick,
                DispatcherCancelled
  <2>2. dispatcher' = "panic" => closedBy = "cancel"
    BY <1>1, <1>4 DEF Dispatch, ScanFails, Scan, Send, TakeSignal, Tick,
                      DispatcherCancelled, TypeOK
  <2> QED
    BY <1>1, <1>2, <2>1, <2>2 DEF ControlInv
<1> QED
  BY <1>3, <1>4

LEMMA ControlWork ==
  ASSUME TypeOK, ControlInv, HistoryGrows, NEW w \in Workers, Work(w)
  PROVE  ControlInv'
<1> USE DEF storeVars, channelVars, dispatcherVars, hubVars, contextVars, Moves
<1>1. /\ UNCHANGED <<header, closedBy, allFinished, dispatcher, hub, verdict,
                     cancelled>>
      /\ worker[w] # "exited"
  BY DEF Work, WorkerStart, Receive, WorkerExit, GetTask, GetTaskFails,
         MarkInProgress, MarkInProgressFails, Finish, Signal
<1>2. hub \notin {"final", "header", "returned"}
  BY <1>1 DEF ControlInv
<1>3. /\ AllAccounted => AllAccounted'
      /\ ranBad # {} => ranBad' # {}
  BY DEF AllAccounted, HistoryGrows
<1> QED
  BY <1>1, <1>2, <1>3 DEF ControlInv

LEMMA ControlHub ==
  ASSUME TypeOK, RecordInv, DispatchInv, ControlInv, Hub
  PROVE  ControlInv'
<1> USE DEF storeVars, channelVars, dispatcherVars, workerVars, contextVars,
            historyVars, AllAccounted
<1>1. CASE HubFinished
  BY <1>1 DEF HubFinished, ControlInv
<1>2. CASE HubCancelled
  BY <1>2 DEF HubCancelled, ControlInv
<1>3. CASE HubJoin
  BY <1>3 DEF HubJoin, ControlInv
<1>4. CASE HubFinal
  <2>1. ~FinalSuccess(details) => ranBad # {}
    <3> SUFFICES ASSUME NEW t \in Tasks, details[t].status \in {"failed", "blocked"}
                 PROVE  ranBad # {}
      BY DEF FinalSuccess
    <3>1. t \in ranBad \cup blocked
      BY DEF RecordInv, RecordsAreHonest, HonestDetail
    <3> QED
      BY <3>1, BlockedNotAlone
  <2>2. CallMaySucceed => closedBy = "finished"
    BY <1>4 DEF CallMaySucceed, HubFinal, ControlInv, TypeOK
  <2> QED
    BY <1>4, <2>1, <2>2 DEF HubFinal, ControlInv
<1>5. CASE HubHeader
  <2>1. header' = "failed" => ranBad # {}
    BY <1>5 DEF HubHeader, HeaderOf, ControlInv
  <2> QED
    BY <1>5, <2>1 DEF HubHeader, ControlInv
<1> QED
  BY <1>1, <1>2, <1>3, <1>4, <1>5 DEF Hub

\* No step lets the hub, the dispatcher and the workers drift apart.
LEMMA ControlStep ==
  TypeOK /\ RecordInv /\ DispatchInv /\ ControlInv /\ [Next]_vars => ControlInv'
<1> SUFFICES ASSUME TypeOK, RecordInv, DispatchInv, ControlInv, [Next]_vars
             PROVE  ControlInv'
  OBVIOUS
<1>1. HistoryGrows
  BY HistoryStep
<1>2. CASE UNCHANGED vars \/ \E r \in goWrites : GoWrite(r)
  <2>1. UNCHANGED <<header, closedBy, allFinished, dispatcher, worker, hub,
                    verdict, cancelled, ranOk, ranBad, blocked>>
    BY <1>2 DEF GoWrite, vars, storeVars, channelVars, dispatcherVars,
                workerVars, hubVars, contextVars, historyVars
  <2> QED
    BY <2>1 DEF ControlInv, AllAccounted
<1>3. CASE Cancel
  BY <1>3 DEF Cancel, storeVars, channelVars, dispatcherVars, workerVars,
              hubVars, historyVars, ControlInv, AllAccounted
<1> QED
  BY <1>1, <1>2, <1>3, ControlDispatch, ControlWork, ControlHub DEF Next

-----------------------------------------------------------------------------
(***************************************************************************)
(* The theorems.                                                           *)
(***************************************************************************)

\* The inductive invariant holds in every reachable state.
THEOREM Invariance == Spec => [](TypeOK /\ IInv)
<1>1. Init => TypeOK /\ IInv
  BY InitType, InitIInv
<1>2. TypeOK /\ IInv /\ [Next]_vars => TypeOK' /\ IInv'
  BY NextType, RecordStep, DispatchStep, ControlStep DEF IInv
<1> QED
  BY <1>1, <1>2, PTL DEF Spec

\* However many workers race, whatever the store loses and whenever the caller
\* cancels, no plugin runs before every task it depends on has succeeded.
THEOREM DependenciesAlwaysRespected == Spec => []DependenciesRespected
<1>1. TypeOK /\ IInv => DependenciesRespected
  BY DEF IInv, DispatchInv, DependenciesRespected, DepsRan, Busy
<1> QED
  BY <1>1, Invariance, PTL

\* The execution record never claims a run, a failure or a block that did not
\* happen, in spite of the late writes that overwrite each other in it.
THEOREM RecordsAlwaysHonest == Spec => []RecordsAreHonest
<1>1. TypeOK /\ IInv => RecordsAreHonest
  BY DEF IInv, RecordInv
<1> QED
  BY <1>1, Invariance, PTL

\* A verdict is recorded only after every task that no failure reaches has
\* succeeded, and failed only after a failure.
THEOREM VerdictsAreEarned == Spec => []HeaderIsEarned
<1>1. ASSUME TypeOK, IInv, header # "in-progress" PROVE OutOfReachSucceeded
  <2> SUFFICES ASSUME NEW S \in SUBSET Tasks, Encloses(S), NEW t \in Tasks \ S
               PROVE  t \in ranOk
    BY DEF OutOfReachSucceeded, Encloses
  <2>1. AllAccounted
    BY <1>1 DEF IInv, ControlInv
  <2>2. t \notin ranBad \cup blocked
    BY <1>1 DEF IInv, DispatchInv, BlastRadius, Encloses
  <2> QED
    BY <2>1, <2>2 DEF AllAccounted
<1>2. TypeOK /\ IInv => HeaderIsEarned
  BY <1>1 DEF IInv, ControlInv, HeaderIsEarned
<1> QED
  BY <1>2, Invariance, PTL

\* The send on a closed channel happens only to a cancelled execution.
THEOREM NoPanicUnlessCancelled == Spec => []PanicOnlyOnCancel
<1>1. TypeOK /\ IInv => PanicOnlyOnCancel
  BY DEF IInv, ControlInv, PanicOnlyOnCancel
<1> QED
  BY <1>1, Invariance, PTL

-----------------------------------------------------------------------------
(***************************************************************************)
(* What is at rest stays at rest.                                          *)
(***************************************************************************)
LEMMA RestDispatch ==
  ASSUME TypeOK, NEW t \in Tasks, AtRest(t), Dispatch
  PROVE  AtRest(t)'
<1> USE DEF storeVars, channelVars, dispatcherVars, workerVars
<1>1. t \notin PendingTasks(details)
  BY DEF AtRest, PendingTasks, CompletedDetail
<1>2. UNCHANGED <<details, inHand>>
  BY DEF Dispatch, ScanFails, ScanFindsAllFinished, Scan, Send, TakeSignal, Tick,
         DispatcherCancelled
<1>3. CASE Scan
  <2>1. t \notin toSend'
    BY <1>1, <1>3 DEF Scan, ReadyTasks, AtRest
  <2>2. \A r \in goWrites' : r.task = t => r \in goWrites
    BY <1>1, <1>3 DEF Scan, Spawned, TasksToBlock
  <2>3. queue' = queue
    BY <1>3 DEF Scan
  <2> QED
    BY <1>2, <2>1, <2>2, <2>3 DEF AtRest
<1>4. ASSUME NEW u \in Tasks, Send(u) PROVE AtRest(t)'
  <2>1. u # t /\ toSend' \subseteq toSend /\ goWrites' = goWrites
    BY <1>4 DEF Send, AtRest
  <2>2. \A i \in 1..Len(queue') : queue'[i] # t
    <3>1. CASE queue' = queue
      BY <3>1 DEF AtRest
    <3>2. CASE queue' = Append(queue, u)
      <4>1. queue \in Seq(Tasks) /\ Len(queue) \in Nat
        BY LenProperties DEF TypeOK
      <4>2. /\ Len(queue') = Len(queue) + 1
            /\ \A i \in 1..Len(queue) : queue'[i] = queue[i]
            /\ queue'[Len(queue) + 1] = u
        BY <3>2, <4>1
      <4> QED
        BY <2>1, <4>1, <4>2 DEF AtRest
    <3> QED
      BY <1>4, <3>1, <3>2 DEF Send
  <2> QED
    BY <1>2, <2>1, <2>2 DEF AtRest
<1>5. CASE ScanFails \/ ScanFindsAllFinished \/ TakeSignal \/ Tick \/ DispatcherCancelled
  <2>1. UNCHANGED <<goWrites, queue, toSend>>
    BY <1>5 DEF ScanFails, ScanFindsAllFinished, TakeSignal, Tick, DispatcherCancelled
  <2> QED
    BY <1>2, <2>1 DEF AtRest
<1> QED
  BY <1>3, <1>4, <1>5 DEF Dispatch

LEMMA RestWork ==
  ASSUME TypeOK, NEW t \in Tasks, AtRest(t), NEW w \in Workers, Work(w)
  PROVE  AtRest(t)'
<1> USE DEF storeVars, channelVars, dispatcherVars, workerVars, Moves
<1>1. toSend' = toSend
  BY DEF Work, WorkerStart, Receive, WorkerExit, GetTask, GetTaskFails,
         MarkInProgress, MarkInProgressFails, Finish, Signal
<1>2. CASE Receive(w)
  <2>1. queue \in Seq(Tasks) /\ queue # <<>> /\ Len(queue) \in Nat
    BY <1>2, LenProperties DEF TypeOK, Receive
  <2>2. /\ Head(queue) = queue[1]
        /\ Len(queue') = Len(queue) - 1
        /\ \A i \in 1..Len(queue') : queue'[i] = queue[i+1]
        /\ Len(queue) > 0
    BY <1>2, <2>1, HeadTailProperties, EmptySeq DEF Receive
  <2>3. Head(queue) # t /\ \A i \in 1..Len(queue') : queue'[i] # t
    BY <2>1, <2>2 DEF AtRest
  <2>4. \A v \in Workers : inHand'[v] # t
    BY <1>2, <2>3 DEF Receive, AtRest, TypeOK
  <2>5. UNCHANGED <<details, goWrites>>
    BY <1>2 DEF Receive
  <2> QED
    BY <1>1, <2>3, <2>4, <2>5 DEF AtRest
<1>3. CASE ~Receive(w)
  <2>1. /\ queue' = queue
        /\ \A v \in Workers : inHand'[v] \in {inHand[v], NoTask}
    BY <1>3 DEF Work, WorkerStart, WorkerExit, GetTask, GetTaskFails,
                MarkInProgress, MarkInProgressFails, Finish, Signal, TypeOK
  <2>2. inHand[w] # t /\ NoTask # t
    BY NoTaskAssumption DEF AtRest
  <2>3. details'[t] = details[t]
    BY <1>3, <2>2 DEF Work, WorkerStart, WorkerExit, GetTask, GetTaskFails,
                MarkInProgress, MarkInProgressFails, Finish, Signal, Written,
                MaybeWritten, WithDetail, TypeOK
  <2>4. \A r \in goWrites' : r.task = t => r \in goWrites
    <3>1. CASE MarkInProgress(w)
      BY <2>2, <3>1 DEF MarkInProgress, Spawned
    <3>2. CASE Finish(w)
      <4>1. PICK d : goWrites' = goWrites \cup
                       {[task |-> inHand[w], detail |-> d, by |-> "worker"]}
        BY <3>2 DEF Finish, Spawned
      <4> QED
        BY <2>2, <4>1
    <3>3. CASE ~MarkInProgress(w) /\ ~Finish(w)
      BY <1>3, <3>3 DEF Work, WorkerStart, WorkerExit, GetTask, GetTaskFails,
                        MarkInProgressFails, Signal
    <3> QED
      BY <3>1, <3>2, <3>3
  <2> QED
    BY <1>1, <2>1, <2>2, <2>3, <2>4 DEF AtRest
<1> QED
  BY <1>2, <1>3

\* No step wakes a task that is at rest.
LEMMA RestStep ==
  ASSUME TypeOK, NEW t \in Tasks, AtRest(t), [Next]_vars
  PROVE  AtRest(t)'
<1>1. ASSUME NEW r \in goWrites, GoWrite(r) PROVE AtRest(t)'
  <2>1. /\ UNCHANGED <<queue, toSend, inHand>>
        /\ goWrites' \subseteq goWrites
    BY <1>1 DEF GoWrite, channelVars, dispatcherVars, workerVars
  <2>2. details'[t] = details[t] \/ (r.task = t /\ details'[t] = r.detail)
    BY <1>1 DEF GoWrite, Written, WithDetail, TypeOK
  <2> QED
    BY <2>1, <2>2 DEF AtRest
<1>2. CASE Hub \/ Cancel \/ UNCHANGED vars
  <2>1. UNCHANGED <<details, goWrites, queue, toSend, inHand>>
    BY <1>2 DEF Hub, HubFinished, HubCancelled, HubJoin, HubFinal, HubHeader,
                Cancel, vars, storeVars, channelVars, dispatcherVars, workerVars
  <2> QED
    BY <2>1 DEF AtRest
<1> QED
  BY <1>1, <1>2, RestDispatch, RestWork DEF Next

\* A task that is recorded completed with nothing under way for it is not run,
\* and its record not touched, for as long as ExecuteActions goes on.
THEOREM RestIsFinal == Spec => NoRepeat
<1>1. TypeOK /\ [Next]_vars => [\A t \in Tasks : AtRest(t) => AtRest(t)']_vars
  BY RestStep
<1> QED
  BY <1>1, TypeCorrect, PTL DEF Spec, NoRepeat

\* A restart never runs again what an earlier run has completed, although it
\* sends every task's record to the store once more.
THEOREM CompletedNotRunAgain ==
  ASSUME NEW t \in Tasks
  PROVE  Spec /\ t \in ranOk => []AtRest(t)
<1>1. Init /\ t \in ranOk => AtRest(t)
  <2> SUFFICES ASSUME Init, t \in ranOk PROVE AtRest(t)
    OBVIOUS
  <2>1. PICK done \in SUBSET Tasks : /\ details = InitialDetails(done)
                                     /\ ranOk = done
                                     /\ goWrites \subseteq RestartWrites(done)
    BY InitStarted
  <2>2. InitialDetails(done)[t] = CompletedDetail
    BY <2>1 DEF InitialDetails
  <2>3. Len(queue) = 0
    BY EmptySeq DEF Init
  <2>4. \A r \in goWrites : r.task = t => r.detail = CompletedDetail
    BY <2>1, <2>2 DEF RestartWrites
  <2> QED
    BY <2>1, <2>2, <2>3, <2>4, NoTaskAssumption DEF Init, AtRest
<1>2. TypeOK /\ AtRest(t) /\ [Next]_vars => AtRest(t)'
  BY RestStep
<1> QED
  BY <1>1, <1>2, TypeCorrect, PTL DEF Spec

\* If no set of tasks waits for itself, which is what the check before the run
\* establishes (DependencyCheck, VerdictIsExact), the dispatcher is never stuck
\* with a record that gives it nothing to decide: among the tasks that are not
\* finished, the dependencies of one are met, or one of them has failed.
Undecided(t) == ~DepsMet(details, t) /\ ~DepFailed(details, t)

THEOREM NeverWedged ==
  Spec => [](Acyclic(Tasks, Deps) /\ FinishedTasks(details) # Tasks
               => \E t \in Tasks \ FinishedTasks(details) : ~Undecided(t))
<1>1. ASSUME TypeOK, Acyclic(Tasks, Deps), FinishedTasks(details) # Tasks
      PROVE  \E t \in Tasks \ FinishedTasks(details) : ~Undecided(t)
  <2> DEFINE U == Tasks \ FinishedTasks(details)
  <2>1. U \in SUBSET Tasks /\ U # {}
    BY <1>1 DEF FinishedTasks
  <2>2. PICK t \in U : Deps[t] \cap U = {}
    BY <1>1, <2>1 DEF Acyclic
  <2>3. ASSUME NEW d \in Deps[t]
        PROVE  details[d].status \in {"completed", "failed", "skipped", "blocked"}
    <3>1. d \in Tasks /\ d \in FinishedTasks(details)
      BY <2>2, DepsAssumption
    <3> QED
      BY <1>1, <3>1 DEF FinishedTasks, Finished, TypeOK, Detail, Statuses
  <2>4. ~Undecided(t)
    BY <2>3 DEF Undecided, DepsMet, DepFailed
  <2> QED
    BY <2>4
<1>2. TypeOK => (Acyclic(Tasks, Deps) /\ FinishedTasks(details) # Tasks
                   => \E t \in Tasks \ FinishedTasks(details) : ~Undecided(t))
  BY <1>1
<1> QED
  BY <1>2, TypeCorrect, PTL

-----------------------------------------------------------------------------
\* How many steps a worker has left once the hub has closed the queue: those of what
\* it is busy with, and six for every task that it may still receive.
Rank(w) == CASE worker[w] = "init"   -> 2
             [] worker[w] = "idle"   -> 1
             [] worker[w] = "got"    -> 5
             [] worker[w] = "have"   -> 4
             [] worker[w] = "run"    -> 3
             [] worker[w] = "signal" -> 2
             [] worker[w] = "exited" -> 0
             [] worker[w] = "dead"   -> 0

StepsLeft(w) == 6 * Len(queue) + Rank(w)

LEMMA LeftIsNat == TypeOK => \A w \in Workers : StepsLeft(w) \in Nat /\ Rank(w) \in 0..5
<1> SUFFICES ASSUME TypeOK, NEW w \in Workers
             PROVE  StepsLeft(w) \in Nat /\ Rank(w) \in 0..5
  OBVIOUS
<1>1. Rank(w) \in 0..5
  BY DEF TypeOK, Busy, Rank
<1>2. Len(queue) \in Nat
  BY LenProperties DEF TypeOK
<1> QED
  BY <1>1, <1>2 DEF StepsLeft

\* What a step of a worker does to the queue, to its own place and to the others'.
LEMMA WorkPlaces ==
  ASSUME TypeOK, NEW w \in Workers, Work(w)
  PROVE  /\ \/ worker[w] = "idle" /\ worker'[w] = "got" /\ Len(queue') = Len(queue) - 1
            \/ queue' = queue /\ <<worker[w], worker'[w]>> \in
                 {<<"init", "idle">>, <<"init", "dead">>, <<"idle", "exited">>, <<"got", "have">>,
                  <<"got", "idle">>, <<"have", "run">>, <<"have", "idle">>, <<"run", "signal">>,
                  <<"signal", "idle">>}
         /\ Len(queue) \in Nat
         /\ \A v \in Workers \ {w} : worker'[v] = worker[v]
<1>1. worker \in [Workers -> {"init", "idle", "signal", "exited", "dead"} \cup Busy]
  BY DEF TypeOK
<1>2. Len(queue) \in Nat
  BY LenProperties DEF TypeOK
<1>3. ASSUME NEW from, NEW to, Moves(w, from, to)
      PROVE  /\ worker[w] = from /\ worker'[w] = to
             /\ \A v \in Workers \ {w} : worker'[v] = worker[v]
  BY <1>1, <1>3 DEF Moves
<1>4. CASE Receive(w)
  <2>1. Len(Tail(queue)) = Len(queue) - 1
    BY <1>4, HeadTailProperties DEF Receive, TypeOK
  <2>2. Moves(w, "idle", "got") /\ queue' = Tail(queue)
    BY <1>4 DEF Receive
  <2> QED
    BY <1>2, <1>3, <2>1, <2>2
<1>5. CASE WorkerStart(w)
  <2>1. Moves(w, "init", "idle") \/ Moves(w, "init", "dead")
    BY <1>5 DEF WorkerStart
  <2>2. queue' = queue
    BY <1>5 DEF WorkerStart, channelVars
  <2> QED
    BY <1>2, <1>3, <2>1, <2>2
<1>6. CASE WorkerExit(w)
  BY <1>2, <1>3, <1>6 DEF WorkerExit, channelVars
<1>7. CASE GetTask(w)
  BY <1>2, <1>3, <1>7 DEF GetTask, channelVars
<1>8. CASE GetTaskFails(w)
  BY <1>2, <1>3, <1>8 DEF GetTaskFails, channelVars
<1>9. CASE MarkInProgress(w)
  BY <1>2, <1>3, <1>9 DEF MarkInProgress, channelVars
<1>10. CASE MarkInProgressFails(w)
  BY <1>2, <1>3, <1>10 DEF MarkInProgressFails, channelVars
<1>11. CASE Finish(w)
  BY <1>2, <1>3, <1>11 DEF Finish, channelVars
<1>12. CASE Signal(w)
  BY <1>2, <1>3, <1>12 DEF Signal
<1> QED
  BY <1>4, <1>5, <1>6, <1>7, <1>8, <1>9, <1>10, <1>11, <1>12 DEF Work

LEMMA WorkLowers ==
  ASSUME TypeOK, NEW w \in Workers, NEW v \in Workers, Work(v)
  PROVE  StepsLeft(w)' <= StepsLeft(w) /\ (v = w => StepsLeft(w)' < StepsLeft(w))
<1>1. Rank(w) \in 0..5 /\ Rank(v) \in 0..5 /\ Len(queue) \in Nat
  BY LeftIsNat, WorkPlaces
<1>2. v # w => Rank(w)' = Rank(w)
  BY WorkPlaces DEF Rank
<1>3. Len(queue') \in {Len(queue), Len(queue) - 1}
  BY WorkPlaces
<1>4. CASE v = w
  <2>1. CASE worker[w] = "idle" /\ worker'[w] = "got" /\ Len(queue') = Len(queue) - 1
    <3>1. Rank(w) = 1 /\ Rank(w)' = 5
      BY <2>1 DEF Rank
    <3> QED
      BY <1>1, <2>1, <3>1 DEF StepsLeft
  <2>2. CASE queue' = queue /\ <<worker[w], worker'[w]>> \in
               {<<"init", "idle">>, <<"init", "dead">>, <<"idle", "exited">>, <<"got", "have">>,
                <<"got", "idle">>, <<"have", "run">>, <<"have", "idle">>, <<"run", "signal">>,
                <<"signal", "idle">>}
    <3>1. Rank(w)' < Rank(w) /\ Rank(w)' \in 0..5
      BY <2>2 DEF Rank
    <3> QED
      BY <1>1, <2>2, <3>1 DEF StepsLeft
  <2> QED
    BY <1>4, <2>1, <2>2, WorkPlaces
<1>5. CASE v # w
  BY <1>1, <1>2, <1>3, <1>5 DEF StepsLeft
<1> QED
  BY <1>4, <1>5

\* The shutdown is no loop: once the hub has closed the queue, nothing is sent to a worker
\* any more (runner.go, line 212, panics instead), and every step a worker takes leaves it fewer
\* steps, of a number that the tasks still queued give; failed calls on etcd, late writes,
\* full channels and the other workers never give it more.  Whatever keeps
\* workerGroup.Wait() waiting is then a worker that takes no step at all.
THEOREM ShutdownIsBounded ==
  Spec => [][closedBy # "none" =>
               \A w \in Workers : /\ StepsLeft(w)' \in Nat /\ StepsLeft(w)' <= StepsLeft(w)
                                  /\ Work(w) => StepsLeft(w)' < StepsLeft(w)]_vars
<1> DEFINE Less(w) == /\ StepsLeft(w)' \in Nat /\ StepsLeft(w)' <= StepsLeft(w)
                      /\ Work(w) => StepsLeft(w)' < StepsLeft(w)
           Natural == \A w \in Workers : StepsLeft(w) \in Nat
<1>1. TypeOK => Natural
  BY LeftIsNat
<1> HIDE DEF Natural
<1>2. TypeOK' => Natural'
  BY <1>1, PTL
<1> USE DEF Natural
<1>3. ASSUME TypeOK, TypeOK', [Next]_vars, closedBy # "none", NEW w \in Workers
      PROVE  Less(w)
  <2>1. StepsLeft(w) \in Nat /\ StepsLeft(w)' \in Nat
    BY <1>1, <1>2, <1>3
  <2>2. Work(w) => StepsLeft(w)' < StepsLeft(w)
    BY <1>3, WorkLowers
  <2>3. ASSUME UNCHANGED <<queue, worker>> PROVE StepsLeft(w)' <= StepsLeft(w)
    <3>1. StepsLeft(w)' = StepsLeft(w)
      BY <2>3 DEF StepsLeft, Rank
    <3> QED
      BY <2>1, <3>1
  <2>4. CASE Dispatch
    <3>1. UNCHANGED <<queue, worker>>
      BY <1>3, <2>4 DEF Dispatch, ScanFails, ScanFindsAllFinished, Scan, Send, TakeSignal, Tick,
                        DispatcherCancelled, channelVars, workerVars
    <3> QED
      BY <2>1, <2>2, <2>3, <3>1
  <2>5. CASE Hub \/ Cancel \/ UNCHANGED vars \/ \E r \in goWrites : GoWrite(r)
    <3>1. UNCHANGED <<queue, worker>>
      BY <2>5 DEF Hub, HubFinished, HubCancelled, HubJoin, HubFinal, HubHeader, Cancel, GoWrite,
                  channelVars, workerVars, vars
    <3> QED
      BY <2>1, <2>2, <2>3, <3>1
  <2>6. ASSUME NEW v \in Workers, Work(v) PROVE StepsLeft(w)' <= StepsLeft(w)
    BY <1>3, <2>6, WorkLowers
  <2>7. StepsLeft(w)' <= StepsLeft(w)
    BY <1>3, <2>4, <2>5, <2>6 DEF Next
  <2> QED
    BY <2>1, <2>2, <2>7
<1>4. TypeOK /\ TypeOK' /\ [Next]_vars => (closedBy # "none" => \A w \in Workers : Less(w))
  BY <1>3
<1> HIDE DEF Less
<1>5. (closedBy # "none" => \A w \in Workers : Less(w)) =>
        (closedBy # "none" =>
           \A w \in Workers : /\ StepsLeft(w)' \in Nat /\ StepsLeft(w)' <= StepsLeft(w)
                              /\ Work(w) => StepsLeft(w)' < StepsLeft(w))
  BY DEF Less
<1> QED
  BY <1>4, <1>5, TypeCorrect, PTL DEF Spec

\* A worker without a key has returned before "defer wg.Done()" (runner.go, lines 251
\* and 257), so that nothing counts it down.
KeyInv == ~keyValid => /\ \A w \in Workers : worker[w] \in {"init", "dead"}
                       /\ hub \in {"wait", "join"}

\* Without a valid ENCRYPTION_KEY no execution ever returns, not even one whose context is
\* cancelled: workerGroup.Wait() waits for every worker, and each is gone.
THEOREM NoReturnWithoutKey ==
  ASSUME Workers # {}
  PROVE  Spec => [](~keyValid => hub \notin {"final", "header", "returned"})
<1>1. Init => KeyInv
  BY DEF Init, KeyInv
<1>2. ASSUME TypeOK, KeyInv, [Next]_vars PROVE KeyInv'
  <2>1. ASSUME NEW v \in Workers, Work(v) PROVE KeyInv'
    <3>1. UNCHANGED <<keyValid, hub>>
      BY <2>1 DEF Work, WorkerStart, Receive, WorkerExit, GetTask, GetTaskFails, MarkInProgress,
                  MarkInProgressFails, Finish, Signal, hubVars, contextVars
    <3>2. CASE worker[v] \in {"init", "dead"} /\ ~keyValid
      <4>1. WorkerStart(v)
        BY <2>1, <3>2 DEF Work, Receive, WorkerExit, GetTask, GetTaskFails, MarkInProgress,
                          MarkInProgressFails, Finish, Signal, Moves
      <4>2. worker' = [worker EXCEPT ![v] = "dead"]
        BY <3>2, <4>1 DEF WorkerStart, Moves
      <4>3. \A w \in Workers : worker'[w] \in {worker[w], "dead"}
        BY <1>2, <4>2 DEF TypeOK
      <4> QED
        BY <1>2, <3>1, <4>3 DEF KeyInv
    <3> QED
      BY <1>2, <3>1, <3>2 DEF KeyInv
  <2>2. CASE Hub
    <3>1. UNCHANGED <<worker, keyValid>>
      BY <2>2 DEF Hub, HubFinished, HubCancelled, HubJoin, HubFinal, HubHeader, workerVars, contextVars
    <3>2. ASSUME ~keyValid PROVE hub' \in {"wait", "join"}
      <4>1. ~HubJoin /\ ~HubFinal /\ ~HubHeader
        BY <1>2, <3>2 DEF KeyInv, HubJoin, HubFinal, HubHeader
      <4> QED
        BY <2>2, <4>1 DEF Hub, HubFinished, HubCancelled
    <3> QED
      BY <1>2, <3>1, <3>2 DEF KeyInv
  <2>3. CASE Dispatch
    <3>1. UNCHANGED <<worker, keyValid, hub>>
      BY <2>3 DEF Dispatch, ScanFails, ScanFindsAllFinished, Scan, Send, TakeSignal, Tick,
                  DispatcherCancelled, workerVars, hubVars, contextVars
    <3> QED
      BY <1>2, <3>1 DEF KeyInv
  <2>4. CASE Cancel \/ UNCHANGED vars \/ \E r \in goWrites : GoWrite(r)
    <3>1. UNCHANGED <<worker, keyValid, hub>>
      BY <2>4 DEF Cancel, GoWrite, workerVars, hubVars, contextVars, vars
    <3> QED
      BY <1>2, <3>1 DEF KeyInv
  <2> QED
    BY <1>2, <2>1, <2>2, <2>3, <2>4 DEF Next
<1>3. TypeOK /\ KeyInv /\ [Next]_vars => KeyInv'
  BY <1>2
<1>4. KeyInv => (~keyValid => hub \notin {"final", "header", "returned"})
  BY DEF KeyInv
<1> QED
  BY <1>1, <1>3, <1>4, TypeCorrect, PTL DEF Spec

-----------------------------------------------------------------------------
(***************************************************************************)
(* ExecuteActions implements TaskGraph.                                    *)
(***************************************************************************)
LEMMA RefinesInit == Init => TG!Init
<1> SUFFICES ASSUME Init PROVE TG!Init
  OBVIOUS
<1>1. PICK done \in SUBSET Tasks : ranOk = done
  BY InitStarted
<1>2. done \in SUBSET Tasks
  OBVIOUS
<1>3. PhaseOf = "open"
  BY DEF Init, PhaseOf
<1> QED
  BY <1>1, <1>2, <1>3 DEF Init, TG!Init, TG!InitWith

\* A step of the dispatcher settles the execution, blocks tasks, or changes
\* nothing that TaskGraph sees.
LEMMA RefinesDispatch ==
  ASSUME TypeOK, RecordInv, ControlInv, ControlInv', Dispatch
  PROVE  [TG!Next]_(TG!vars)
<1> USE DEF storeVars, channelVars, workerVars, hubVars, contextVars, historyVars
<1>1. ~allFinished /\ closedBy # "finished"
  BY DEF Dispatch, ScanFails, ScanFindsAllFinished, Scan, Send, TakeSignal, Tick,
         DispatcherCancelled, ControlInv
<1>2. UNCHANGED <<closedBy, hub>>
  BY DEF Dispatch, ScanFails, ScanFindsAllFinished, Scan, Send, TakeSignal, Tick,
         DispatcherCancelled
<1>3. ~cancelled => PhaseOf = "open"
  BY <1>1 DEF PhaseOf, ControlInv, TypeOK
<1>4. CASE ScanFindsAllFinished
  <2>1. AllAccounted
    BY <1>4, AllFinished, FinishedAccounted DEF ScanFindsAllFinished, RecordInv
  <2>2. PhaseOf = "open" /\ PhaseOf' = "settled"
    BY <1>2, <1>3, <1>4 DEF ScanFindsAllFinished, CallMaySucceed, PhaseOf
  <2>3. TG!Settle
    BY <1>4, <2>1, <2>2 DEF ScanFindsAllFinished, AllAccounted, TG!Settle
  <2> QED
    BY <2>3 DEF TG!Next
<1>5. CASE Scan
  <2>1. PhaseOf = "open" /\ PhaseOf' = "open"
    BY <1>2, <1>3, <1>5 DEF Scan, CallMaySucceed, PhaseOf
  <2>2. /\ TasksToBlock(details) \in SUBSET Tasks
        /\ \A t \in TasksToBlock(details) : Deps[t] \cap (ranBad \cup blocked) # {}
    BY BlockCause DEF RecordInv
  <2>3. TG!Block
    BY <1>5, <2>1, <2>2 DEF Scan, TG!Block
  <2> QED
    BY <2>3 DEF TG!Next
<1>6. CASE ~ScanFindsAllFinished /\ ~Scan
  <2>1. UNCHANGED <<ranOk, ranBad, blocked, allFinished>>
    BY <1>6 DEF Dispatch, ScanFails, Send, TakeSignal, Tick, DispatcherCancelled
  <2> QED
    BY <1>2, <2>1 DEF TG!vars, PhaseOf
<1> QED
  BY <1>4, <1>5, <1>6

\* A worker's run of a plugin is one of TaskGraph; its other steps are not seen.
LEMMA RefinesWork ==
  ASSUME TypeOK, DispatchInv, ControlInv, NEW w \in Workers, Work(w)
  PROVE  [TG!Next]_(TG!vars)
<1> USE DEF channelVars, hubVars, historyVars, Moves
<1>1. UNCHANGED <<closedBy, allFinished, hub>> /\ worker[w] # "exited"
  BY DEF Work, WorkerStart, Receive, WorkerExit, GetTask, GetTaskFails,
         MarkInProgress, MarkInProgressFails, Finish, Signal
<1>2. PhaseOf' = PhaseOf /\ PhaseOf # "closed"
  BY <1>1 DEF PhaseOf, ControlInv
<1>3. CASE Finish(w)
  <2>1. PICK t \in Tasks : t = inHand[w] /\ Deps[t] \subseteq ranOk
    BY <1>3 DEF Finish, TypeOK, Busy, DispatchInv, DepsRan
  <2>2. TG!Runnable(t)
    BY <1>2, <2>1 DEF TG!Runnable
  <2>3. \/ ranOk' = ranOk \cup {t} /\ ranBad' = ranBad
        \/ ranOk' = ranOk /\ ranBad' = ranBad \cup {t}
    BY <1>3, <2>1 DEF Finish
  <2>4. TG!Succeed(t) \/ TG!Fail(t)
    BY <1>2, <1>3, <2>2, <2>3 DEF Finish, TG!Succeed, TG!Fail
  <2> QED
    BY <2>4 DEF TG!Next
<1>4. CASE ~Finish(w)
  <2>1. UNCHANGED <<ranOk, ranBad, blocked>>
    BY <1>4 DEF Work, WorkerStart, Receive, WorkerExit, GetTask, GetTaskFails,
                MarkInProgress, MarkInProgressFails, Signal
  <2> QED
    BY <1>2, <2>1 DEF TG!vars
<1> QED
  BY <1>3, <1>4

\* The hub abandons the execution, closes it, or is not seen.
LEMMA RefinesHub ==
  ASSUME TypeOK, ControlInv, Hub
  PROVE  [TG!Next]_(TG!vars)
<1> USE DEF channelVars, historyVars
<1>1. UNCHANGED <<ranOk, ranBad, blocked>>
  BY DEF Hub, HubFinished, HubCancelled, HubJoin, HubFinal, HubHeader
<1>2. CASE HubFinished
  <2>1. PhaseOf = "settled" /\ PhaseOf' = "settled"
    BY <1>2 DEF HubFinished, PhaseOf, ControlInv
  <2> QED
    BY <1>1, <2>1 DEF TG!vars
<1>3. CASE HubCancelled
  <2>1. PhaseOf \in {"open", "settled"} /\ PhaseOf' = "abandoned"
    BY <1>3 DEF HubCancelled, PhaseOf, ControlInv
  <2> QED
    BY <1>1, <2>1 DEF TG!Abandon, TG!Next
<1>4. CASE HubJoin
  <2>1. PhaseOf \in {"settled", "abandoned"} /\ PhaseOf' = "closed"
    BY <1>4 DEF HubJoin, PhaseOf, ControlInv, TypeOK
  <2> QED
    BY <1>1, <2>1 DEF TG!Close, TG!Next
<1>5. CASE HubFinal \/ HubHeader
  <2>1. PhaseOf = "closed" /\ PhaseOf' = "closed"
    BY <1>5 DEF HubFinal, HubHeader, PhaseOf
  <2> QED
    BY <1>1, <2>1 DEF TG!vars
<1> QED
  BY <1>2, <1>3, <1>4, <1>5 DEF Hub

\* Every behaviour of ExecuteActions is one that TaskGraph allows: plugins run
\* in dependency order, tasks are blocked for a cause, the execution settles
\* only when every task has run or is blocked, and nothing runs after it closes.
THEOREM Refinement == Spec => ImplementsTaskGraph
<1>1. TypeOK /\ IInv /\ IInv' /\ [Next]_vars => [TG!Next]_(TG!vars)
  <2> SUFFICES ASSUME TypeOK, IInv, IInv', [Next]_vars
               PROVE  [TG!Next]_(TG!vars)
    OBVIOUS
  <2>1. CASE Cancel \/ UNCHANGED vars \/ \E r \in goWrites : GoWrite(r)
    <3>1. UNCHANGED <<ranOk, ranBad, blocked, closedBy, allFinished, hub>>
      BY <2>1 DEF Cancel, GoWrite, vars, channelVars, hubVars, historyVars
    <3> QED
      BY <3>1 DEF TG!vars, PhaseOf
  <2> QED
    BY <2>1, RefinesDispatch, RefinesWork, RefinesHub DEF Next, IInv
<1> QED
  BY <1>1, RefinesInit, Invariance, PTL DEF Spec, TG!Spec, ImplementsTaskGraph
=============================================================================
