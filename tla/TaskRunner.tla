----------------------------- MODULE TaskRunner -----------------------------
(***************************************************************************)
(* One call of Runner.ExecuteActions (_archive/taskrunner/runner.go): the  *)
(* hub, the dispatcher goroutine, the worker goroutines and the goroutines *)
(* started by "go execStore.UpdateTask...", over the record in etcd.       *)
(* The call is past detectDependencyCycle (module DependencyCheck) and the *)
(* empty-list return, so Tasks is a non-empty set of tasks whose           *)
(* dependencies are among them.                                            *)
(*                                                                         *)
(* Operators named Mut... are deliberately wrong variants of the action    *)
(* that follows; no specification uses them.                               *)
(***************************************************************************)
EXTENDS ExecutionStore, Dependencies, Naturals, Sequences, FiniteSets

CONSTANTS Workers,      \* the worker goroutines (numWorkers of them)
          NoTask,       \* "no task in hand"
          KeyChoices,   \* can NewService(ENCRYPTION_KEY) succeed, fail, or both
          StoreFaults,  \* may an etcd call of a live context fail
          MayCancel,    \* may the caller cancel ctx
          Resumable,    \* sets of tasks that a restart may find completed
          MaxWaiting    \* bound: different "go UpdateTask" writes that wait at one time

ASSUME TasksAssumption == IsFiniteSet(Tasks) /\ Tasks # {}
ASSUME NoTaskAssumption == NoTask \notin Tasks
ASSUME ChoicesAssumption == /\ KeyChoices \subseteq BOOLEAN
                            /\ StoreFaults \in BOOLEAN
                            /\ MayCancel \in BOOLEAN
                            /\ Resumable \subseteq SUBSET Tasks
                            /\ MaxWaiting \in Nat

VARIABLES
  details,      \* the details key: a TaskDetail for each task
  header,       \* status in the header key
  goWrites,     \* UpdateTask goroutines that have not reached the store yet
  queue,        \* tasksToRunChan
  closedBy,     \* why the hub closed tasksToRunChan, "none" while open
  signals,      \* number of values in workerDoneSignal
  allFinished,  \* does allFinishedChan hold a value
  dispatcher,   \* where the dispatcher goroutine is
  toSend,       \* readyTasks of the batch the dispatcher is sending
  worker,       \* where each worker goroutine is
  inHand,       \* the task each worker has received
  inHandErr,    \* is Error set in the detail the worker has read
  hub,          \* where ExecuteActions itself is
  verdict,      \* what ExecuteActions is about to return
  cancelled,    \* ctx.Done() is closed
  keyValid,     \* crypto.NewService accepts ENCRYPTION_KEY
  ranOk,        \* history: tasks whose plugin has succeeded
  ranBad,       \* history: tasks one of whose runs has failed
  blocked       \* history: tasks the dispatcher has decided to block

storeVars == <<details, header, goWrites>>
channelVars == <<queue, closedBy, signals, allFinished>>
dispatcherVars == <<dispatcher, toSend>>
workerVars == <<worker, inHand, inHandErr>>
hubVars == <<hub, verdict>>
contextVars == <<cancelled, keyValid>>
historyVars == <<ranOk, ranBad, blocked>>

vars == <<storeVars, channelVars, dispatcherVars, workerVars, hubVars,
          contextVars, historyVars>>

Capacity == Cardinality(Tasks)   \* of tasksToRunChan and workerDoneSignal

\* The "go UpdateTask" goroutines are told apart by what they write and by the
\* call that started them (bound: of identical ones waiting together, one).
BlockCalls == {"UpdateTask", "UpdateTaskInDetails"}
Calls == BlockCalls \cup {"worker", "restart"}
GoWrites == [task : Tasks, detail : Detail, by : Calls]

\* RestartFSM sends each task's reset record once more from a goroutine of its
\* own before it calls ExecuteActions; those writes may still be on their way.
RestartWrites(done) ==
  {[task |-> t, detail |-> InitialDetails(done)[t], by |-> "restart"] : t \in Tasks}

Busy == {"got", "have", "run"}   \* a task is in the worker's hand

TypeOK ==
  /\ details \in [Tasks -> Detail]
  /\ header \in HeaderStatuses
  /\ goWrites \subseteq GoWrites
  /\ queue \in Seq(Tasks) /\ Len(queue) <= Capacity
  /\ closedBy \in {"none", "finished", "cancel"}
  /\ signals \in 0..Capacity
  /\ allFinished \in BOOLEAN
  /\ dispatcher \in {"scan", "send", "wait", "done", "panic"}
  /\ toSend \subseteq Tasks
  /\ worker \in [Workers -> {"init", "idle", "signal", "exited", "dead"} \cup Busy]
  /\ inHand \in [Workers -> Tasks \cup {NoTask}]
  /\ inHandErr \in [Workers -> BOOLEAN]
  /\ \A w \in Workers : worker[w] \in Busy => inHand[w] \in Tasks
  /\ hub \in {"wait", "join", "final", "header", "returned"}
  /\ verdict \in {"none", "success", "failure", "error"}
  /\ cancelled \in BOOLEAN
  /\ keyValid \in BOOLEAN
  /\ ranOk \subseteq Tasks
  /\ ranBad \subseteq Tasks
  /\ blocked \subseteq Tasks

\* The record that InitializeExecution or RestartFSM hands over.
Started(done, writes) == /\ details = InitialDetails(done)
                         /\ ranOk = done
                         /\ goWrites = writes

Init ==
  /\ Started({}, {}) \/ \E done \in Resumable : Started(done, RestartWrites(done))
  /\ header = "in-progress"
  /\ queue = <<>> /\ closedBy = "none"
  /\ signals = 0 /\ allFinished = FALSE
  /\ dispatcher = "scan" /\ toSend = {}
  /\ worker = [w \in Workers |-> "init"]
  /\ inHand = [w \in Workers |-> NoTask]
  /\ inHandErr = [w \in Workers |-> FALSE]
  /\ hub = "wait" /\ verdict = "none"
  /\ cancelled = FALSE /\ keyValid \in KeyChoices
  /\ ranBad = {} /\ blocked = {}

(***************************************************************************)
(* Calls on etcd.  With a live context a call succeeds, or fails if the    *)
(* store may; with a cancelled one it fails.  A write whose reply is an    *)
(* error may have taken effect all the same.                               *)
(***************************************************************************)
CallMaySucceed == ~cancelled
CallMayFail == StoreFaults \/ cancelled

\* "go UpdateTask": the goroutines that wait for the store, within the bound.
Different(writes) == {[task |-> r.task, detail |-> r.detail] : r \in writes}

Spawned(writes) == /\ Cardinality(Different(goWrites \cup writes)) <= MaxWaiting
                   /\ goWrites' = goWrites \cup writes

Written(t, detail) == details' = WithDetail(details, t, detail)
MaybeWritten(t, detail) == Written(t, detail) \/ UNCHANGED details

Alive == dispatcher # "panic"    \* a panic in a goroutine ends the process
-----------------------------------------------------------------------------
(***************************************************************************)
(* The dispatcher.                                                         *)
(***************************************************************************)

\* GetAllTasks fails: try again at the next signal or tick.
ScanFails ==
  /\ dispatcher = "scan"
  /\ CallMayFail
  /\ dispatcher' = "wait"
  /\ UNCHANGED <<storeVars, channelVars, toSend, workerVars, hubVars,
                 contextVars, historyVars>>

\* Every task of the snapshot is finished: tell the hub and return.
ScanFindsAllFinished ==
  /\ dispatcher = "scan"
  /\ CallMaySucceed
  /\ Cardinality(FinishedTasks(details)) >= Cardinality(Tasks)
  /\ allFinished' = TRUE
  /\ dispatcher' = "done"
  /\ UNCHANGED <<storeVars, queue, closedBy, signals, toSend, workerVars,
                 hubVars, contextVars, historyVars>>

MutScan ==   \* tasks are dispatched by the first scan only, and none is blocked
  /\ dispatcher = "scan"
  /\ CallMaySucceed
  /\ Cardinality(FinishedTasks(details)) < Cardinality(Tasks)
  /\ toSend' = {t \in ReadyTasks(details) : Deps[t] = {}}
  /\ dispatcher' = IF toSend' = {} THEN "wait" ELSE "send"
  /\ UNCHANGED <<storeVars, channelVars, workerVars, hubVars, contextVars,
                 historyVars>>

\* Otherwise block, asynchronously and twice over, every pending task with a
\* failed dependency, and start a batch with every pending task whose
\* dependencies are met, unless IncrementBatchCounter fails.
Scan ==
  /\ dispatcher = "scan"
  /\ CallMaySucceed
  /\ Cardinality(FinishedTasks(details)) < Cardinality(Tasks)
  /\ Spawned([task : TasksToBlock(details), detail : {BlockedDetail},
              by : BlockCalls])
  /\ blocked' = blocked \cup TasksToBlock(details)
  /\ \/ /\ ReadyTasks(details) # {}
        /\ toSend' = ReadyTasks(details)
        /\ dispatcher' = "send"
     \/ /\ ReadyTasks(details) = {} \/ CallMayFail
        /\ dispatcher' = "wait"
        /\ UNCHANGED toSend
  /\ UNCHANGED <<details, header, channelVars, workerVars, hubVars,
                 contextVars, ranOk, ranBad>>

MutSend(t) ==   \* the channel's capacity is not respected
  /\ dispatcher = "send"
  /\ t \in toSend
  /\ toSend' = toSend \ {t}
  /\ queue' = Append(queue, t)
  /\ dispatcher' = IF closedBy # "none" THEN "panic"
                   ELSE IF toSend = {t} THEN "wait" ELSE "send"
  /\ UNCHANGED <<storeVars, closedBy, signals, allFinished, workerVars,
                 hubVars, contextVars, historyVars>>

\* The non-blocking send of one ready task: dropped when the channel is full,
\* a panic when the hub has closed it.
Send(t) ==
  /\ dispatcher = "send"
  /\ t \in toSend
  /\ toSend' = toSend \ {t}
  /\ queue' = IF closedBy = "none" /\ Len(queue) < Capacity
              THEN Append(queue, t) ELSE queue
  /\ dispatcher' = IF closedBy # "none" THEN "panic"
                   ELSE IF toSend = {t} THEN "wait" ELSE "send"
  /\ UNCHANGED <<storeVars, closedBy, signals, allFinished, workerVars,
                 hubVars, contextVars, historyVars>>

\* The three branches of the dispatcher's select.
TakeSignal ==
  /\ dispatcher = "wait"
  /\ signals > 0
  /\ signals' = signals - 1
  /\ dispatcher' = "scan"
  /\ UNCHANGED <<storeVars, queue, closedBy, allFinished, toSend, workerVars,
                 hubVars, contextVars, historyVars>>

MutTick == FALSE   \* the dispatcher has no ticker

Tick ==
  /\ dispatcher = "wait"
  /\ dispatcher' = "scan"
  /\ UNCHANGED <<storeVars, channelVars, toSend, workerVars, hubVars,
                 contextVars, historyVars>>

DispatcherCancelled ==
  /\ dispatcher = "wait"
  /\ cancelled
  /\ dispatcher' = "done"
  /\ UNCHANGED <<storeVars, channelVars, toSend, workerVars, hubVars,
                 contextVars, historyVars>>

Dispatch == \/ ScanFails
            \/ ScanFindsAllFinished
            \/ Scan
            \/ \E t \in Tasks : Send(t)
            \/ TakeSignal
            \/ Tick
            \/ DispatcherCancelled
-----------------------------------------------------------------------------
(***************************************************************************)
(* The workers.                                                            *)
(***************************************************************************)
Moves(w, from, to) == /\ worker[w] = from
                      /\ worker' = [worker EXCEPT ![w] = to]

\* Without a key the worker returns before "defer wg.Done()" is reached.
WorkerStart(w) ==
  /\ Moves(w, "init", IF keyValid THEN "idle" ELSE "dead")
  /\ UNCHANGED <<storeVars, channelVars, dispatcherVars, inHand, inHandErr,
                 hubVars, contextVars, historyVars>>

\* A closed channel still hands out what it holds.
Receive(w) ==
  /\ Moves(w, "idle", "got")
  /\ queue # <<>>
  /\ queue' = Tail(queue)
  /\ inHand' = [inHand EXCEPT ![w] = Head(queue)]
  /\ UNCHANGED <<storeVars, closedBy, signals, allFinished, dispatcherVars,
                 inHandErr, hubVars, contextVars, historyVars>>

WorkerExit(w) ==
  /\ Moves(w, "idle", "exited")
  /\ (closedBy # "none" /\ queue = <<>>) \/ cancelled
  /\ UNCHANGED <<storeVars, channelVars, dispatcherVars, inHand, inHandErr,
                 hubVars, contextVars, historyVars>>

GetTask(w) ==
  /\ CallMaySucceed
  /\ Moves(w, "got", "have")
  /\ inHandErr' = [inHandErr EXCEPT ![w] = details[inHand[w]].err]
  /\ UNCHANGED <<storeVars, channelVars, dispatcherVars, inHand, hubVars,
                 contextVars, historyVars>>

\* "continue": the task is dropped and nobody is told.
GetTaskFails(w) ==
  /\ CallMayFail
  /\ Moves(w, "got", "idle")
  /\ inHand' = [inHand EXCEPT ![w] = NoTask]
  /\ UNCHANGED <<storeVars, channelVars, dispatcherVars, inHandErr, hubVars,
                 contextVars, historyVars>>

\* Mark the task in progress, whatever its status has become, and send the
\* same detail once more from a goroutine of its own.
MarkInProgress(w) ==
  /\ CallMaySucceed
  /\ Moves(w, "have", "run")
  /\ Written(inHand[w], StartedDetail(inHandErr[w]))
  /\ Spawned({[task |-> inHand[w], detail |-> StartedDetail(inHandErr[w]),
               by |-> "worker"]})
  /\ UNCHANGED <<header, channelVars, dispatcherVars, inHand, inHandErr,
                 hubVars, contextVars, historyVars>>

MarkInProgressFails(w) ==
  /\ CallMayFail
  /\ Moves(w, "have", "idle")
  /\ MaybeWritten(inHand[w], StartedDetail(inHandErr[w]))
  /\ inHand' = [inHand EXCEPT ![w] = NoTask]
  /\ inHandErr' = [inHandErr EXCEPT ![w] = FALSE]
  /\ UNCHANGED <<header, goWrites, channelVars, dispatcherVars, hubVars,
                 contextVars, historyVars>>

\* Resolve the context, run the plugin, and write the final detail twice; an
\* error of the first write is only logged.
Finish(w) ==
  /\ Moves(w, "run", "signal")
  /\ \E succeeded \in BOOLEAN :
       LET t == inHand[w]
           final == FinalDetail(inHandErr[w], succeeded)
       IN  /\ \/ Written(t, final)
              \/ CallMayFail /\ UNCHANGED details
           /\ Spawned({[task |-> t, detail |-> final, by |-> "worker"]})
           /\ ranOk' = IF succeeded THEN ranOk \cup {t} ELSE ranOk
           /\ ranBad' = IF succeeded THEN ranBad ELSE ranBad \cup {t}
  /\ inHand' = [inHand EXCEPT ![w] = NoTask]
  /\ inHandErr' = [inHandErr EXCEPT ![w] = FALSE]
  /\ UNCHANGED <<header, channelVars, dispatcherVars, hubVars, contextVars,
                 blocked>>

\* Wake the dispatcher: blocks while workerDoneSignal is full, unless cancelled.
Signal(w) ==
  /\ Moves(w, "signal", "idle")
  /\ \/ signals < Capacity /\ signals' = signals + 1
     \/ cancelled /\ UNCHANGED signals
  /\ UNCHANGED <<storeVars, queue, closedBy, allFinished, dispatcherVars,
                 inHand, inHandErr, hubVars, contextVars, historyVars>>

Work(w) == \/ WorkerStart(w)
           \/ Receive(w)
           \/ WorkerExit(w)
           \/ GetTask(w)
           \/ GetTaskFails(w)
           \/ MarkInProgress(w)
           \/ MarkInProgressFails(w)
           \/ Finish(w)
           \/ Signal(w)

\* A "go execStore.UpdateTask..." goroutine gets the store's mutex.
GoWrite(r) ==
  /\ r \in goWrites
  /\ goWrites' = goWrites \ {r}
  /\ \/ Written(r.task, r.detail)
     \/ CallMayFail /\ UNCHANGED details
  /\ UNCHANGED <<header, channelVars, dispatcherVars, workerVars, hubVars,
                 contextVars, historyVars>>
-----------------------------------------------------------------------------
(***************************************************************************)
(* The hub: ExecuteActions itself.                                         *)
(***************************************************************************)

MutHubFinished ==   \* the hub listens to the workers' channel
  /\ hub = "wait"
  /\ signals > 0
  /\ hub' = "join"
  /\ signals' = signals - 1
  /\ closedBy' = "finished"
  /\ UNCHANGED <<storeVars, queue, allFinished, dispatcherVars, workerVars,
                 verdict, contextVars, historyVars>>

\* select on allFinishedChan and ctx.Done(), then close(tasksToRunChan).
HubFinished ==
  /\ hub = "wait"
  /\ allFinished
  /\ hub' = "join"
  /\ allFinished' = FALSE
  /\ closedBy' = "finished"
  /\ UNCHANGED <<storeVars, queue, signals, dispatcherVars, workerVars,
                 verdict, contextVars, historyVars>>

HubCancelled ==
  /\ hub = "wait"
  /\ cancelled
  /\ hub' = "join"
  /\ closedBy' = "cancel"
  /\ UNCHANGED <<storeVars, queue, signals, allFinished, dispatcherVars,
                 workerVars, verdict, contextVars, historyVars>>

MutHubJoin ==   \* the hub does not wait for the workers
  /\ hub = "join"
  /\ hub' = "final"
  /\ UNCHANGED <<storeVars, channelVars, dispatcherVars, workerVars, verdict,
                 contextVars, historyVars>>

\* workerGroup.Wait(): a worker that died on its key is never counted down.
HubJoin ==
  /\ hub = "join"
  /\ \A w \in Workers : worker[w] = "exited"
  /\ hub' = "final"
  /\ UNCHANGED <<storeVars, channelVars, dispatcherVars, workerVars, verdict,
                 contextVars, historyVars>>

HubFinal ==
  /\ hub = "final"
  /\ \/ /\ CallMaySucceed
        /\ verdict' = IF FinalSuccess(details) THEN "success" ELSE "failure"
        /\ hub' = "header"
     \/ /\ CallMayFail
        /\ verdict' = "error"
        /\ hub' = "returned"
  /\ UNCHANGED <<storeVars, channelVars, dispatcherVars, workerVars,
                 contextVars, historyVars>>

\* GetHeader and UpdateHeader: a failure of either is only logged.
HubHeader ==
  /\ hub = "header"
  /\ \/ header' = HeaderOf(verdict = "success")
     \/ CallMayFail /\ UNCHANGED header
  /\ hub' = "returned"
  /\ UNCHANGED <<details, goWrites, channelVars, dispatcherVars, workerVars,
                 verdict, contextVars, historyVars>>

Hub == HubFinished \/ HubCancelled \/ HubJoin \/ HubFinal \/ HubHeader

Cancel ==
  /\ MayCancel
  /\ ~cancelled
  /\ cancelled' = TRUE
  /\ UNCHANGED <<storeVars, channelVars, dispatcherVars, workerVars, hubVars,
                 keyValid, historyVars>>
-----------------------------------------------------------------------------
Next == /\ Alive
        /\ \/ Dispatch
           \/ \E w \in Workers : Work(w)
           \/ \E r \in goWrites : GoWrite(r)
           \/ Hub
           \/ Cancel

Spec == Init /\ [][Next]_vars

(***************************************************************************)
(* Every goroutine that can run runs on.  A select with several ready      *)
(* branches picks one at random, and a full channel serves its senders in  *)
(* the order they came: hence strong fairness for the branch that takes a  *)
(* signal and for each worker's receive and send.                          *)
(***************************************************************************)
Step(A) == Alive /\ A

Fairness ==
  /\ WF_vars(Step(Dispatch))
  /\ SF_vars(Step(TakeSignal))
  /\ \A w \in Workers : /\ WF_vars(Step(Work(w)))
                        /\ SF_vars(Step(Receive(w)))
                        /\ SF_vars(Step(Signal(w)))
  /\ WF_vars(Step(\E r \in goWrites : GoWrite(r)))
  /\ WF_vars(Step(Hub))

FairSpec == Spec /\ Fairness
-----------------------------------------------------------------------------
(***************************************************************************)
(* Safety.                                                                 *)
(***************************************************************************)

\* A plugin runs only when every task its task depends on has already run
\* successfully, however stale the snapshot that queued it, however often the
\* task was queued, and whatever a late write has done to the record since
\* (README.md: dependsOn tasks "must be completed before this task can run").
DependenciesRespected ==
  \A w \in Workers : worker[w] = "run" => Deps[inHand[w]] \subseteq ranOk

\* The record never makes a run up: a task is recorded completed only if its
\* plugin succeeded, failed or with an Error only if a run of it failed or it
\* was blocked, and blocked only if the dispatcher decided so.
HonestDetail(t, d) ==
  /\ d.status = "completed" => t \in ranOk
  /\ d.status = "failed" => t \in ranBad \cup blocked
  /\ d.status = "blocked" => t \in blocked
  /\ d.status # "skipped"
  /\ d.err => t \in ranBad \cup blocked

RecordsAreHonest == \A t \in Tasks : HonestDetail(t, details[t])

\* Whatever verdict is recorded is earned: failed only after a run that failed
\* (every blocked task goes back to one), and either verdict only when every
\* task out of reach of the failed ones, downstream of none, has succeeded.
OutOfReachSucceeded ==
  \A S \in SUBSET Tasks :
    ranBad \subseteq S /\ Downstream(Tasks, Deps, S) => Tasks \ S \subseteq ranOk

HeaderIsEarned ==
  /\ header = "failed" => ranBad # {}
  /\ header # "in-progress" => OutOfReachSucceeded

\* The only way ExecuteActions brings the process down, the dispatcher's send
\* on the channel the hub has closed, needs a cancelled context.
PanicOnlyOnCancel == dispatcher = "panic" => cancelled /\ closedBy = "cancel"

\* A task is at rest when it is recorded completed and nothing that could run
\* it or rewrite its record is under way.  Then nothing ever disturbs it: that
\* is what lets a restart trust the record it resumes from.
AtRest(t) ==
  /\ details[t] = CompletedDetail
  /\ \A r \in goWrites : r.task = t => r.detail = CompletedDetail
  /\ t \notin toSend
  /\ \A i \in 1..Len(queue) : queue[i] # t
  /\ \A w \in Workers : inHand[w] # t

NoRepeat == [][\A t \in Tasks : AtRest(t) => AtRest(t)']_vars

(***************************************************************************)
(* The promise of TaskGraph is kept: an execution is open until its        *)
(* dispatcher finds every task finished or its hub gives up, and closed    *)
(* once the workers have been joined.                                      *)
(***************************************************************************)
PhaseOf == IF hub \in {"final", "header", "returned"} THEN "closed"
           ELSE IF closedBy = "cancel" THEN "abandoned"
           ELSE IF allFinished \/ closedBy = "finished" THEN "settled"
           ELSE "open"

TG == INSTANCE TaskGraph WITH ok <- ranOk, bad <- ranBad, blocked <- blocked,
                              phase <- PhaseOf

ImplementsTaskGraph == TG!Spec
-----------------------------------------------------------------------------
(***************************************************************************)
(* Liveness, under FairSpec.                                               *)
(***************************************************************************)

\* A task that could be dispatched does not stay pending: a task dropped from
\* a full channel is picked up by a later scan (runner.go, line 214).
NoStarvation ==
  \A t \in Tasks : []<>~(t \in ReadyTasks(details))

\* Blocking is asynchronous and no signal follows it, yet it reaches every
\* task downstream of a failure, one scan after another.
FailurePropagates ==
  \A t \in Tasks : []<>~(t \in TasksToBlock(details))

\* Once every task stays finished, the dispatcher notices, although the last
\* signal may have come before the last write.
CompletionNoticed ==
  <>[](FinishedTasks(details) = Tasks) => <>(hub # "wait")
-----------------------------------------------------------------------------
(***************************************************************************)
(* What the repository's documents say, and the code does not do.          *)
(***************************************************************************)

\* models.go: "StatusCompleted indicates successful completion."
CompletedMeansSuccess == header = "completed" => Tasks \subseteq ranOk

\* README.md, Result: the engine returns a final true/false success status.
ReturnsEventually == <>(hub = "returned")
=============================================================================
