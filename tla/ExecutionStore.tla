--------------------------- MODULE ExecutionStore ---------------------------
(***************************************************************************)
(* The execution record kept in etcd (_archive/store): one details key     *)
(* holding a TaskDetail for each task, and one header key.  The operators  *)
(* are the store's operations as functions of the record; the modules that *)
(* use them hold the record itself and decide who calls what, and when.    *)
(*                                                                         *)
(* Operators named Mut... are deliberately wrong variants of the one that  *)
(* follows; the properties that must notice them are named in PROJECT.json.*)
(*                                                                         *)
(* Of a TaskDetail, status and "Error is set" are kept: they are what the  *)
(* engine's decisions read.  Times, results and iterations are left out.   *)
(***************************************************************************)
CONSTANTS Tasks,    \* IDs of the tasks of the execution
          Deps      \* dependsOn.tasks of each task

ASSUME DepsAssumption == Deps \in [Tasks -> SUBSET Tasks]

Statuses == {"pending", "in-progress", "completed", "failed", "skipped", "blocked"}

Detail == [status : Statuses, err : BOOLEAN]

HeaderStatuses == {"in-progress", "completed", "failed"}

PendingDetail == [status |-> "pending", err |-> FALSE]
CompletedDetail == [status |-> "completed", err |-> FALSE]

\* InitializeExecution, and the record a restart leaves behind: a task that an
\* earlier run completed stays completed, every other task is pending.
InitialDetails(done) ==
  [t \in Tasks |-> IF t \in done THEN CompletedDetail ELSE PendingDetail]

\* UpdateTaskInDetails (UpdateTask is the same): under the store's mutex, read
\* the whole record, replace one task's detail, write it back.
WithDetail(details, t, detail) == [details EXCEPT ![t] = detail]

\* The statuses the dispatcher counts as finished.
Finished(status) == status \notin {"pending", "in-progress"}

FinishedTasks(details) == {t \in Tasks : Finished(details[t].status)}

MutDepsMet(details, t) ==   \* a dependency in progress will do
  \A d \in Deps[t] : details[d].status \notin {"pending", "failed", "blocked"}

MutDepFailed(details, t) ==   \* an unfinished dependency counts as failed
  \E d \in Deps[t] : details[d].status \notin {"pending", "completed"}

\* The dispatcher's two questions about a task's dependencies.  The loop over
\* them stops at the first failed one, so a failed dependency decides first.
DepsMet(details, t) ==
  \A d \in Deps[t] : details[d].status \in {"completed", "skipped"}

DepFailed(details, t) ==
  \E d \in Deps[t] : details[d].status \in {"failed", "blocked"}

PendingTasks(details) == {t \in Tasks : details[t].status = "pending"}

TasksToBlock(details) == {t \in PendingTasks(details) : DepFailed(details, t)}

MutReadyTasks(details) == {t \in Tasks : DepsMet(details, t)}   \* pending or not

ReadyTasks(details) == {t \in PendingTasks(details) : DepsMet(details, t)}

BlockedDetail == [status |-> "blocked", err |-> TRUE]

\* GetTask then the in-progress update: an Error the record already carries
\* travels with it.
StartedDetail(err) == [status |-> "in-progress", err |-> err]

MutFinalDetail(err, succeeded) ==   \* the plugin's error is not looked at
  IF err THEN [status |-> "failed", err |-> TRUE] ELSE CompletedDetail

\* finalize: an Error left in the record by an earlier run fails this one too.
FinalDetail(err, succeeded) ==
  IF succeeded /\ ~err THEN CompletedDetail
                       ELSE [status |-> "failed", err |-> TRUE]

\* The final verdict of ExecuteActions, computed from the record it re-reads.
FinalSuccess(details) ==
  \A t \in Tasks : details[t].status \notin {"failed", "blocked"}

HeaderOf(success) == IF success THEN "completed" ELSE "failed"
=============================================================================
