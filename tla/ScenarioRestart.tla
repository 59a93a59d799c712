--------------------------- MODULE ScenarioRestart ---------------------------
(***************************************************************************)
(* The scenario's machines together with RestartFSM (_archive/service):    *)
(* the records that their executions leave in etcd, and the calls that     *)
(* run what is left of an execution a second time.                         *)
(*                                                                         *)
(* An execution's records are its header and how many of its tasks are     *)
(* completed.  No task is bound to two states, so that a runner given the  *)
(* tasks of another state finds none of its own in the records.  A call    *)
(* restarts an execution that nobody runs; a runner's outcome is the one   *)
(* its tasks have, the case of run Runner_false_success left aside.        *)
(***************************************************************************)
EXTENDS ScenarioFSM

CONSTANTS Restarts,  \* the RestartFSM calls
          TaskCount  \* the length of each state's list in behavior.actions

ASSUME TaskCountAssumption == /\ TaskCount \in [States -> Nat]
                              /\ HasTasks = {s \in States : TaskCount[s] > 0}

VARIABLES record,   \* the records of the execution each machine created
          place,    \* where each restart call is
          subject   \* whose execution it restarts

restartVars == <<record, place, subject>>
allVars == <<vars, restartVars>>

Statuses == {"none", "in-progress", "completed", "failed"}
Record == [status : Statuses, initial : States \cup {NoState},
           target : States \cup {NoState}, completed : Nat]

NoRecord == [status |-> "none", initial |-> NoState, target |-> NoState, completed |-> 0]

RecordsTypeOK ==
  /\ record \in [Machines -> Record]
  /\ place \in [Restarts -> {"absent", "asked", "reset", "running", "hung", "over"}]
  /\ subject \in [Restarts -> Machines]
  /\ \A m \in Machines : record[m].status # "none" =>
                           record[m].completed <= TaskCount[record[m].initial]

RestartTypeOK == TypeOK /\ RecordsTypeOK

RestartInit == /\ Init
               /\ record = [m \in Machines |-> NoRecord]
               /\ place = [r \in Restarts |-> "absent"]
               /\ subject \in [Restarts -> Machines]

\* Nobody runs the execution that machine m created, or ever will by itself.
Abandoned(m) == /\ pc[m] \in {"quiet", "dead"}
                /\ \A r \in Restarts : subject[r] = m => place[r] \in {"absent", "over"}
-----------------------------------------------------------------------------
\* InitializeExecution's transaction; an error does not say that it was lost.
Initialize(m) ==
  /\ Create(m)
  /\ \/ record' = [record EXCEPT ![m] = [status |-> "in-progress", initial |-> from[m],
                                         target |-> state[m], completed |-> 0]]
     \/ pc'[m] = "quiet" /\ UNCHANGED record
  /\ UNCHANGED <<place, subject>>

MutProgress(m) == /\ pc[m] = "executing"   \* a task dispatched twice counts twice
                  /\ record' = [record EXCEPT ![m].completed = @ + 1]
                  /\ UNCHANGED <<vars, place, subject>>

\* One more of the tasks that the machine's runner works on is completed.
Progress(m) == /\ pc[m] = "executing"
               /\ record[m].completed < TaskCount[record[m].initial]
               /\ record' = [record EXCEPT ![m].completed = @ + 1]
               /\ UNCHANGED <<vars, place, subject>>

\* ExecuteActions' last write, which is not made or is lost if etcd fails.
Perform(m, success) ==
  LET all == record[m].completed = TaskCount[record[m].initial]
  IN  /\ Execute(m, success)
      /\ \/ /\ success = all
            /\ record' = [record EXCEPT ![m].status = IF all THEN "completed" ELSE "failed"]
         \/ /\ StoreFaults /\ (success => all)
            /\ UNCHANGED record
      /\ UNCHANGED <<place, subject>>

MachineStep(m) ==
  \/ Initialize(m) \/ Progress(m)
  \/ \E success \in BOOLEAN : Perform(m, success)
  \/ /\ ConfigFails(m) \/ Load(m) \/ Bootstrap(m) \/ Post(m) \/ Ignore(m) \/ Transit(m)
     /\ UNCHANGED restartVars
-----------------------------------------------------------------------------
Goes(r, source, target) == /\ place[r] = source
                           /\ place' = [place EXCEPT ![r] = target]
                           /\ UNCHANGED <<vars, subject>>

\* The handler starts RestartFSM for the eid it was given.
Ask(r) == /\ Abandoned(subject[r])
          /\ Goes(r, "absent", "asked")
          /\ UNCHANGED record

MutRead(r) ==   \* a completed execution is restarted, too
  /\ Goes(r, "asked", IF record[subject[r]].status = "none" THEN "over" ELSE "reset")
  /\ UNCHANGED record

\* It reads the configuration, the header and the tasks, and may give up.
Read(r) ==
  /\ \/ /\ record[subject[r]].status \notin {"none", "completed"}
        /\ Goes(r, "asked", "reset")
     \/ /\ StoreFaults \/ record[subject[r]].status \in {"none", "completed"}
        /\ Goes(r, "asked", "over")
  /\ UNCHANGED record

\* It writes the header, then every task that is not completed as pending.
Reset(r) == \/ /\ record' = [record EXCEPT ![subject[r]].status = "in-progress"]
               /\ Goes(r, "reset", "running") \/ (StoreFaults /\ Goes(r, "reset", "over"))
            \/ /\ StoreFaults
               /\ Goes(r, "reset", "over")
               /\ UNCHANGED record

\* It hands the tasks of the target state to the runner.  An empty list leaves
\* the records alone.  Otherwise the dispatcher compares the length of this list
\* with the number of the execution's own tasks that are in a final state, and
\* these are the completed ones: if there are enough, the execution succeeds.
Rerun(r) ==
  LET m == subject[r]
      count == TaskCount[record[m].target]
  IN  /\ place[r] = "running"
      /\ \/ /\ count > 0 /\ record[m].completed >= count
            /\ Goes(r, "running", "over")
            /\ record' = [record EXCEPT ![m].status = "completed"]
         \/ /\ Goes(r, "running", IF count > record[m].completed THEN "hung" ELSE "over")
            /\ count > 0 /\ record[m].completed >= count => StoreFaults
            /\ UNCHANGED record

RestartStep(r) == Read(r) \/ Reset(r) \/ Rerun(r)

Stop == /\ Crash
        /\ place' = [r \in Restarts |-> IF place[r] = "absent" THEN "absent" ELSE "over"]
        /\ UNCHANGED <<record, subject>>

RestartNext == \/ Stop
               \/ \E m \in Machines : MachineStep(m) \/ (Call(m) /\ UNCHANGED restartVars)
               \/ \E r \in Restarts : Ask(r) \/ RestartStep(r)

RestartSpec == RestartInit /\ [][RestartNext]_allVars

\* The goroutines of machines and restarts run; nothing makes a caller call.
FairRestartSpec == /\ RestartSpec
                   /\ \A m \in Machines : WF_allVars(MachineStep(m))
                   /\ \A r \in Restarts : WF_allVars(RestartStep(r))
-----------------------------------------------------------------------------
\* The records of every execution go through what ExecutionLifecycle allows:
\* neither a late answer of a failing etcd, nor a crash, nor any restart takes
\* back that an execution or one of its tasks is completed, or fails an
\* execution that has nothing left to do.
TotalOf(m) == IF record[m].status = "none" THEN 0 ELSE TaskCount[record[m].initial]

Life == INSTANCE ExecutionLifecycle
        WITH Executions <- Machines,
             status <- [m \in Machines |-> record[m].status],
             done <- [m \in Machines |-> record[m].completed],
             total <- [m \in Machines |-> TotalOf(m)]

ImplementsLifecycle == Life!Spec

\* monitor.go, line 145: "Please use the /scenario/restart endpoint to retry
\* the last failed EID": a retried execution is completed once its tasks are.
CompletedMeansRun ==
  \A m \in Machines : record[m].status = "completed" =>
                        record[m].completed = TaskCount[record[m].initial]
=============================================================================
