-------------------------- MODULE ExecutionLifecycle --------------------------
(***************************************************************************)
(* What the records of an execution go through, whoever writes them: the   *)
(* runner of a command, a restart, or what a failing etcd let pass of      *)
(* either.                                                                 *)
(***************************************************************************)
EXTENDS Naturals

CONSTANT Executions

VARIABLES status,  \* of the header; "none" while there is no execution
          done,    \* how many of its tasks are recorded completed
          total    \* how many it has

life == <<status, done, total>>

Init == /\ status = [e \in Executions |-> "none"]
        /\ done = [e \in Executions |-> 0]
        /\ total = [e \in Executions |-> 0]

Turns(e, source, target) == /\ status[e] = source
                            /\ status' = [status EXCEPT ![e] = target]

\* An execution is created with all its tasks before it, and has some.
Create(e) == /\ Turns(e, "none", "in-progress")
             /\ total' = [total EXCEPT ![e] = total'[e]]
             /\ total'[e] > 0
             /\ UNCHANGED done

\* Its tasks are completed one by one, only while it is under way.
Advance(e) == /\ status[e] = "in-progress"
              /\ done[e] < total[e]
              /\ done' = [done EXCEPT ![e] = @ + 1]
              /\ UNCHANGED <<status, total>>

\* An execution that fails has something left to do.
Fail(e) == /\ Turns(e, "in-progress", "failed")
           /\ done[e] < total[e]
           /\ UNCHANGED <<done, total>>

\* One that is completed has done something, not always all (run Fsm_restart).
Complete(e) == /\ Turns(e, "in-progress", "completed")
               /\ done[e] > 0
               /\ UNCHANGED <<done, total>>

\* Only a failed execution is opened again, and it keeps what it has done.
Reopen(e) == /\ Turns(e, "failed", "in-progress")
             /\ UNCHANGED <<done, total>>

Next == \E e \in Executions :
          Create(e) \/ Advance(e) \/ Fail(e) \/ Complete(e) \/ Reopen(e)

Spec == Init /\ [][Next]_life
=============================================================================
