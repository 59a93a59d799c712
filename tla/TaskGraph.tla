------------------------------ MODULE TaskGraph ------------------------------
(***************************************************************************)
(* What one execution of a task list promises, whatever channels, workers  *)
(* and records carry it out (README.md, "The Concurrent Task Execution     *)
(* Engine"): a task's plugin runs only after every task it depends on has  *)
(* run successfully, a task is blocked only when a task it depends on      *)
(* failed or is itself blocked, the execution is settled only when every   *)
(* task has run or is blocked, and no plugin runs once it is closed.       *)
(* A task may run more than once: the engine does not promise otherwise.   *)
(***************************************************************************)
CONSTANTS Tasks,     \* the tasks of the action
          Deps       \* dependsOn.tasks: the tasks each one waits for

VARIABLES ok,        \* tasks whose plugin has succeeded at least once
          bad,       \* tasks one of whose runs has failed
          blocked,   \* tasks declared blocked
          phase      \* where the execution as a whole stands

vars == <<ok, bad, blocked, phase>>

Phases == {"open", "settled", "abandoned", "closed"}

TypeOK == /\ ok \subseteq Tasks
          /\ bad \subseteq Tasks
          /\ blocked \subseteq Tasks
          /\ phase \in Phases

\* done: tasks already completed by an earlier run of a resumed execution.
InitWith(done) == /\ ok = done
                  /\ bad = {}
                  /\ blocked = {}
                  /\ phase = "open"

Init == \E done \in SUBSET Tasks : InitWith(done)

Runnable(t) == Deps[t] \subseteq ok /\ phase # "closed"

Succeed(t) == /\ Runnable(t)
              /\ ok' = ok \cup {t}
              /\ UNCHANGED <<bad, blocked, phase>>

Fail(t) == /\ Runnable(t)
           /\ bad' = bad \cup {t}
           /\ UNCHANGED <<ok, blocked, phase>>

\* One decision may block several tasks at once, each for a cause of its own.
Block == /\ phase = "open"
         /\ \E S \in SUBSET Tasks :
              /\ \A t \in S : Deps[t] \cap (bad \cup blocked) # {}
              /\ blocked' = blocked \cup S
         /\ UNCHANGED <<ok, bad, phase>>

Settle == /\ phase = "open"
          /\ Tasks \subseteq ok \cup bad \cup blocked
          /\ phase' = "settled"
          /\ UNCHANGED <<ok, bad, blocked>>

Abandon == /\ phase \in {"open", "settled"}
           /\ phase' = "abandoned"
           /\ UNCHANGED <<ok, bad, blocked>>

Close == /\ phase \in {"settled", "abandoned"}
         /\ phase' = "closed"
         /\ UNCHANGED <<ok, bad, blocked>>

Next == \/ \E t \in Tasks : Succeed(t) \/ Fail(t)
        \/ Block
        \/ Settle
        \/ Abandon
        \/ Close

Spec == Init /\ [][Next]_vars
=============================================================================
