----------------------------- MODULE Dependencies -----------------------------
(***************************************************************************)
(* The vocabulary in which this project speaks of a dependency relation,   *)
(* deps: for each task the set of tasks that it waits for.                 *)
(***************************************************************************)

\* Every task that somebody waits for is there.
Defined(tasks, deps) == \A t \in tasks : deps[t] \subseteq tasks

\* No set of tasks waits for itself: whatever is left to do, some task of it
\* waits for none of the others.
Acyclic(tasks, deps) ==
  \A S \in SUBSET tasks : S # {} => \E t \in S : deps[t] \cap S = {}

\* S contains whatever waits for a task of S, however long the way round.
Downstream(tasks, deps, S) ==
  \A t \in tasks : deps[t] \cap S # {} => t \in S
=============================================================================
