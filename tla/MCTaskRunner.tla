---------------------------- MODULE MCTaskRunner ----------------------------
(***************************************************************************)
(* TaskRunner on small task lists.                                         *)
(***************************************************************************)
EXTENDS TaskRunner, TLC

CONSTANTS a, b, w1, w2

\* b waits for a
Chain == [t \in {a, b} |-> IF t = b THEN {a} ELSE {}]

\* one task of its own
Single == [t \in {a} |-> {}]

\* what a restart finds completed: a
LateRestart == {{a}}

Anything == {TRUE, FALSE}
Valid == {TRUE}

Symmetry == Permutations(Workers)
=============================================================================
