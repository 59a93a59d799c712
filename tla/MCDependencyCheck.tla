-------------------------- MODULE MCDependencyCheck --------------------------
(***************************************************************************)
(* DependencyCheck on every dependency relation among three tasks, any of  *)
(* which may also name an undefined ID.                                    *)
(***************************************************************************)
EXTENDS DependencyCheck

CONSTANTS t1, t2, t3, u
=============================================================================
