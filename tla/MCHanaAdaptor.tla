--------------------------- MODULE MCHanaAdaptor ---------------------------
(***************************************************************************)
(* HanaAdaptor on a schema of three tables, two of which are mapped.       *)
(***************************************************************************)
EXTENDS HanaAdaptor, TLC

CONSTANTS c1, c2, c3, a, b, chunks

Symmetry == Permutations(Calls) \cup Permutations({a, b})
=============================================================================
