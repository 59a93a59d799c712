--------------------------- MODULE MCStoreUpdates ---------------------------
(***************************************************************************)
(* StoreUpdates with what the workers of a first run write.                *)
(***************************************************************************)
EXTENDS StoreUpdates, TLC

CONSTANTS t1, t2, s1, s2

Independent == [t \in Tasks |-> {}]

OfWorkers == {StartedDetail(FALSE), FinalDetail(FALSE, TRUE), FinalDetail(FALSE, FALSE)}

Same == Permutations({t1, t2}) \cup Permutations({s1, s2})
=============================================================================
