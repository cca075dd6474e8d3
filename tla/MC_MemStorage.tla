--------------------------- MODULE MC_MemStorage ---------------------------
(* Instances of MemStorage for TLC. *)
EXTENDS MemStorage, TLC
CONSTANTS c1, c2, r1, n1, n2, n3, n4
MCNames     == {n1, n2}
MCManyNames == {n1, n2, n3, n4}
MCDeltas    == {1, -2}
MCValues    == {1, 2}
MCOneValue  == {1}
MCSymmetry  == Permutations(Callers)
=============================================================================
