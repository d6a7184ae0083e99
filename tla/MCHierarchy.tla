----------------------------- MODULE MCHierarchy -----------------------------
(* Hierarchy for TLC: interchangeable groups and calls. *)
EXTENDS Hierarchy, TLC

CONSTANTS g1, g2, g3, c1, c2

Symmetry == Permutations(Groups) \cup Permutations(Calls)
=============================================================================
