---------------------------- MODULE MCGovernance ----------------------------
(* Governance for TLC: one group, one custom role. *)
EXTENDS Governance, TLC

CONSTANTS s1, s2, s3, c1, c2

MCPath == [g \in Groups |-> {g}]
MCAsked == {{"members.manage"}, {"read", "roles.manage"}}

Symmetry == Permutations(Subjects) \cup Permutations(Calls)
=============================================================================
