---------------------------- MODULE MCAccounting ----------------------------
(* Accounting for TLC: two applications, one of them in a group. *)
EXTENDS Accounting, TLC

CONSTANTS r1, r2, r3, i1, i2, i3

MCPath == [a \in Apps |->
             {"tenant", a} \cup (IF a = "app1" THEN {"group"} ELSE {})]
MCKeyApp == [k \in Keys |-> IF k = "key1" THEN "app1" ELSE "app2"]

Cap(s, u, c) == [scope |-> s, unit |-> u, cadence |-> c]
MCRootCap == Cap("tenant", "money", "month")

MCBound == [p \in Payloads |->
              [money |-> 2, tokens |-> 1, requests |-> 1]]

Symmetry == Permutations(Requests) \cup Permutations(Idems)

(* Sibling applications share the root; a group cap above one of them. *)
SharedCaps == {MCRootCap, Cap("group", "money", "month")}
(* A monthly and a daily cap of one scope and unit, and a group's month. *)
MixedCaps == {MCRootCap, Cap("tenant", "money", "day"),
              Cap("group", "money", "month")}

OneMonth == [d \in Days |-> 0]
TwoDaysAMonth == [d \in Days |-> d \div 2]
=============================================================================
