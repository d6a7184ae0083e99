------------------------------ MODULE MCGateway ------------------------------
(* Gateway for TLC: one application with one key, under the root alone. *)
EXTENDS Gateway, TLC

CONSTANTS r1, r2, c1, c2

MCPath == [a \in Apps |-> {"tenant", a}]
MCKeyApp == [k \in Keys |-> "app"]
MCRootCap == [scope |-> "tenant", unit |-> "money", cadence |-> "month"]
MCCaps == {MCRootCap}
MCBound == [p \in Payloads |-> [money |-> 2, tokens |-> 2, requests |-> 1]]
MCMonth == [d \in Days |-> 0]

Symmetry == Permutations(Requests) \cup Permutations(Calls)
=============================================================================
