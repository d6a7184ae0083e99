-------------------------- MODULE MCSpendContracts --------------------------
(* SpendContracts for TLC: one application and one contract. *)
EXTENDS SpendContracts, TLC

CONSTANTS r1, r2, r3, i1, i2, i3

MCPath == [a \in Apps |-> {"tenant", a}]
MCKeyApp == [k \in Keys |-> "app1"]

Cap(s, u, c) == [scope |-> s, unit |-> u, cadence |-> c]
MCRootCap == Cap("tenant", "money", "month")
RootOnly == {MCRootCap}

MCBound == [p \in Payloads |->
              [money |-> 1, tokens |-> 1, requests |-> 1]]
MCContractKey == [c \in Contracts |-> "key1"]
(* Two steps, and money and tokens for both. *)
MCEnvelope == [c \in Contracts |->
                 [money |-> 2, tokens |-> 2, requests |-> 2]]
(* Three steps, of which money and tokens allow two. *)
ShortEnvelope == [c \in Contracts |->
                    [money |-> 2, tokens |-> 2, requests |-> 3]]

OneMonth == [d \in Days |-> 0]

Symmetry == Permutations(Requests) \cup Permutations(Idems)
=============================================================================
