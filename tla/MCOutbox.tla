------------------------------ MODULE MCOutbox ------------------------------
(* Outbox for TLC: all events are one tenant's, more than a batch takes;   *)
(* a drain visits another tenant, which has none, before or after it.      *)
EXTENDS Outbox, TLC

CONSTANTS e1, e2, e3, w1, w2

MCTenantOf == [e \in Events |-> "tenant1"]
=============================================================================
