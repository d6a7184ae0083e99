------------------------------- MODULE MCPool -------------------------------
(* Pool for TLC: one thread more than the pool has connections. *)
EXTENDS Pool, TLC

CONSTANTS c1, c2, c3
=============================================================================
