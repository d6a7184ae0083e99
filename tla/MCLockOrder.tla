----------------------------- MODULE MCLockOrder -----------------------------
(* LockOrder for TLC: one month, and a row below the root that has the     *)
(* smaller id.                                                             *)
EXTENDS LockOrder, TLC

CONSTANTS t1, t2, t3

(* One kind for each way to take several rows, and a close. *)
Crossing == {"admit", "close", "settle_step", "move"}

MiddleRoot == [m \in Months |-> 1]
BelowIt == [m \in Months |-> {0}]
=============================================================================
