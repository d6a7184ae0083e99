------------------------------- MODULE Escrow -------------------------------
(***************************************************************************)
(* What an escrow promises, whatever keeps its books.                      *)
(*                                                                         *)
(* An account has a limit.  A claim takes a hold on any number of accounts *)
(* at once and is settled once, later: it then consumes at most what it    *)
(* held on each account, and the rest of the hold is free again.  A hold   *)
(* is granted only where everything consumed and everything held leave     *)
(* room for it.  There are no running totals here: what an account has     *)
(* consumed and what is held on it are sums over the claims.               *)
(*                                                                         *)
(* The tenant's budgets are such an escrow (accounts are budget rows,      *)
(* claims are requests and spend contracts), and so is a spend contract    *)
(* for the steps that run under it.                                        *)
(***************************************************************************)
EXTENDS Naturals, Functions

CONSTANTS
    Accounts,     \* what has a limit
    Claims        \* what may hold and consume, each once

VARIABLES
    limit,        \* limit[a], a natural number
    claim         \* claim[c] = [phase |-> ..., hold |-> ..., taken |-> ...]

vars == <<limit, claim>>

Amounts == [Accounts -> Nat]

Nothing == [a \in Accounts |-> 0]

Absent == [phase |-> "absent", hold |-> Nothing, taken |-> Nothing]

(* What claims that are not settled hold on a. *)
Held(a) ==
    SumFunction([c \in Claims |->
                    IF claim[c].phase = "held" THEN claim[c].hold[a] ELSE 0])

(* What settled claims have consumed of a. *)
Taken(a) == SumFunction([c \in Claims |-> claim[c].taken[a]])

OnlyClaim(c) == \A d \in Claims \ {c} : claim'[d] = claim[d]

Init ==
    /\ limit \in Amounts
    /\ claim = [c \in Claims |-> Absent]

(* A claim takes its holds, all of them or none. *)
Hold(c) ==
    /\ claim[c] = Absent
    /\ claim'[c].phase = "held"
    /\ claim'[c].taken = Nothing
    /\ claim'[c].hold \in Amounts
    /\ \A a \in Accounts :
         claim'[c].hold[a] > 0 =>
             Taken(a) + Held(a) + claim'[c].hold[a] <= limit[a]
    /\ OnlyClaim(c)
    /\ UNCHANGED limit

(* A claim is settled, within what it held. *)
Settle(c) ==
    /\ claim[c].phase = "held"
    /\ claim'[c].phase = "settled"
    /\ claim'[c].hold = claim[c].hold
    /\ claim'[c].taken \in Amounts
    /\ \A a \in Accounts : claim'[c].taken[a] <= claim[c].hold[a]
    /\ OnlyClaim(c)
    /\ UNCHANGED limit

(* A limit moves, below what is already committed if need be: holds stay. *)
SetLimit(a) ==
    /\ limit' \in Amounts
    /\ \A b \in Accounts \ {a} : limit'[b] = limit[b]
    /\ UNCHANGED claim

Next ==
    \/ \E c \in Claims : Hold(c) \/ Settle(c)
    \/ \E a \in Accounts : SetLimit(a)

Spec == Init /\ [][Next]_vars
=============================================================================
