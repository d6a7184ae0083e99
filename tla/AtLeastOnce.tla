----------------------------- MODULE AtLeastOnce -----------------------------
(***************************************************************************)
(* What an outbox promises: each message that is put into it is taken off  *)
(* in the end, and one that is to be sent not before it was sent at least  *)
(* once.  How often it is sent is left open, and nothing is sent of a      *)
(* message that was never put in or was already taken off.                 *)
(***************************************************************************)
EXTENDS Naturals

CONSTANTS
    Messages,
    ToSend        \* those that something has to be sent of

VARIABLES
    status,       \* "absent", "pending" or "done"
    copies        \* how often each was sent

vars == <<status, copies>>

Init ==
    /\ status = [m \in Messages |-> "absent"]
    /\ copies = [m \in Messages |-> 0]

Put(m) ==
    /\ status[m] = "absent"
    /\ status' = [status EXCEPT ![m] = "pending"]
    /\ UNCHANGED copies

Send(m) ==
    /\ m \in ToSend
    /\ status[m] = "pending"
    /\ copies' = [copies EXCEPT ![m] = @ + 1]
    /\ UNCHANGED status

(* Messages may be taken off several at a time. *)
TakeOff(S) ==
    /\ S # {}
    /\ \A m \in S : /\ status[m] = "pending"
                    /\ m \in ToSend => copies[m] > 0
    /\ status' = [m \in Messages |-> IF m \in S THEN "done" ELSE status[m]]
    /\ UNCHANGED copies

Next ==
    \/ \E m \in Messages : Put(m) \/ Send(m)
    \/ \E S \in SUBSET Messages : TakeOff(S)

(* What it never does, and what it does in the end besides. *)
Safety == Init /\ [][Next]_vars

Spec ==
    /\ Safety
    /\ \A m \in Messages :
         /\ WF_vars(copies[m] = 0 /\ Send(m))
         /\ WF_vars(\E S \in SUBSET Messages : m \in S /\ TakeOff(S))
=============================================================================
