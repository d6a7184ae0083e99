-------------------------------- MODULE Pool --------------------------------
(***************************************************************************)
(* The connections of one process of the control API: domain/db.py, and    *)
(* how the handlers of services/control_api/main.py use it.                *)
(*                                                                         *)
(* A transaction keeps a connection of the engine's pool to its end.  Most *)
(* handlers run authorize's transaction and then their own.  create_key    *)
(* and create_contract call authorize inside a transaction, and so ask for *)
(* a second connection while they keep the first.  The pool is SQLAlchemy's*)
(* with its defaults: whoever finds it empty waits, 30 seconds at most,    *)
(* and then has the call answered with a 503 (observability/http.py).      *)
(***************************************************************************)
EXTENDS Naturals, FiniteSets, Sequences

CONSTANTS
    Calls,        \* threads that serve calls
    Size          \* connections (15)

ASSUME SizeAssumption == IsFiniteSet(Calls) /\ Size \in Nat \ {0}

(* The transactions of each kind of handler, one after the other.          *)
Plan == [create_key      |-> <<"nested">>,
         create_contract |-> <<"nested", "flat", "flat">>,
         create_org      |-> <<"flat">>,
         other           |-> <<"flat", "flat">>]
Kinds == DOMAIN Plan

VARIABLES
    kind,    \* what a thread serves, or "none"
    left,    \* the transactions it has yet to finish
    have,    \* the connections it keeps
    wants    \* whether it waits for another one

vars == <<kind, left, have, wants>>

TypeOK ==
    /\ kind \in [Calls -> Kinds \cup {"none"}]
    /\ left \in [Calls -> Seq({"nested", "flat"})]
    /\ have \in [Calls -> 0..2]
    /\ wants \in [Calls -> BOOLEAN]
    /\ \A c \in Calls : kind[c] = "none" <=> left[c] = <<>>
    /\ \A c \in Calls : left[c] = <<>> => have[c] = 0 /\ ~wants[c]

Init ==
    /\ kind = [c \in Calls |-> "none"]
    /\ left = [c \in Calls |-> <<>>]
    /\ have = [c \in Calls |-> 0]
    /\ wants = [c \in Calls |-> FALSE]

(* The connections in use: the first and the second of every thread.       *)
InUse == Cardinality({x \in Calls \X (1..2) : x[2] <= have[x[1]]})
Serves(c) == kind[c] # "none"

-----------------------------------------------------------------------------
Begin(c, k) ==
    /\ ~Serves(c)
    /\ kind' = [kind EXCEPT ![c] = k]
    /\ left' = [left EXCEPT ![c] = Plan[k]]
    /\ wants' = [wants EXCEPT ![c] = TRUE]
    /\ UNCHANGED have

CheckOut(c) ==
    /\ wants[c]
    /\ InUse < Size
    /\ have' = [have EXCEPT ![c] = @ + 1]
    /\ wants' = [wants EXCEPT ![c] = FALSE]
    /\ UNCHANGED <<kind, left>>

(* authorize is called with a transaction open ... *)
Nest(c) ==
    /\ Serves(c) /\ ~wants[c]
    /\ have[c] = 1 /\ Head(left[c]) = "nested"
    /\ wants' = [wants EXCEPT ![c] = TRUE]
    /\ UNCHANGED <<kind, left, have>>

(* ... and returns. *)
Authorized(c) ==
    /\ Serves(c)
    /\ have[c] = 2
    /\ have' = [have EXCEPT ![c] = 1]
    /\ left' = [left EXCEPT ![c][1] = "flat"]
    /\ UNCHANGED <<kind, wants>>

(* The call is answered, or fails: what it keeps goes back, or does not. *)
EndsKeeping(c) ==
    /\ kind' = [kind EXCEPT ![c] = "none"]
    /\ left' = [left EXCEPT ![c] = <<>>]
    /\ wants' = [wants EXCEPT ![c] = FALSE]
    /\ UNCHANGED have
Ends(c) ==
    /\ kind' = [kind EXCEPT ![c] = "none"]
    /\ left' = [left EXCEPT ![c] = <<>>]
    /\ have' = [have EXCEPT ![c] = 0]
    /\ wants' = [wants EXCEPT ![c] = FALSE]

(* A handler that goes on to its next transaction within the one it is in. *)
GoesOnInside(c) ==
    /\ left' = [left EXCEPT ![c] = Tail(@)]
    /\ wants' = [wants EXCEPT ![c] = TRUE]
    /\ UNCHANGED <<kind, have>>
GoesOn(c) ==
    /\ left' = [left EXCEPT ![c] = Tail(@)]
    /\ have' = [have EXCEPT ![c] = 0]
    /\ wants' = [wants EXCEPT ![c] = TRUE]
    /\ UNCHANGED kind

Commit(c) ==
    /\ Serves(c) /\ ~wants[c]
    /\ have[c] = 1 /\ Head(left[c]) = "flat"
    /\ \/ Len(left[c]) > 1 /\ GoesOn(c)
       \/ Len(left[c]) = 1 /\ Ends(c)

(* A refusal or an error. *)
Refuse(c) ==
    /\ Serves(c) /\ ~wants[c]
    /\ Ends(c)

(* A call that holds a connection waits without limit. *)
TimeOutFirst(c) ==
    /\ wants[c] /\ have[c] = 0
    /\ InUse = Size
    /\ Ends(c)
TimeOut(c) ==
    /\ wants[c]
    /\ InUse = Size
    /\ Ends(c)

Runs(c) ==
    \/ CheckOut(c) \/ Nest(c) \/ Authorized(c)
    \/ Commit(c) \/ Refuse(c) \/ TimeOut(c)

Next == \E c \in Calls : Runs(c) \/ \E k \in Kinds : Begin(c, k)

Spec == Init /\ [][Next]_vars

(* Threads run on, and a wait is either served or runs out. *)
FairSpec == Spec /\ \A c \in Calls : WF_vars(Runs(c))

-----------------------------------------------------------------------------
(* All connections are kept by threads that wait for another one, so that  *)
(* only a timeout can free one.                                            *)
Exhausted == InUse = Size /\ \A c \in Calls : have[c] > 0 => wants[c]

Nesting == {c \in Calls : kind[c] \in {"create_key", "create_contract"}}

(* The pool exhausts itself only when as many keys and contracts are being *)
(* created at a time as there are connections: no other mixture of calls,  *)
(* waiting and failing in any order, keeps all of them back.               *)
ExhaustionIsNested == Exhausted => Cardinality(Nesting) >= Size

(* Every call is answered, if only with a 503, exhausted or not.           *)
EveryCallIsAnswered == \A c \in Calls : Serves(c) ~> ~Serves(c)
=============================================================================
