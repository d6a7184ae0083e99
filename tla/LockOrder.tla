------------------------------ MODULE LockOrder ------------------------------
(***************************************************************************)
(* The row locks of the transactions of one tenant, and who may wait for   *)
(* whom: packages/domain/accounting.py and services/control_api/main.py.   *)
(*                                                                         *)
(* What a transaction does with a row is left out; what remains is the set *)
(* of rows it locks and the order it locks them in.  Locks are kept to the *)
(* end of the transaction (domain/db.py).  Besides FOR UPDATE and UPDATE,  *)
(* an INSERT waits on the unique slot of an uncommitted row, and shares    *)
(* the tenant's row with other inserts through its foreign key.            *)
(*                                                                         *)
(* Every transaction runs once, so nothing is said about the fairness of   *)
(* PostgreSQL's queues: that every wait ends does not depend on it.        *)
(***************************************************************************)
EXTENDS Integers

CONSTANTS
    Tx,            \* transactions in flight
    Kinds,         \* the functions they run
    LastMonth,     \* months are 0..LastMonth
    RootOf,        \* RootOf[m]: the id of the month's root budget
    Children,      \* Children[m]: ids of the other rows charged in month m
    Requests,      \* ordinary requests
    StepRequests,  \* requests of a contract's steps
    Contracts,
    LastId         \* ids are 0..LastId, in their order as strings

Months == 0..LastMonth
Ids == 0..LastId
AllKinds == {"admit", "settle", "transition", "budget", "create", "close",
             "admit_step", "settle_step", "edit", "move", "assign", "audit"}

ASSUME IdsAssumption ==
    /\ LastMonth \in Nat /\ LastId \in Nat
    /\ RootOf \in [Months -> Ids]
    /\ Children \in [Months -> SUBSET Ids]
    /\ \A m, n \in Months : RootOf[m] \notin Children[n]
    /\ \A m, n \in Months : RootOf[m] = RootOf[n] => m = n
    /\ Requests \subseteq Ids /\ StepRequests \subseteq Ids
    /\ Contracts \subseteq Ids
ASSUME KindsAssumption == Kinds \subseteq AllKinds

VARIABLES
    stage,   \* "new", "running" or "ended"
    kind,    \* the function a transaction runs
    wants,   \* the rows it has yet to lock
    held     \* the rows it has locked

vars == <<stage, kind, wants, held>>

-----------------------------------------------------------------------------
(* Rows, and the order they are locked in *)

Budget(i) == <<"budget", i>>
Request(i) == <<"request", i>>
StepRequest(i) == <<"step", i>>
Contract(i) == <<"contract", i>>
Slot == <<"slot", 0>>            \* UNIQUE(tenant, key, idempotency key)
Tenant == <<"tenant", 0>>

Tables == {"budget", "request", "step", "contract", "slot", "tenant"}
Rows == Tables \X Ids

IsRoot(r) == \E m \in Months : r = Budget(RootOf[m])
RootPlace(r) == CHOOSE n \in Months : r = Budget(RootOf[LastMonth - n])
Later(r) ==
    [budget |-> 1 + r[2], contract |-> LastId + 2, slot |-> LastId + 3,
     step |-> LastId + 4, tenant |-> LastId + 5, request |-> 0][r[1]]

(* A move that locks the tenant before the root. *)
PlaceTenantFirst(k, r) ==
    IF k = "move" /\ r = Tenant THEN 0
    ELSE IF IsRoot(r) /\ k # "close" THEN RootPlace(r) + 1
    ELSE LastMonth + 2 + Later(r)

(* Roots first, a newer month's before an older one's, then a request,     *)
(* then budgets by id, contract, unique slot, step request, tenant.        *)
Place(k, r) == IF IsRoot(r) /\ k # "close" THEN RootPlace(r)
               ELSE LastMonth + 1 + Later(r)

(* Only moves and memberships lock the tenant against other users of it. *)
Alone(k, r) == r # Tenant \/ k \in {"move", "assign"}

-----------------------------------------------------------------------------
(* What each function locks *)

RootRow(m) == Budget(RootOf[m])

(* The root and any rows below it that a charge in month m may touch. *)
Charges ==
    UNION {{{RootRow(m)} \cup {Budget(i) : i \in c} : c \in SUBSET Children[m]}
             : m \in Months}

OneRow(S) == {{r} : r \in S}
RequestRows == {Request(q) : q \in Requests}
StepRows == {StepRequest(q) : q \in StepRequests}
ContractRows == {Contract(c) : c \in Contracts}
BudgetRows == UNION Charges
RootRows == {RootRow(m) : m \in Months}
Together(A, B) == {a \cup b : a \in A, b \in B}
Alike(S, r) == {s \cup {r} : s \in S}

(* budget() locks the root of the month it reads last, where that row      *)
(* exists, and the row it edits, of that month or of the one before.       *)
Edited(m) ==
    {Budget(i) : i \in UNION {Children[n] \cup {RootOf[n]}
                                : n \in {m - 1, m} \cap Months}}
BudgetLocks ==
    OneRow(BudgetRows) \cup
    UNION {{{RootRow(m), r} : r \in Edited(m)} : m \in Months}

Footprints ==
    [admit       |-> Alike(Alike(Charges, Slot), Tenant),
     settle      |-> Alike(Together(Charges, OneRow(RequestRows)), Tenant),
     transition  |-> OneRow(RequestRows \cup StepRows),
     budget      |-> Alike(BudgetLocks, Tenant),
     create      |-> Alike(Charges, Tenant),
     close       |-> Alike(Together(Charges, OneRow(ContractRows)), Tenant),
     admit_step  |-> Alike(Alike(OneRow(ContractRows), Slot), Tenant),
     settle_step |-> Alike(Together(OneRow(ContractRows), OneRow(StepRows)),
                           Tenant),
     edit        |-> Alike(OneRow(ContractRows), Tenant),
     move        |-> Alike(OneRow(RootRows) \cup {{}}, Tenant),
     assign      |-> {{Tenant}},
     audit       |-> {{Tenant}}]

TypeOK ==
    /\ stage \in [Tx -> {"new", "running", "ended"}]
    /\ kind \in [Tx -> Kinds \cup {"none"}]
    /\ wants \in [Tx -> SUBSET Rows]
    /\ held \in [Tx -> SUBSET Rows]
    /\ \A t \in Tx : stage[t] # "running" => wants[t] = {} /\ held[t] = {}

-----------------------------------------------------------------------------
(* r is the row t asks for next. *)
IsNext(t, r) ==
    /\ r \in wants[t]
    /\ \A s \in wants[t] \ {r} : Place(kind[t], r) < Place(kind[t], s)

(* u's lock on r keeps t from it. *)
Blocks(u, t, r) ==
    u # t /\ r \in held[u] /\ (Alone(kind[u], r) \/ Alone(kind[t], r))

WaitsFor(t, u) == \E r \in wants[t] : IsNext(t, r) /\ Blocks(u, t, r)

Waiting(t) == \E u \in Tx : WaitsFor(t, u)

(* Each member of S waits for another one. *)
Standstill(S) ==
    S # {} /\ \A t \in S : \E u \in S : WaitsFor(t, u)

Init ==
    /\ stage = [t \in Tx |-> "new"]
    /\ kind = [t \in Tx |-> "none"]
    /\ wants = [t \in Tx |-> {}]
    /\ held = [t \in Tx |-> {}]

Begin(t, k) ==
    /\ stage[t] = "new"
    /\ stage' = [stage EXCEPT ![t] = "running"]
    /\ kind' = [kind EXCEPT ![t] = k]
    /\ \E rows \in Footprints[k] : wants' = [wants EXCEPT ![t] = rows]
    /\ UNCHANGED held

Acquire(t) ==
    /\ stage[t] = "running"
    /\ ~Waiting(t)
    /\ \E r \in wants[t] :
         /\ IsNext(t, r)
         /\ wants' = [wants EXCEPT ![t] = @ \ {r}]
         /\ held' = [held EXCEPT ![t] = @ \cup {r}]
    /\ UNCHANGED <<stage, kind>>

End(t) ==
    /\ stage' = [stage EXCEPT ![t] = "ended"]
    /\ wants' = [wants EXCEPT ![t] = {}]
    /\ held' = [held EXCEPT ![t] = {}]
    /\ UNCHANGED kind

(* A transaction that ends without giving its locks back. *)
CommitHolding(t) ==
    /\ stage[t] = "running"
    /\ wants[t] = {}
    /\ stage' = [stage EXCEPT ![t] = "ended"]
    /\ UNCHANGED <<kind, wants, held>>

Commit(t) ==
    /\ stage[t] = "running"
    /\ wants[t] = {}
    /\ End(t)

(* An early return, a refusal or an error, with locks still to take. *)
Refuse(t) ==
    /\ stage[t] = "running"
    /\ wants[t] # {}
    /\ ~Waiting(t)
    /\ End(t)

(* PostgreSQL aborts a transaction that waits in a cycle. *)
Detect(t) ==
    /\ stage[t] = "running"
    /\ \E S \in SUBSET Tx : t \in S /\ Standstill(S)
    /\ End(t)

Next ==
    \E t \in Tx :
        \/ \E k \in Kinds : Begin(t, k)
        \/ Acquire(t)
        \/ Commit(t)
        \/ Refuse(t)
        \/ Detect(t)

Spec == Init /\ [][Next]_vars

(* The client and the server run on unless the transaction has to wait,    *)
(* and PostgreSQL's deadlock check comes after a second of waiting.        *)
FairSpec ==
    /\ Spec
    /\ \A t \in Tx : /\ WF_vars(Acquire(t) \/ Commit(t))
                     /\ WF_vars(Detect(t))

-----------------------------------------------------------------------------
(* No set of transactions waits for itself unless one of them is           *)
(* close_spend_contract, which takes budgets by id and the root among      *)
(* them: the orders in which admit, settle, budget, move_group and the     *)
(* other contract functions take their rows have no cycle between them,    *)
(* the unique slots and the tenant's row that no line names included.      *)
DeadlocksNeedAClose ==
    \A S \in SUBSET Tx : Standstill(S) => \E t \in S : kind[t] = "close"

(* Every transaction that starts comes to its end: locks are waited for in *)
(* an order, and each is given back.                                       *)
EveryTransactionEnds ==
    \A t \in Tx : stage[t] = "running" ~> stage[t] = "ended"
=============================================================================
