--------------------------- MODULE SpendContracts ---------------------------
(***************************************************************************)
(* Spend contracts beside ordinary requests: the contract half of          *)
(* packages/domain/accounting.py and the contract operations of the        *)
(* control API, over the budgets, requests and clock of Accounting.        *)
(*                                                                         *)
(* A contract reserves an envelope on the tenant's budgets when it is      *)
(* created; its steps are requests that allocate from the envelope and     *)
(* reserve nothing on the budgets; closing books what the steps used and   *)
(* gives the rest back.                                                    *)
(*                                                                         *)
(* Creation, step admission and closing lock what they read and are one    *)
(* step each.  Three operations read before they lock and never look       *)
(* again, so the model splits them: settle reads the request's state       *)
(* (Fetch) and then locks the contract (Commit); rotate-token and revoke   *)
(* read the contract without a lock (Read) and write later (Write).        *)
(***************************************************************************)
EXTENDS Accounting

CONSTANTS
    Contracts,          \* identities of contract rows
    ContractKey,        \* the key a contract is issued to
    Envelope,           \* its maxima: [money, tokens, requests]
    Editors,            \* rotate and revoke calls that may be in flight
    MaxTokenVersion     \* bound: versions that rotations and revocations write

None == "none"

ASSUME ContractsAssumption ==
    /\ IsFiniteSet(Contracts) /\ None \notin Contracts
    /\ ContractKey \in [Contracts -> Keys]
    /\ Envelope \in [Contracts -> [Units -> Nat \ {0}]]
    /\ MaxTokenVersion \in Nat \ {0}
    /\ Requests \cap Admins = {} /\ Requests \cap Contracts = {}

VARIABLES
    contract,       \* spend_contracts: "absent", "active", "revoked", "completed"
    closed,         \* closed_at is set
    expired,        \* the clock has passed expires_at
    outstanding,    \* outstanding_cost and outstanding_tokens
    used,           \* spent_cost, spent_tokens, steps_started, _completed
    token_version,
    tokenless,      \* contracts created whose first token is not yet issued
    tokens,         \* how many tokens were issued for each version
    escrow,         \* contract_reservations: amount per budget, 0 = no row
    returned,       \* contract_reservations: the settled flag
    c_ledger,       \* contract_ledger_entries
    under,          \* requests: contract_id, or None
    allocation,     \* contract_allocations: state, and actual amounts
    fetched,        \* settlements between their Fetch and their Commit
    editing         \* rotations and revocations between Read and Write

c_rows == <<contract, closed, outstanding, used, token_version>>
c_books == <<escrow, returned, c_ledger>>
steps == <<under, allocation, fetched>>
issuing == <<tokenless, tokens>>
cvars == <<c_rows, expired, issuing, c_books, steps, editing>>
allvars == <<vars, cvars>>

(* Closing, which happens once, writes one more version. *)
Versions == 1..(MaxTokenVersion + 1)

NoEdit == [op |-> "none"]
NoAllocation == [state |-> "none", money |-> 0, tokens |-> 0]

ContractTypeOK ==
    /\ contract \in
         [Contracts -> {"absent", "active", "revoked", "completed"}]
    /\ closed \in [Contracts -> BOOLEAN]
    /\ expired \in [Contracts -> BOOLEAN]
    /\ outstanding \in [Contracts -> [money : Nat, tokens : Nat]]
    /\ used \in [Contracts -> [Units \cup {"completed"} -> Nat]]
    /\ token_version \in [Contracts -> Versions \cup {0}]
    /\ tokenless \subseteq Contracts
    /\ tokens \in [Contracts -> [Versions -> Nat]]
    /\ escrow \in [Contracts -> [Budgets -> Nat]]
    /\ returned \in [Contracts -> BOOLEAN]
    /\ c_ledger \in [Contracts -> [Budgets ->
          [reserve : Posting, settle : Posting, release : Posting]]]
    /\ under \in [Requests -> Contracts \cup {None}]
    /\ allocation \in [Requests ->
          [state : {"none", "reserved", "completed", "released"},
           money : Nat, tokens : Nat]]
    /\ fetched \subseteq Requests \cup Admins
    /\ editing \in [Editors ->
          [op : {"rotate", "revoke"}, contract : Contracts, version : Nat]
            \cup {NoEdit}]

ContractInit ==
    /\ contract = [c \in Contracts |-> "absent"]
    /\ closed = [c \in Contracts |-> FALSE]
    /\ expired = [c \in Contracts |-> FALSE]
    /\ outstanding = [c \in Contracts |-> [money |-> 0, tokens |-> 0]]
    /\ used = [c \in Contracts |-> [u \in Units \cup {"completed"} |-> 0]]
    /\ token_version = [c \in Contracts |-> 0]
    /\ tokenless = {}
    /\ tokens = [c \in Contracts |-> [v \in Versions |-> 0]]
    /\ escrow = [c \in Contracts |-> NoCharge]
    /\ returned = [c \in Contracts |-> FALSE]
    /\ c_ledger = [c \in Contracts |-> [b \in Budgets |-> NoPostings]]
    /\ under = [r \in Requests |-> None]
    /\ allocation = [r \in Requests |-> NoAllocation]
    /\ fetched = {}
    /\ editing = [x \in Editors |-> NoEdit]

-----------------------------------------------------------------------------
(* create_spend_contract, and the token create_contract then issues *)

(* Unlike admit, no look at History: a cap that lapsed is not missed. *)
CreateContract(c, dm, dd) ==
    LET k == ContractKey[c]
        charged == Charged(KeyApp[k], dm, dd)
        amount == [b \in Budgets |->
                     IF b \in charged THEN Envelope[c][Unit(b)] ELSE 0]
    IN  /\ contract[c] = "absent"
        /\ dm <= dd
        /\ Root(MonthOf[dm]) \in rows
        /\ ~revoked[k] /\ ~paused[KeyApp[k]]
        /\ \A b \in charged : Fits(b, amount[b])
        /\ reserved' = [b \in Budgets |-> reserved[b] + amount[b]]
        /\ alerts' = [b \in Budgets |->
              IF b \in charged THEN Alerted(b, amount[b]) ELSE alerts[b]]
        /\ escrow' = [escrow EXCEPT ![c] = amount]
        /\ c_ledger' = [c_ledger EXCEPT ![c] = [b \in Budgets |->
              IF b \in charged THEN Opened(amount[b]) ELSE NoPostings]]
        /\ contract' = [contract EXCEPT ![c] = "active"]
        /\ token_version' = [token_version EXCEPT ![c] = 1]
        /\ tokenless' = tokenless \cup {c}
        /\ UNCHANGED <<day, controls, spent, request, state, cost, reservation,
                       settled, ledger, usage_events, reconciling>>
        /\ UNCHANGED <<closed, expired, outstanding, used, returned, tokens,
                       steps, editing>>

(* A later transaction reads the contract and issues the first token, with *)
(* the version it finds.                                                   *)
FirstToken(c) ==
    /\ c \in tokenless
    /\ tokenless' = tokenless \ {c}
    /\ tokens' = [tokens EXCEPT ![c][token_version[c]] = @ + 1]
    /\ UNCHANGED <<vars, c_rows, expired, c_books, steps, editing>>

(* The clock passes expires_at.  admit_contract writes the state "expired" *)
(* and raises, which rolls the write back: the state stays "active".       *)
Expire(c) ==
    /\ contract[c] # "absent" /\ ~expired[c]
    /\ expired' = [expired EXCEPT ![c] = TRUE]
    /\ UNCHANGED <<vars, c_rows, issuing, c_books, steps, editing>>

-----------------------------------------------------------------------------
(* admit_contract *)

TokenBound(r) == Bound[request[r].payload]["tokens"]

(* Room for one more step; without the steps in flight, and with them. *)
StepFitsUsed(c, bound) ==
    /\ used[c]["requests"] < Envelope[c]["requests"]
    /\ \A u \in {"money", "tokens"} :
        used[c][u] + bound[u] <= Envelope[c][u]
StepFits(c, bound) ==
    /\ used[c]["requests"] < Envelope[c]["requests"]
    /\ \A u \in {"money", "tokens"} :
        used[c][u] + outstanding[c][u] + bound[u] <= Envelope[c][u]

(* A step allocates from the envelope.  The key was live when the call was *)
(* authenticated, in an earlier transaction; neither the key, nor the      *)
(* application's pause, nor any budget is looked at here.                  *)
AdmitStep(r, c, v, i, p, dm) ==
    LET bound == Bound[p]
    IN  /\ contract[c] = "active" /\ ~expired[c]
        /\ v = token_version[c] /\ tokens[c][v] > 0
        /\ ~Taken(ContractKey[c], i)
        /\ StepFits(c, bound)
        /\ state[r] = "absent"
        /\ state' = [state EXCEPT ![r] = "reserved"]
        /\ request' = [request EXCEPT ![r] =
              [key |-> ContractKey[c], idem |-> i, payload |-> p,
               month |-> MonthOf[dm]]]
        /\ under' = [under EXCEPT ![r] = c]
        /\ allocation' = [allocation EXCEPT ![r].state = "reserved"]
        /\ outstanding' = [outstanding EXCEPT
              ![c].money = @ + bound["money"], ![c].tokens = @ + bound["tokens"]]
        /\ used' = [used EXCEPT ![c]["requests"] = @ + 1]
        /\ UNCHANGED <<day, controls, balances, alerts, cost, reservation,
                       settled, ledger, usage_events, reconciling>>
        /\ UNCHANGED <<contract, closed, expired, token_version, issuing,
                       c_books, fetched, editing>>

-----------------------------------------------------------------------------
(* settle_contract_request *)

(* The usage counters after a step ends; a released step used nothing. *)
UsedAfterAny(c, to, money, toks) ==
    [used[c] EXCEPT !["money"] = @ + money, !["tokens"] = @ + toks,
                    !["completed"] = @ + 1]
UsedAfter(c, to, money, toks) ==
    IF to = "released" THEN used[c]
    ELSE [used[c] EXCEPT !["money"] = @ + money, !["tokens"] = @ + toks,
                         !["completed"] = @ + 1]

(* Under the contract's lock the outstanding bound gives way to the actual *)
(* usage.  The request is the one that was read before the lock: neither   *)
(* its present state nor the allocation's is looked at.  What would make   *)
(* an outstanding counter negative violates its CHECK and aborts.          *)
SettleStep(r, to, money, toks) ==
    LET c == under[r]
    IN  /\ money <= MoneyBound(r) /\ toks <= TokenBound(r)
        /\ outstanding[c].money >= MoneyBound(r)
        /\ outstanding[c].tokens >= TokenBound(r)
        /\ outstanding' = [outstanding EXCEPT
              ![c].money = @ - MoneyBound(r), ![c].tokens = @ - TokenBound(r)]
        /\ allocation' = [allocation EXCEPT ![r] =
              [state |-> to, money |-> money, tokens |-> toks]]
        /\ used' = [used EXCEPT ![c] = UsedAfter(c, to, money, toks)]
        /\ state' = [state EXCEPT ![r] = to]
        /\ cost' = [cost EXCEPT ![r] = money]
        /\ usage_events' = [usage_events EXCEPT ![r] = @ + 1]
        /\ UNCHANGED <<day, controls, balances, alerts, request, reservation,
                       settled, ledger>>
        /\ UNCHANGED <<contract, closed, expired, token_version, issuing,
                       c_books, under, editing>>

Step(r) == under[r] # None

(* Compensation before dispatch: nobody else settles a reserved request,   *)
(* so what it reads before the lock is what it finds.                      *)
ReleaseStep(r) ==
    /\ Step(r) /\ state[r] = "reserved"
    /\ SettleStep(r, "released", 0, 0)
    /\ UNCHANGED <<fetched, reconciling>>

(* settle reads the request, not final yet, and finds its contract_id. *)
Fetch(w, r) ==
    /\ Step(r) /\ w \notin fetched
    /\ fetched' = fetched \cup {w}
    /\ UNCHANGED <<vars, c_rows, expired, issuing, c_books, under, allocation,
                   editing>>

GatewayFetch(r) == state[r] \in {"dispatched", "uncertain"} /\ Fetch(r, r)

GatewayCommit(r, money, toks) ==
    /\ r \in fetched
    /\ SettleStep(r, "completed", money, toks)
    /\ fetched' = fetched \ {r}
    /\ UNCHANGED reconciling

ReconcileFetch(x) ==
    /\ reconciling[x] # Idle /\ state[reconciling[x]] \notin Final
    /\ Fetch(x, reconciling[x])

ReconcileCommit(x) ==
    LET r == reconciling[x]
    IN  /\ x \in fetched
        /\ SettleStep(r, "completed", MoneyBound(r), TokenBound(r))
        /\ fetched' = fetched \ {x}
        /\ reconciling' = [reconciling EXCEPT ![x] = Idle]

-----------------------------------------------------------------------------
(* close_spend_contract *)

OutstandingIgnored(c) == FALSE
Outstanding(c) == outstanding[c].money > 0 \/ outstanding[c].tokens > 0

(* Every reservation of the contract is booked with what its steps used,  *)
(* started steps standing for requests; the rest is free again.  Budgets  *)
(* and contract are locked and read afresh.                               *)
Close(c) ==
    LET actual == [b \in Budgets |->
                     IF escrow[c][b] > 0 THEN used[c][Unit(b)] ELSE 0]
    IN  /\ contract[c] # "absent" /\ ~closed[c]
        /\ ~Outstanding(c)
        /\ \A b \in Budgets : /\ actual[b] <= escrow[c][b]
                              /\ escrow[c][b] <= reserved[b]
        /\ reserved' = [b \in Budgets |-> reserved[b] - escrow[c][b]]
        /\ spent' = [b \in Budgets |-> spent[b] + actual[b]]
        /\ returned' = [returned EXCEPT ![c] = TRUE]
        /\ c_ledger' = [c_ledger EXCEPT ![c] = [b \in Budgets |->
              IF escrow[c][b] > 0
                THEN Split(c_ledger[c][b], escrow[c][b], actual[b])
                ELSE c_ledger[c][b]]]
        /\ contract' = [contract EXCEPT ![c] =
                          IF @ = "revoked" THEN @ ELSE "completed"]
        /\ closed' = [closed EXCEPT ![c] = TRUE]
        /\ token_version' = [token_version EXCEPT ![c] = @ + 1]
        /\ UNCHANGED <<day, controls, alerts, request, state, cost,
                       reservation, settled, ledger, usage_events, reconciling>>
        /\ UNCHANGED <<expired, outstanding, used, issuing, escrow, steps,
                       editing>>

-----------------------------------------------------------------------------
(* rotate_contract_token and revoke_contract *)

Read(x, op, c) ==
    /\ editing[x] = NoEdit
    /\ editing' = [editing EXCEPT ![x] =
          [op |-> op, contract |-> c, version |-> token_version[c]]]
    /\ UNCHANGED <<vars, c_rows, expired, issuing, c_books, steps>>

RotateRead(x, c) ==
    contract[c] = "active" /\ ~expired[c] /\ Read(x, "rotate", c)

RevokeRead(x, c) ==
    contract[c] # "absent" /\ ~closed[c] /\ Read(x, "revoke", c)

(* The version written is the one that was read plus one, and a rotation   *)
(* issues a token that carries it.                                         *)
NextVersion(x) == editing[x].version + 1

RotateWrite(x) ==
    LET c == editing[x].contract
        v == NextVersion(x)
    IN  /\ editing[x].op = "rotate"
        /\ v <= MaxTokenVersion
        /\ token_version' = [token_version EXCEPT ![c] = v]
        /\ tokens' = [tokens EXCEPT ![c][v] = @ + 1]
        /\ editing' = [editing EXCEPT ![x] = NoEdit]
        /\ UNCHANGED <<vars, contract, closed, expired, outstanding, used,
                       tokenless, c_books, steps>>

(* revoke then closes the contract if it saw nothing outstanding: Close,   *)
(* which refuses by itself where something is.                             *)
RevokeWrite(x) ==
    LET c == editing[x].contract
        v == NextVersion(x)
    IN  /\ editing[x].op = "revoke"
        /\ v <= MaxTokenVersion
        /\ token_version' = [token_version EXCEPT ![c] = v]
        /\ contract' = [contract EXCEPT ![c] = "revoked"]
        /\ editing' = [editing EXCEPT ![x] = NoEdit]
        /\ UNCHANGED <<vars, closed, expired, outstanding, used, issuing,
                       c_books, steps>>

-----------------------------------------------------------------------------
(* Accounting's own operations; its settle serves requests with no        *)
(* contract.                                                               *)

ReconcileOrdinary(x) ==
    /\ \E r \in Requests :
         reconciling[x] = r /\ (Step(r) => state[r] \in Final)
    /\ ReconcileSettle(x)

OrdinaryNext ==
    /\ UNCHANGED cvars
    /\ \/ \E r \in Requests, k \in Keys, i \in Idems, p \in Payloads,
             dm, dd \in Recent : Admit(r, k, i, p, dm, dd)
       \/ \E r \in Requests : Dispatch(r) \/ MarkUncertain(r)
       \/ \E r \in Requests : ~Step(r) /\ Release(r)
       \/ \E r \in Requests, m, t \in Usages :
             ~Step(r) /\ Complete(r, m, t)
       \/ \E x \in Admins, r \in Requests : ReconcileCheck(x, r)
       \/ \E x \in Admins : x \notin fetched /\ ReconcileOrdinary(x)
       \/ \E c \in Caps, l \in Limits, d \in Recent : SetBudget(c, l, d)
       \/ \E a \in Apps, v \in BOOLEAN : Pause(a, v)
       \/ \E k \in Keys : RevokeKey(k)
       \/ NewDay

ContractNext ==
    \/ \E c \in Contracts, dm, dd \in Recent : CreateContract(c, dm, dd)
    \/ \E c \in Contracts : FirstToken(c)
    \/ \E c \in Contracts : Expire(c)
    \/ \E r \in Requests, c \in Contracts, v \in Versions,
          i \in Idems, p \in Payloads, dm \in Recent :
          AdmitStep(r, c, v, i, p, dm)
    \/ \E r \in Requests : ReleaseStep(r)
    \/ \E r \in Requests : GatewayFetch(r)
    \/ \E r \in Requests, m, t \in Usages : GatewayCommit(r, m, t)
    \/ \E x \in Admins : ReconcileFetch(x)
    \/ \E x \in Admins : ReconcileCommit(x)
    \/ \E c \in Contracts : Close(c)
    \/ \E x \in Editors, c \in Contracts : RotateRead(x, c)
    \/ \E x \in Editors, c \in Contracts : RevokeRead(x, c)
    \/ \E x \in Editors : RotateWrite(x)
    \/ \E x \in Editors : RevokeWrite(x)

ContractSpec ==
    Init /\ ContractInit /\ [][OrdinaryNext \/ ContractNext]_allvars

-----------------------------------------------------------------------------
(* Safety of the tenant's books, whatever settlements and reconciliations  *)
(* interleave                                                              *)

OpenEscrow(c, b) == IF returned[c] THEN 0 ELSE escrow[c][b]

ClosedCharge(c, b) ==
    IF c_ledger[c][b].settle = NoEntry THEN 0 ELSE c_ledger[c][b].settle

(* The running totals of every budget row are those of its requests and    *)
(* its contracts together: a step books nothing on the budgets, a contract *)
(* exactly once at each end.                                               *)
FundsBalance ==
    \A b \in Budgets :
        /\ reserved[b] =
             SumFunction([r \in Requests |-> OpenAmount(r, b)]) +
             SumFunction([c \in Contracts |-> OpenEscrow(c, b)])
        /\ spent[b] =
             SumFunction([r \in Requests |-> ChargedAmount(r, b)]) +
             SumFunction([c \in Contracts |-> ClosedCharge(c, b)])

(* "settled contract usage + outstanding step allocations <= contract      *)
(* maximum" (SPEND_CONTRACTS.md), and never more started steps than bought.*)
EnvelopeHolds ==
    \A c \in Contracts :
        /\ \A u \in {"money", "tokens"} :
             used[c][u] + outstanding[c][u] <= Envelope[c][u]
        /\ used[c]["requests"] <= Envelope[c]["requests"]

(* A contract with nothing outstanding can always be closed: what it used *)
(* fits every reservation it took, and every one of them is still held.    *)
ClosingFits ==
    \A c \in Contracts :
        contract[c] # "absent" /\ ~closed[c] =>
            \A b \in Budgets :
                escrow[c][b] > 0 =>
                    /\ used[c][Unit(b)] <= escrow[c][b]
                    /\ escrow[c][b] <= reserved[b]

(* What a closed contract was booked for is what it used, on every row;    *)
(* no late step, reconciliation, rotation or revocation moves it again.    *)
ReceiptAgrees ==
    \A c \in Contracts, b \in Budgets :
        closed[c] /\ escrow[c][b] > 0 =>
            /\ c_ledger[c][b].settle = used[c][Unit(b)]
            /\ c_ledger[c][b].settle + c_ledger[c][b].release = escrow[c][b]

-----------------------------------------------------------------------------
(* Safety of a contract's own books                                        *)

StepsOf(c, st) ==
    {r \in Requests : under[r] = c /\ allocation[r].state = st}

BoundOf(r, u) == Bound[request[r].payload][u]

SettledTwice(c) == \E r \in Requests : under[r] = c /\ usage_events[r] > 1

(* The contract's counters are the sums over its allocations, unless a     *)
(* step was settled twice: by the gateway and by a reconciliation that had *)
(* both read its request before either had the contract's lock.            *)
AllocationsBalance ==
    \A c \in Contracts :
        ~SettledTwice(c) =>
            /\ \A u \in {"money", "tokens"} :
                 /\ outstanding[c][u] =
                      SumFunction([r \in StepsOf(c, "reserved") |->
                                     BoundOf(r, u)])
                 /\ used[c][u] =
                      SumFunction([r \in StepsOf(c, "completed") |->
                                     allocation[r][u]])
            /\ used[c]["completed"] = Cardinality(StepsOf(c, "completed"))

(* "A contract cannot close while an allocation is outstanding"            *)
(* (SPEND_CONTRACTS.md:15).                                                *)
CloseWaitsForSteps ==
    \A c \in Contracts : closed[c] => StepsOf(c, "reserved") = {}

-----------------------------------------------------------------------------
(* Contracts are claims on the budgets, as requests are                    *)

ContractClaim(c) ==
    [phase |-> IF contract[c] = "absent" THEN "absent"
               ELSE IF closed[c] THEN "settled" ELSE "held",
     hold  |-> escrow[c],
     taken |-> [b \in Budgets |-> ClosedCharge(c, b)]]

T == INSTANCE Escrow WITH
        Accounts <- Budgets, Claims <- Requests \cup Contracts,
        limit <- hard_limit,
        claim <- [x \in Requests \cup Contracts |->
                    IF x \in Requests THEN Claim(x) ELSE ContractClaim(x)]

(* Requests and contracts together are claims on the tenant's budgets: no  *)
(* envelope is granted that the budgets do not have room for, and closing  *)
(* takes no more than was held.                                            *)
BudgetsAreEscrow == T!Spec
=============================================================================
