----------------------------- MODULE Accounting -----------------------------
(***************************************************************************)
(* Admission and settlement of ordinary gateway requests against the       *)
(* budgets of one tenant: packages/domain/accounting.py, with the          *)
(* operations of the control API that change what it reads (budgets,       *)
(* pause, key revocation, conservative reconciliation).                    *)
(*                                                                         *)
(* One action is one committed PostgreSQL transaction.  admit, settle and  *)
(* budget() lock the tenant's monthly root money budget before they read   *)
(* any balance and hold it to the commit, and transition locks the only    *)
(* row it reads and writes: each is a single step.  What a transaction     *)
(* reads before its first lock is not: the clock (Recent) and, for a       *)
(* reconciliation, a whole earlier transaction (ReconcileCheck).           *)
(* An exception rolls its transaction back and so is no step.              *)
(*                                                                         *)
(* One tenant is modelled: every query is filtered by tenant_id.           *)
(***************************************************************************)
EXTENDS Integers, FiniteSets, Functions

CONSTANTS
    Apps,          \* applications
    Path,          \* Path[a]: the scopes a is charged in: tenant, a, groups
    Keys, KeyApp,  \* virtual keys, and the application of each
    Idems,         \* idempotency keys
    Payloads,      \* request bodies, as told apart by payload_digest
    Bound,         \* Bound[p][unit]: the most that p can use
    Caps,          \* cap kinds in use: [scope, unit, cadence]
    RootCap,       \* the tenant's monthly money cap
    Limits,        \* hard limits an operator sets
    Usages,        \* amounts a provider may report
    Requests,      \* identities of request rows
    Admins,        \* reconciliation calls that may be in flight together
    LastDay,       \* bound: the clock stops here
    MonthOf,       \* the month a day falls in
    MaxVersion     \* bound: edits of one budget row

Units == {"money", "tokens", "requests"}
Days == 0..LastDay
Budgets == Caps \X Days            \* <<cap, period>>: one row each (UNIQUE)
Root(m) == <<RootCap, m>>
Unit(b) == b[1].unit

States == {"absent", "reserved", "dispatched", "uncertain",
           "completed", "released"}
Final == {"completed", "released"}
Thresholds == {70, 85, 95}
NoEntry == -1
Nobody == [key |-> "none"]
Idle == "idle"

ASSUME CapsAssumption ==
    /\ IsFiniteSet(Caps) /\ RootCap \in Caps
    /\ \A c \in Caps : c.unit \in Units /\ c.cadence \in {"month", "day"}
    /\ RootCap.unit = "money" /\ RootCap.cadence = "month"
ASSUME PathAssumption ==
    /\ KeyApp \in [Keys -> Apps]
    /\ \A a \in Apps : RootCap.scope \in Path[a]
ASSUME BoundAssumption ==      \* "reservation bound must be positive"
    /\ Bound \in [Payloads -> [Units -> Nat \ {0}]]
    /\ \A p \in Payloads : Bound[p]["requests"] = 1
ASSUME ClockAssumption ==
    /\ LastDay \in Nat
    /\ MonthOf \in [Days -> Days]
    /\ \A d, e \in Days : d <= e => MonthOf[d] <= MonthOf[e]
ASSUME NumbersAssumption ==
    Limits \subseteq Nat /\ Usages \subseteq Nat /\ MaxVersion \in Nat \ {0}
ASSUME RequestsAssumption ==
    IsFiniteSet(Requests) /\ Idle \notin Requests

VARIABLES
    day,           \* the UTC day
    rows,          \* budgets: the rows that exist ...
    hard_limit, spent, reserved, version,         \* ... and their columns
    alerts,        \* outbox: thresholds a budget.threshold event exists for
    paused,        \* applications
    revoked,       \* virtual_keys
    request,       \* requests: what a row was admitted for, or Nobody
    state, cost,   \* requests: its state and its recorded cost
    reservation,   \* reservations: amount per request and budget, 0 = no row
    settled,       \* reservations: the settled flag
    ledger,        \* ledger_entries: per request, budget and event
    usage_events,  \* outbox: usage.settled events per request
    reconciling    \* reconciliations between their check and their settle

balances == <<spent, reserved>>
books == <<spent, reserved, request, state, cost, reservation, settled,
           ledger, usage_events>>
controls == <<rows, hard_limit, version, paused, revoked>>
vars == <<day, rows, hard_limit, spent, reserved, version, alerts, paused,
          revoked, request, state, cost, reservation, settled, ledger,
          usage_events, reconciling>>

Posting == Nat \cup {NoEntry}
NoPostings == [reserve |-> NoEntry, settle |-> NoEntry, release |-> NoEntry]

TypeOK ==
    /\ day \in Days
    /\ rows \subseteq Budgets
    /\ hard_limit \in [Budgets -> Nat]
    /\ spent \in [Budgets -> Nat]
    /\ reserved \in [Budgets -> Nat]
    /\ version \in [Budgets -> 0..MaxVersion]
    /\ alerts \in [Budgets -> SUBSET Thresholds]
    /\ paused \in [Apps -> BOOLEAN]
    /\ revoked \in [Keys -> BOOLEAN]
    /\ request \in [Requests ->
          [key : Keys, idem : Idems, payload : Payloads, month : Days]
            \cup {Nobody}]
    /\ state \in [Requests -> States]
    /\ cost \in [Requests -> Nat]
    /\ reservation \in [Requests -> [Budgets -> Nat]]
    /\ settled \in [Requests -> [Budgets -> BOOLEAN]]
    /\ ledger \in [Requests -> [Budgets ->
          [reserve : Posting, settle : Posting, release : Posting]]]
    /\ usage_events \in [Requests -> Nat]
    /\ reconciling \in [Admins -> Requests \cup {Idle}]

-----------------------------------------------------------------------------
(* Helpers *)

(* The days a transaction that commits now may have read from the clock:   *)
(* it may have waited for its lock across one midnight.                    *)
Recent == {d \in Days : d = day \/ d + 1 = day}

(* The period string a cap's row has, given the two clock reads. *)
Period(c, dm, dd) == IF c.cadence = "month" THEN MonthOf[dm] ELSE dd

Committed(b) == spent[b] + reserved[b]

(* A hold of n on row b is within its limit. *)
FitsBefore(b, n) == Committed(b) <= hard_limit[b]
FitsSpent(b, n) == spent[b] + n <= hard_limit[b]
Fits(b, n) == Committed(b) + n <= hard_limit[b]

(* Every budget row, of any period, in the scopes of a. *)
HistoryBelowRoot(a) ==
    {b \in rows : b[1].scope \in Path[a] \ {RootCap.scope}}
History(a) == {b \in rows : b[1].scope \in Path[a]}

(* The rows of the current month and day among them. *)
Charged(a, dm, dd) ==
    {b \in History(a) : b[2] = Period(b[1], dm, dd)}

(* A kind of cap with a row in the past needs a row now. *)
RenewedInSomePeriod(a, dm, dd) ==
    \A h \in History(a) : \E b \in Charged(a, dm, dd) :
        b[1].scope = h[1].scope /\ b[1].unit = h[1].unit
Renewed(a, dm, dd) ==
    \A h \in History(a) : \E b \in Charged(a, dm, dd) : b[1] = h[1]

Taken(k, i) ==
    \E r \in Requests :
        request[r] # Nobody /\ request[r].key = k /\ request[r].idem = i

(* Thresholds that committed amount n reaches under limit l. *)
Crossed(n, l) == {t \in Thresholds : l > 0 /\ n * 100 >= l * t}

(* The events row b has once n more is committed on it. *)
AlertedBefore(b, n) == alerts[b] \cup Crossed(Committed(b), hard_limit[b])
Alerted(b, n) == alerts[b] \cup Crossed(Committed(b) + n, hard_limit[b])

(* A hold's ledger entries: a reserve, then what it came to and the rest. *)
Opened(n) == [reserve |-> n, settle |-> NoEntry, release |-> NoEntry]
SplitInFull(posted, held, actual) ==
    [posted EXCEPT !.settle = held, !.release = 0]
SplitTwice(posted, held, actual) ==
    [posted EXCEPT !.settle = actual, !.release = held]
SplitBackwards(posted, held, actual) ==
    [posted EXCEPT !.settle = actual, !.release = actual - held]
Split(posted, held, actual) ==
    [posted EXCEPT !.settle = actual, !.release = held - actual]

MoneyBound(r) == Bound[request[r].payload]["money"]

-----------------------------------------------------------------------------
(* Initial state: create_org has just inserted the month's root budget. *)

First == Root(MonthOf[0])

Init ==
    /\ day = 0
    /\ rows = {First}
    /\ \E l \in Limits :
         hard_limit = [b \in Budgets |-> IF b = First THEN l ELSE 0]
    /\ spent = [b \in Budgets |-> 0]
    /\ reserved = [b \in Budgets |-> 0]
    /\ version = [b \in Budgets |-> IF b = First THEN 1 ELSE 0]
    /\ alerts = [b \in Budgets |-> {}]
    /\ paused = [a \in Apps |-> FALSE]
    /\ revoked = [k \in Keys |-> FALSE]
    /\ request = [r \in Requests |-> Nobody]
    /\ state = [r \in Requests |-> "absent"]
    /\ cost = [r \in Requests |-> 0]
    /\ reservation = [r \in Requests |-> [b \in Budgets |-> 0]]
    /\ settled = [r \in Requests |-> [b \in Budgets |-> FALSE]]
    /\ ledger = [r \in Requests |-> [b \in Budgets |-> NoPostings]]
    /\ usage_events = [r \in Requests |-> 0]
    /\ reconciling = [x \in Admins |-> Idle]

-----------------------------------------------------------------------------
(* admit *)

(* The request row is inserted, and each budget of charged gets a         *)
(* reservation of the payload's bound in its unit, a ledger entry and the *)
(* threshold events that the new committed amount calls for.              *)
Reserve(r, p, charged) ==
    LET amount == [b \in Budgets |->
                     IF b \in charged THEN Bound[p][Unit(b)] ELSE 0]
    IN  /\ \A b \in charged : Fits(b, amount[b])
        /\ reserved' = [b \in Budgets |-> reserved[b] + amount[b]]
        /\ reservation' = [reservation EXCEPT ![r] = amount]
        /\ ledger' = [ledger EXCEPT ![r] = [b \in Budgets |->
              IF b \in charged THEN Opened(amount[b]) ELSE NoPostings]]
        /\ alerts' = [b \in Budgets |->
              IF b \in charged THEN Alerted(b, amount[b]) ELSE alerts[b]]

(* dm and dd are the two clock reads, of the month and of the day.  A      *)
(* replay or a refusal changes nothing; UNIQUE(tenant, key, idempotency)   *)
(* makes Taken binding even for admissions that hold different root locks. *)
Admit(r, k, i, p, dm, dd) ==
    LET a == KeyApp[k]
    IN  /\ dm <= dd
        /\ Root(MonthOf[dm]) \in rows
        /\ ~revoked[k]
        /\ ~Taken(k, i)
        /\ ~paused[a]
        /\ Renewed(a, dm, dd)
        /\ state[r] = "absent"
        /\ Reserve(r, p, Charged(a, dm, dd))
        /\ request' = [request EXCEPT ![r] =
              [key |-> k, idem |-> i, payload |-> p, month |-> MonthOf[dm]]]
        /\ state' = [state EXCEPT ![r] = "reserved"]
        /\ UNCHANGED <<day, controls, spent, cost, settled, usage_events,
                       reconciling>>

-----------------------------------------------------------------------------
(* transition: "dispatched" before the provider call, "uncertain" after a  *)
(* failure of it; on a final request the latter returns without effect.    *)

Transition(r, from, to) ==
    /\ state[r] = from
    /\ state' = [state EXCEPT ![r] = to]
    /\ UNCHANGED <<day, controls, balances, alerts, request, cost,
                   reservation, settled, ledger, usage_events, reconciling>>

Dispatch(r) == Transition(r, "reserved", "dispatched")

MarkUncertain(r) == Transition(r, "dispatched", "uncertain")

-----------------------------------------------------------------------------
(* settle *)

(* r is not final, and UNIQUE(request, budget, event) admits its postings. *)
MaySettleTwice(r) == TRUE
MaySettle(r) ==
    /\ state[r] \notin Final
    /\ \A b \in Budgets : ledger[r][b].settle = NoEntry
                          /\ ledger[r][b].release = NoEntry

(* Every reservation of r gives way to the actual amount, which it must    *)
(* cover, and reserved may not become negative (CHECK).                    *)
Settle(r, to, charge, actual) ==
    /\ MaySettle(r)
    /\ charge <= MoneyBound(r)
    /\ \A b \in Budgets : /\ actual[b] <= reservation[r][b]
                          /\ reservation[r][b] <= reserved[b]
    /\ spent' = [b \in Budgets |-> spent[b] + actual[b]]
    /\ reserved' = [b \in Budgets |-> reserved[b] - reservation[r][b]]
    /\ settled' = [settled EXCEPT ![r] =
                     [b \in Budgets |-> reservation[r][b] > 0]]
    /\ ledger' = [ledger EXCEPT ![r] = [b \in Budgets |->
                    IF reservation[r][b] > 0
                      THEN Split(ledger[r][b], reservation[r][b], actual[b])
                      ELSE ledger[r][b]]]
    /\ state' = [state EXCEPT ![r] = to]
    /\ cost' = [cost EXCEPT ![r] = charge]
    /\ usage_events' = [usage_events EXCEPT ![r] = @ + 1]
    /\ UNCHANGED <<day, controls, alerts, request, reservation>>

NoCharge == [b \in Budgets |-> 0]

(* What each unit of a reservation is charged for reported usage. *)
Usage(r, money, tokens) ==
    [b \in Budgets |->
        IF reservation[r][b] = 0 THEN 0
        ELSE [money |-> money, tokens |-> tokens, requests |-> 1][Unit(b)]]

(* Compensation of an admission that was never dispatched. *)
Release(r) ==
    /\ state[r] = "reserved"
    /\ Settle(r, "released", 0, NoCharge)
    /\ UNCHANGED reconciling

(* The gateway settles what the provider reported.  Its call follows the   *)
(* dispatch, and may still arrive after a cancelled call marked the        *)
(* request uncertain: the thread that runs it is not cancelled with it.    *)
Complete(r, money, tokens) ==
    /\ state[r] \in {"dispatched", "uncertain"}
    /\ Settle(r, "completed", money, Usage(r, money, tokens))
    /\ UNCHANGED reconciling

-----------------------------------------------------------------------------
(* reconcile: a check in one transaction, a settlement in the next.        *)

ReconcileCheck(x, r) ==
    /\ reconciling[x] = Idle
    /\ \/ state[r] = "uncertain"
       \/ state[r] = "completed" /\ cost[r] = MoneyBound(r)
    /\ reconciling' = [reconciling EXCEPT ![x] = r]
    /\ UNCHANGED <<day, controls, alerts, books>>

(* Charges the bound without a response: each reservation is consumed in  *)
(* full.  A request that is final by now is left as it is.                *)
ReconcileSettle(x) ==
    LET r == reconciling[x]
    IN  /\ r # Idle
        /\ reconciling' = [reconciling EXCEPT ![x] = Idle]
        /\ \/ /\ state[r] \in Final
              /\ UNCHANGED <<day, controls, alerts, books>>
           \/ Settle(r, "completed", MoneyBound(r), reservation[r])

-----------------------------------------------------------------------------
(* Operators of the tenant, and the clock. *)

(* budget(): the cap's row for the period of the clock is inserted, or its *)
(* limit replaced.  The caller quotes the row's version: any version is    *)
(* somebody's, so the check refuses no limit, only a stale caller.         *)
SetBudget(c, l, d) ==
    LET b == <<c, Period(c, d, d)>>
    IN  /\ version[b] < MaxVersion
        /\ rows' = rows \cup {b}
        /\ hard_limit' = [hard_limit EXCEPT ![b] = l]
        /\ version' = [version EXCEPT ![b] = @ + 1]
        /\ UNCHANGED <<day, books, alerts, paused, revoked, reconciling>>

Pause(a, v) ==
    /\ paused[a] # v
    /\ paused' = [paused EXCEPT ![a] = v]
    /\ UNCHANGED <<day, rows, hard_limit, version, alerts, books, revoked,
                   reconciling>>

RevokeKey(k) ==
    /\ ~revoked[k]
    /\ revoked' = [revoked EXCEPT ![k] = TRUE]
    /\ UNCHANGED <<day, rows, hard_limit, version, alerts, books, paused,
                   reconciling>>

NewDay ==
    /\ day < LastDay
    /\ day' = day + 1
    /\ UNCHANGED <<controls, alerts, books, reconciling>>

-----------------------------------------------------------------------------
Next ==
    \/ \E r \in Requests, k \in Keys, i \in Idems, p \in Payloads,
          dm, dd \in Recent : Admit(r, k, i, p, dm, dd)
    \/ \E r \in Requests : Dispatch(r)
    \/ \E r \in Requests : MarkUncertain(r)
    \/ \E r \in Requests : Release(r)
    \/ \E r \in Requests, m, t \in Usages : Complete(r, m, t)
    \/ \E x \in Admins, r \in Requests : ReconcileCheck(x, r)
    \/ \E x \in Admins : ReconcileSettle(x)
    \/ \E c \in Caps, l \in Limits, d \in Recent : SetBudget(c, l, d)
    \/ \E a \in Apps, v \in BOOLEAN : Pause(a, v)
    \/ \E k \in Keys : RevokeKey(k)
    \/ NewDay

Spec == Init /\ [][Next]_vars

-----------------------------------------------------------------------------
(* Safety *)

OpenAmount(r, b) == IF settled[r][b] THEN 0 ELSE reservation[r][b]

ChargedAmount(r, b) ==
    IF ledger[r][b].settle = NoEntry THEN 0 ELSE ledger[r][b].settle

(* The running totals of every budget row equal what the child tables say: *)
(* reserved is the sum of the reservations that are not settled, spent the *)
(* sum of the settle entries.  This is what scripts/restore_check.py       *)
(* asserts after a restore; admit and settle update the totals and the     *)
(* tables in different statements and for different sets of rows.          *)
BooksBalance ==
    \A b \in Budgets :
        /\ reserved[b] = SumFunction([r \in Requests |-> OpenAmount(r, b)])
        /\ spent[b] = SumFunction([r \in Requests |-> ChargedAmount(r, b)])

(* What is posted of request r against row b, given r's state. *)
EntriesFollow(r, b) ==
    LET posted == ledger[r][b]
        over == state[r] \in Final
    IN  IF reservation[r][b] = 0
          THEN posted = NoPostings /\ ~settled[r][b]
          ELSE /\ posted.reserve = reservation[r][b]
               /\ settled[r][b] <=> over
               /\ ~over => posted.settle = NoEntry /\ posted.release = NoEntry
               /\ over => /\ posted.settle \in 0..posted.reserve
                          /\ posted.settle + posted.release = posted.reserve
               /\ state[r] = "released" => posted.settle = 0

(* A reservation's postings tell its whole life: reserved in full, then,  *)
(* once and only when the request is final, split in full between charge  *)
(* and release.  An undispatched request is charged nothing, a dispatched *)
(* or uncertain one has given nothing back, and usage is reported once.   *)
PostingsFollowState ==
    \A r \in Requests :
        /\ usage_events[r] = (IF state[r] \in Final THEN 1 ELSE 0)
        /\ \A b \in Budgets : EntriesFollow(r, b)

(* Whatever any application spends or holds against a monthly money cap of *)
(* its own or of a group, the tenant's root cap of that month spends and   *)
(* holds too: no child total exceeds the root's, across rollovers, late    *)
(* settlements and rows inserted while requests are in flight.             *)
RootCoversScopes ==
    \A c \in Caps, m \in Days :
        c.unit = "money" /\ c.cadence = "month" =>
            /\ spent[<<c, m>>] <= spent[Root(m)]
            /\ reserved[<<c, m>>] <= reserved[Root(m)]

(* While a budget row still has its first limit, no threshold its         *)
(* committed amount has reached is without its event: settlements, which   *)
(* write no threshold event, never carry a row over one.                   *)
NoSilentCrossing ==
    \A b \in rows :
        version[b] = 1 =>
            Crossed(Committed(b), hard_limit[b]) \subseteq alerts[b]

(* No step leaves a row with more committed than before and more than its *)
(* limit allows.  Limits may fall below what is committed ("reductions     *)
(* preserve existing reservations"); from there a row may only shrink.     *)
NeverOvercommits ==
    [][\A b \in Budgets :
          Committed(b)' > Committed(b) => Committed(b)' <= hard_limit'[b]]_vars

(* Whoever settles first, the gateway, a compensation or a reconciliation, *)
(* settles for good: a final request never changes state, cost, postings   *)
(* or the totals it was booked to, and is never dispatched.                *)
SettledOnce ==
    [][\A r \in Requests :
          state[r] \in Final =>
              /\ state'[r] = state[r] /\ cost'[r] = cost[r]
              /\ ledger'[r] = ledger[r] /\ settled'[r] = settled[r]
              /\ usage_events'[r] = usage_events[r]]_vars

(* A cap cannot lapse silently: an admission holds something against every *)
(* kind of cap that the scopes of its application have had in any period   *)
(* ("renewal fails closed when an inherited cap expires").                 *)
RenewalFailsClosed ==
    [][\A r \in Requests :
          state[r] = "absent" /\ state'[r] # "absent" =>
              \A h \in History(KeyApp[request'[r].key]) :
                  \E n \in Days : reservation'[r][<<h[1], n>>] > 0]_vars

-----------------------------------------------------------------------------
(* The budgets as an escrow: a request is a claim on the rows it was       *)
(* admitted against.                                                       *)

Claim(r) ==
    [phase |-> IF state[r] = "absent" THEN "absent"
               ELSE IF state[r] \in Final THEN "settled" ELSE "held",
     hold  |-> reservation[r],
     taken |-> [b \in Budgets |-> ChargedAmount(r, b)]]

E == INSTANCE Escrow WITH
        Accounts <- Budgets, Claims <- Requests,
        limit <- hard_limit, claim <- [r \in Requests |-> Claim(r)]

(* The running totals that admit decides by do what sums over all requests *)
(* would do: the accounting implements the escrow.                         *)
ImplementsEscrow == E!Spec
=============================================================================
