# Quiblyx: a TLA+ model

Quiblyx puts a spending limit in front of AI calls. A gateway admits a call
only after its worst-case cost has been reserved on every budget it falls
under, and settles it afterwards for what it used. This directory models that
accounting and what surrounds it (the gateway's calls, the control API's tree
and memberships, the worker, locks and connections), checks it with TLC and
proves much of it with TLAPS. Paths below are relative to the repository's root
(`src/`).

## The system

| Component | Code | State | Operations | Here |
|---|---|---|---|---|
| Ordinary accounting | `packages/domain/accounting.py:13-149` | `budgets`, `requests`, `reservations`, `ledger_entries`, `outbox_events` | `admit`, `transition`, `settle` | `Accounting` |
| Spend contracts | `accounting.py:152-316`, `control_api/main.py:289-345` | `spend_contracts`, `contract_reservations`, `contract_allocations`, `contract_ledger_entries` | create, admit a step, settle a step, close, issue, rotate, revoke | `SpendContracts` |
| Budgets, pause, keys, reconciliation | `control_api/main.py:194-280,458-474` | `budgets`, `applications`, `virtual_keys` | `budget`, `pause`, `revoke_key`, `reconcile` | `Accounting` |
| Gateway | `gateway/main.py`, `providers/mock.py` | one coroutine per call and its threads, a Redis counter | authenticate, admit, quota, dispatch, stream, settle or mark uncertain | `Gateway` |
| Hierarchy | `control_api/main.py:153-191,440-455`, `security.py:88-100` | `groups`, `applications` | create, move, walk to the root | `Hierarchy` |
| Memberships and roles | `control_api/main.py:368-413`, `security.py:64-85` | `memberships`, `roles` | authorize, assign, create role | `Governance` |
| Worker | `worker/main.py` | `outbox_events.delivered`, the Celery queue | `drain`, its retries and redeliveries | `Outbox` |
| Row locks | every transaction above | locks of PostgreSQL | lock, wait, give back, abort | `LockOrder` |
| Connections | `domain/db.py`, `observability/http.py:12-22` | the engine's pool | check out, nest, time out | `Pool` |
| Identity, schemas, metrics, migrations, scripts, web console, deployment | | | | not modelled |

The components share PostgreSQL and little else. The gateway and the control
API call the functions of `accounting.py` from worker threads; each function is
one transaction (`domain/db.py`: commit at the end of the `with` block, roll
back on any exception). The isolation level is PostgreSQL's READ COMMITTED, and
mutual exclusion comes from row locks: `admit`, `settle`, `budget` and
`create_spend_contract` take the tenant's monthly *root* money budget first.

### What is hard, and what makes it correct

* A request has several would-be settlers: the gateway that made the call, its
  compensation before dispatch, an administrator's reconciliation, and a thread
  that outlives a cancelled call. Exactly one may count (`SettledOnce`,
  `PostingsFollowState`).
* The totals `spent` and `reserved` that admissions decide by are updated beside
  the rows they summarise, by different functions and for different sets of rows
  (`BooksBalance`, `FundsBalance`, `ImplementsEscrow`).
* A limit holds under parallel admissions, while operators lower it, and across
  midnight, when month and day are read from the clock before a lock is waited
  for (`NeverOvercommits`, `RenewalFailsClosed`, `RootCoversScopes`).
* Threshold events are written only on admission, although settlements also
  move the totals (`NoSilentCrossing`).
* A contract's step reserves nothing on the budgets, so its own counters carry
  the whole burden (`EnvelopeHolds`, `AllocationsBalance`, `ClosingFits`,
  `ReceiptAgrees`, `CloseWaitsForSteps`).
* A chat call is a coroutine whose transactions run in threads. Cancelled at an
  await it leaves its thread running, and an exception does not say whether the
  commit took place (`ProviderIsCovered`, `ThreadsFit`, `BooksMatchProvider`,
  `ToldIsCharged`, `GatewayIsAccounting`); who frees a hold then (`HoldsResolve`).
* Row locks are taken in an order that no single place states, some of them by
  INSERTs (`DeadlocksNeedAClose`, `EveryTransactionEnds`), and two handlers
  need a second connection while they keep one (`ExhaustionIsNested`,
  `EveryCallIsAnswered`).
* A mail is sent before the transaction that records it commits, by tasks that
  are retried, redelivered and run side by side (`NeverLost`,
  `DuplicatesNeedRollback`, `ImplementsAtLeastOnce`).
* A role is read in an earlier transaction than the membership it entitles to
  change; the last owner is counted while others are demoted
  (`OnlyOwnersMoveOwners`, `AlwaysAnOwner`).
* The tree of groups is walked one row at a time while moves change it
  (`Acyclic`, `PathIsCurrent`).
* Reads that precede a lock and are never repeated. The ordinary path rereads
  (`populate_existing`), the contract path, rotation and revocation do not.

`PROJECT.json` lists every hazard at its line, with the properties that watch it
or the reason why none does yet.

## The modules

| Module | What it is |
|---|---|
| `Escrow` | Abstract: accounts with limits, claims that hold and are settled once. No running totals; what is held and taken are sums over the claims. |
| `Accounting` | Ordinary requests on the budgets of one tenant, and the operators' actions. |
| `SpendContracts` | EXTENDS `Accounting` with contracts, their steps and their tokens. |
| `Gateway` | EXTENDS `Accounting` with the calls, threads, faults, the Redis window and the provider. |
| `AtLeastOnce` | Abstract: what an outbox promises. |
| `Outbox` | The worker's drains over the tenants' events. |
| `LockOrder` | The row locks of every kind of transaction. |
| `Pool` | The connections of a process of the control API. |
| `Governance` | Memberships and roles of one tenant. |
| `Hierarchy` | The tree of groups, and who walks it. |
| `MC...` | Values of the constants for TLC. |
| `AccountingProofs`, `SpendContractsProofs`, `GatewayProofs`, `OutboxProofs`, `LockOrderProofs`, `GovernanceProofs`, `HierarchyProofs`, `PoolProofs` | The theorems about these modules. |

`SpendContracts` and `Gateway` compose with `Accounting`: they call its actions
and share its variables. The other four abstract from what transactions do to
the books: locks, connections, memberships and groups matter to `Accounting`
only through the atomicity of its actions, the constant `Path` and the events
that `Outbox` drains.

### Accounting

One action is one committed transaction. A transaction that holds the root lock
reads and writes without interference, so it is one step even where the code has
many statements; a rolled-back one changes nothing and is no step.

* A budget row is identified by `<<cap, period>>`, a cap being scope, unit and
  cadence. Periods are days; a month is named by one (`MonthOf`). `admit`
  tells cadences apart by the length of the period string (`accounting.py:66`);
  the model has it in the cap.
* `Path[a]` is the tenant, the application and its groups (`accounting.py:61`).
* `Admit` is `admit` to its commit: root row, key, idempotency, pause, renewal,
  room on every charged row, then `Reserve` writes request, reservations,
  entries and threshold events. Replays and refusals change nothing.
* `Recent` lets each clock read be one midnight old: `month()` and the day are
  read before the root lock is waited for, separately, in this order.
* `Transition` is `transition`; `Dispatch` and `MarkUncertain` are its uses.
* `Settle` is the ordinary `settle` after its locks; `Release`, `Complete` and
  `ReconcileSettle` are its three uses. The CHECK and UNIQUE constraints
  that could stop it are guards.
* `ReconcileCheck` and `ReconcileSettle` are the two transactions of
  `reconcile`; `reconciling` is what the call remembers in between.
* `SetBudget` is `budget`. The version the caller quotes refuses only stale
  callers, and every version is somebody's.
* `Init` is the state `create_org` leaves: the root row of the month and no other.
* Not here: the stored response and replay of it, audit rows, issuing keys.

### SpendContracts

Creation, step admission and close lock what they decide by and are one step
each. Settlement of a step is two: `Fetch` is the SELECT of the request
without a lock (`accounting.py:104-109`), `SettleStep` everything after the
contract's lock. SQLAlchemy's identity map keeps the object that `Fetch` loaded,
so line 247 tests the state it had then. Rotation and revocation are likewise
`Read` and `Write`. `FirstToken` is `create_contract`'s later transaction.
`Expire` is only the clock: the code's `state = "expired"` is rolled back by the
exception after it. A token is the version it carries; `tokens` counts how many
exist of each. `AdmitStep` does not ask whether the key is revoked: the gateway
authenticated it in an earlier transaction, and `admit_contract` does not.

### Gateway

* `stage[c]` is where the coroutine of a call is, `work[c]` the threads it has
  handed a transaction (or the Redis script) to and that have not finished.
  Each await of `chat` and `execute` is a stage of its own. `Thread` is a
  thread's commit together with the coroutine's way on, if it still waits;
  `Returned`, `Raised` and `Cancelled` say where that is: only `execute`, once
  it has begun, has a handler that marks the request uncertain
  (`gateway/main.py:127-130`), and only the quota check one that releases it.
* The effect of a thread is an action of `Accounting`; `Settles` adds the stored
  response that a replay answers with.
* Faults: `ThreadFails` (an exception, the commit done or not), `Disconnect` (a
  client leaves a stream), `Shutdown` (every call cancelled at its await),
  `Crash`. A failing provider and a full window are no faults but outcomes.
* A retry by the client is another call with the same key and idempotency key.
* Clock, budgets, pause and keys stand still; an administrator may reconcile.

### Outbox

A drain is one task. It goes through the tenants, one transaction each: `Fetch`
takes up to `Limit` undelivered rows that no other worker has locked
(`FOR UPDATE SKIP LOCKED`), `Handle` mails one, `Commit` marks the batch. Any of
it can fail: `MailTimeout` (the mail is out, the batch is rolled back and the
task retried), `Unreachable` during an `Outage`, `DatabaseError` (the task is
not retried, only `OSError` is), `Crash` and `Redeliver` (late acknowledgement).
`Beat` enqueues another drain whether or not one is running. `mailed` and
`undone` count each event's mails, all and those of rolled-back batches.

### LockOrder

A transaction is the set of rows it will lock (`Footprints`, one per kind) in
the order of `Place`: the root budget first, then rows by id and by table as the
code takes them. `close` takes its budgets by id alone (`accounting.py:285-290`).
Rows nobody thinks of as locks are among them: the unique slot of an idempotency
key, the tenant's row that every INSERT shares. What the rows hold is left out.

### Governance and Hierarchy

`Authorize` is a transaction of its own whose finding is remembered and acted on
later. In `Governance` the lock on the tenant's row, the reads under it and the
commit are three steps. In `Hierarchy` each group that `ancestry` reads is a
step; a creation locks nothing while it walks, a move the root of the month it
read from the clock and the tenant's row, an admission the root alone. An
INSERT shares the tenant's row and so waits for its holder.

### Pool

`Plan` gives each handler's transactions in order: most run `authorize`'s and
then their own, `create_key` and `create_contract` call `authorize` inside one.
Waiting for a connection ends with one or with a 503.

## The runs

Deadlock is checked except in `locks` and the `gateway` runs, where each
transaction or call runs once and everything may have ended. Symmetry is used on
request identities, idempotency keys, members, groups and calls, and only in
runs that check no liveness.

| Run | Shows | Bounds |
|---|---|---|
| `shared` | settlers race, totals equal tables, limits and thresholds; refines `Escrow` | 2 requests, 2 applications, root and group cap, limits 2 and 4 edited while requests are in flight, 1 reconciliation, any usage 0..3 against a bound of 2 |
| `rollover` | periods, renewal, the root above a group across months | 2 requests, 3 days, 2 months, daily and monthly caps |
| `contracts` | a contract's own books and the tenant's, with reconciliation and token edits; refines `Escrow` | 3 requests, 1 contract of 3 steps with money for 2 of them, beside an ordinary request, 1 reconciliation, 1 editor that writes 1 version |
| `locks` | who may wait for whom, and that every wait ends | 3 transactions of the kinds that take several rows, a child row before the root by id |
| `outbox` | drains side by side, mails before commits, every event is taken off; implements `AtLeastOnce` | 2 workers, batches of 2, 3 events of one tenant (2 of them thresholds), a tenant with none, 1 retry, 1 fault of any kind |
| `governance` | roles read earlier than they are used, the last owner | 3 subjects, 2 calls, 1 custom role |
| `gateway` | calls, threads and faults over the books; refines `Accounting` | 2 calls (plain and streamed, same or other idempotency key), 2 requests, 1 reconciliation, a window of 1 call, 4 faults of 5 kinds |
| `gateway_live` | holds are resolved, windows end | as above, 1 fault: Redis, a client that leaves, a crash |
| `hierarchy` | the walk against moves and creations | 3 groups, 1 application, 2 calls, 2 months, walks of 2 groups |
| `pool` | when the pool exhausts itself, and that calls are answered | 3 threads, 2 connections |

Two requests suffice where a property relates one request to its settlers; three
are used where two must hold while a third is settled twice. Bounds of 1 or 2
units make every comparison with a limit reachable from both sides. Two calls or
workers are what each of these races takes; a third transaction in `locks` makes
longer cycles and waits behind waits. Three groups have cycles of every shape a
move can close; walks of 2 make the depth limit bite. A batch of 2 leaves one of a
tenant's three rows out, and may hold two thresholds of which the second's mail
fails; tenants meet in the order of a drain's visits only, so that one may be empty.
What does not depend on a bound is proved (below).

Bounds by name: `MaxVersion` and `MaxTokenVersion` cap edits, `LastDay` and
`LastMonth` the clock, `MaxFaults` the faults, `MaxRetries` and `MaxQueued` the
worker's tasks, `MaxDepth` the walk (64 in the code), `Quota` the window (600),
`Limit` the batch (100), `Size` the pool (15).

The refinements: `ImplementsEscrow` and `BudgetsAreEscrow` say that totals kept
incrementally decide as sums over all claims would, for requests alone and for
requests and contracts; `ImplementsAtLeastOnce` that the drains are an outbox;
`GatewayIsAccounting` that whatever coroutines, threads and faults do, they do to
the books what `Accounting` allows, although `Gateway` leaves out the guards on a
request's state that would make that true by construction.

### Fairness

* `LockOrder`: a transaction that need not wait goes on and commits, and
  PostgreSQL's deadlock check comes (`deadlock_timeout`). Each runs once, so
  nothing is assumed of the order of queues.
* `Outbox`: beat enqueues every ten seconds (`worker/main.py:13`), an idle worker
  takes a waiting task, a running one goes on, the sink comes back. Faults and
  events are finitely many; under an endless stream of either, nothing is promised.
* `Gateway`: coroutines and threads of a living process go on, and the window's
  time to live passes. No client is obliged to call, no fault to come, no
  administrator to reconcile; a crash frees the properties from what it left.
* `Pool`: threads run on, and a wait for a connection is served or times out.

`Accounting`, `SpendContracts`, `Governance` and `Hierarchy` are safety only:
nothing in the code obliges a gateway to finish a call or a user to act.

### Where code and documentation disagree

Two runs exhibit a disagreement; `PROJECT.json` quotes the lines.

* `contract_close`: a step settled twice, by the gateway and a reconciliation that
  both read it before the contract's lock, takes its bound out of `outstanding`
  twice. With another step in flight, nothing looks outstanding and the
  contract closes over it. `contracts` shows that even then the tenant's budgets
  balance, the envelope holds and the receipt agrees, and that the contract's
  counters are the sums over its steps unless a step was settled twice.
* `gateway_disconnect`: a stream whose client leaves before the server iterates
  its body stays `dispatched`; `reconcile` takes `uncertain` requests only, so
  nobody can free its hold.

Others were met while modelling. The modules behave as the code does; no run
repeats them:

* Two rotations that read the same version both write its successor and issue two
  valid tokens of it (`control_api/main.py:314`); `docs/SPEND_CONTRACTS.md:19` has
  each rotation invalidate the token before it.
* `scripts/restore_check.py:16` sums the reservations of requests alone and fails
  of a healthy database with an open contract.
* `admit_contract` (`accounting.py:198`) never looks at the application, so that a
  pause ("New admissions stop", `control_api/main.py:280`) does not stop steps.
* `create_spend_contract` (`accounting.py:168`) does not insist on renewal of
  lapsed caps as `admit` does and `docs/adr/0001-budget-authority.md:13` says.
* `reconcile` may answer a cost it did not charge, if the gateway settles between
  its two transactions (`control_api/main.py:471-474`).
* `close_spend_contract` locks budgets by id, the root among them, where
  `docs/adr/0001-budget-authority.md:5` has the root first. With an admission this
  is a cycle that only PostgreSQL's check ends (`locks`).
* `move_group` locks the root of the month it reads from the clock, if there is
  one. After a change of month an admission may hold another root, and commits
  charges to a path that no longer exists ("Match admission's root lock",
  `control_api/main.py:445`). `PathIsCurrent` is therefore about the first month.
* A group may be created at depth 65, and a move checks the new parent's path
  alone, so that groups below the moved one may end up beyond the 64 that
  `ancestry` walks; no document says otherwise.

## The proofs

| Module | Theorem | States |
|---|---|---|
| `AccountingProofs` | `TypeCorrect` | `Spec => []TypeOK` |
| | `BooksAreBalanced` | `Spec => []BooksBalance` |
| | `PostingsAreLives` | `Spec => []PostingsFollowState` |
| | `FinalIsFinal` | `Spec => SettledOnce` |
| | `LimitsAreHard` | `Spec => NeverOvercommits` |
| | `CrossingsAreTold` | `Spec => []NoSilentCrossing` |
| | `RootCovers` | `Spec => []RootCoversScopes` |
| | `NoCapLapses` | `Spec => RenewalFailsClosed` |
| | `AccountingIsEscrow` | `Spec => ImplementsEscrow` |
| `SpendContractsProofs` | `ContractsTyped` | `ContractSpec => []ContractTypeOK` |
| | `EnvelopesAreHard` | `ContractSpec => []EnvelopeHolds` |
| | `ReceiptsAgree` | `ContractSpec => []ReceiptAgrees` |
| | `FundsBalanced` | `ContractSpec => []FundsBalance` |
| | `ClosesFit` | `ContractSpec => []ClosingFits` |
| | `AllocationsAgree` | `ContractSpec => []AllocationsBalance` |
| | `TenantLimitsAreHard` | `ContractSpec => NeverOvercommits` |
| | `TenantCrossingsAreTold` | `ContractSpec => []NoSilentCrossing` |
| | `TenantRootCovers` | `ContractSpec => []RootCoversScopes` |
| | `TenantIsEscrow` | `ContractSpec => BudgetsAreEscrow` |
| | `ClosesWaitForSteps` | `ContractSpec => []CloseWaitsUnlessTwice`: where no step is settled twice, `CloseWaitsForSteps` |
| | `ClosedIsClosed` | `ContractSpec => ClosedForGood`: a closed contract's counters and entries never move |
| | `StepsBookNowhere` | `ContractSpec => []StepsAreUnbooked`: nothing is posted on a budget in a step's name |
| | `OrdinaryFinalIsFinal` | `ContractSpec => OrdinarySettledOnce`: `SettledOnce`, of requests that are no steps |
| `GatewayProofs` | `CallsAreAccounted` | `CallsSpec => GatewayIsAccounting` |
| | `CallsTyped` | `CallsSpec => []CallsTypeOK` |
| | `ThreadsAreFit` | `CallsSpec => []ThreadsFit` |
| | `BooksFollowProvider` | `CallsSpec => []BooksMatchProvider` |
| | `ToldAreCharged` | `CallsSpec => []ToldIsCharged` |
| | `ProviderCovered` | `CallsSpec => []ProviderIsCovered` |
| | `CallsKeepTheBooks` | `CallsSpec` implies `[]BooksBalance`, `[]PostingsFollowState`, `[]RootCoversScopes`, `[]NoSilentCrossing`, `SettledOnce`, `NeverOvercommits`, `RenewalFailsClosed`, `ImplementsEscrow` |
| `LockOrderProofs` | `LocksKeepFootprints` | `Spec => [](TypeOK /\ FootprintKept /\ LocksExclude)`: a transaction locks one footprint of its function, and exclusively but for references to the tenant |
| | `NoCycleOfWaits` | `Spec => []DeadlocksNeedAClose` |
| `OutboxProofs` | `DrainsStayApart` | `Spec => [](TypeOK /\ BatchesDisjoint)`: no row is in two batches at once |
| | `NothingLost` | `Spec => []NeverLost` |
| | `DuplicatesAreRollbacks` | `Spec => []DuplicatesNeedRollback` |
| | `DrainsAreAnOutbox` | `Spec => A!Safety`, the safety half of `ImplementsAtLeastOnce` |
| `GovernanceProofs` | `GovernanceTyped` | `Spec => []TypeOK` |
| | `OwnerAlways` | `Spec => []AlwaysAnOwner` |
| | `OwnersAreMovedByOwners` | `Spec => OnlyOwnersMoveOwners` |
| `HierarchyProofs` | `WalksAndLocksInFlight` | `Spec => [](TypeOK /\ ParentsExist /\ ...)`, and for each call `WalksExist` and `LocksHeld`: walks stay among existing groups, locks belong to the calls in flight that need them |
| | `GroupsAreAForest` | `Spec => []Acyclic` |
| | `FirstMonthsPathsAreCurrent` | `Spec => []PathIsCurrent` |
| `PoolProofs` | `PoolTyped` | `Spec => []TypeOK` |
| | `OnlyNestingExhausts` | `Spec => []ExhaustionIsNested` |

Each holds for every value of the constants, from the named ASSUMEs of the
modules alone: finite sets of requests, caps and calls, positive bounds, a
monotone calendar, roots that are no children, names that differ (the ids of
requests, contracts and administrators; the marks for "no row"). None is
stronger than what the code ensures.

**Sums.** `AccountingProofs` begins with what it needs of `SumFunction`: that a sum
over a finite set exists, is a natural number and moves by what one term moves
(`SumUpdate`), that it is monotone, and that a sum over two disjoint sets is the two
sums (`SumSplit`). The library defines it by recursion on subsets; that the
recursive function exists is shown by exhibiting the cardinality of a set of marks,
the rest by a smallest counterexample.

**Accounting.** The inductive invariant `IInv` is `Sound` (types, `RowsKnown`,
`EntriesKnown`), `UsageToldOnce` and `BooksBalance`. `BooksBalance` alone is not
inductive: that a settlement moves the two sums by what it moves the totals needs
that nothing of the request was settled or charged before, which `EntriesKnown`
says; that an admission does needs that a request without a row has no
reservation, which `RowsKnown` says. `Sound` is kept apart because it is all that
contracts, which tell usage by themselves, can use. `SettleSound` proves the step
once for all three settlers. `MaySettle`'s guard on the state, not the UNIQUE
constraint, is what the proof uses.
`NoSilentCrossing` needs that a row that does not exist yet is at version 1 with
nothing committed (`RowsBegin`), and that no settlement raises what a row commits.
`RootCoversScopes` compares two sums term by term: whoever holds something on a
monthly money row holds as much on the root of that month (`HeldUnderRoot`), and
what is charged of two equal amounts is equal. For `Escrow`, a request's claim is
read off its row; totals are sums over claims (`TotalsAreSums`), and each step
opens one claim, closes one, moves a limit or does nothing.

**Contracts.** `Contained` says who holds what: a step has a row and reserves
nothing on the budgets; a settlement between its two transactions is of a step; an
open contract has booked nothing and has a version left for its closing; a closed
one has nothing outstanding and is not active, so that neither a late settlement
nor an admission can move it. The envelope and the receipt follow by arithmetic
and are part of it. `FundsBalance` and `AllocationsBalance` are sums over all
contracts and over all requests, kept with `SumUpdate`: a step allocates once, and
`SettledTwice` is exactly when its bound leaves `outstanding` again. `ClosingFits`
is `FundsBalance` and one term of a sum. For the escrow of the tenant a step means
nothing and a contract is a claim; `SumSplit` puts both kinds under one sum, which
is where request ids must not be contract ids (both are fresh UUIDs).
The limits, the alerts and the root, which runs check for requests alone, hold
beside contracts as well: only a creation adds to what a row commits, and no more
than fits, and alerts as an admission does; a closing takes from it; steps move no
row. For the root, an envelope held on a monthly money row is held on the root of
the month and both are booked the same use (`EscrowUnderRoot`).
`ClosesWaitForSteps` marks how far the finding of `contract_close` goes: a closed
contract has nothing outstanding, what is outstanding is the sum of the bounds of
its running steps while none is settled twice, and a bound is positive. The same
bound is why no late settlement moves a closed contract: it would make
`outstanding` negative. `RenewalFailsClosed` has no such counterpart: a step holds
nothing on a row, and `create_spend_contract` does not look at caps that lapsed.

**Gateway.** `GInv` is a table (`Served`): at which stage a call may have which
threads left, in what state its request then is, how often the provider was called
and whether it has reported. Only one call serves a request (`OneCallEach`), and
what another call or an administrator may do to it in the meantime is to settle an
`uncertain` one (`ReconcilersKnown`). Everything else is one line of the table
leading to another: a thread's commit or failure, a cancellation, the end of the
process. The other invariants are read off the table; that every step is one of
`Accounting` comes from it too, since it supplies the guards on a request's state
that the gateway itself does not have. So every theorem about `Accounting`'s
behaviours holds of the calls' (`CallsKeepTheBooks`).

**Locks.** What a transaction holds lies before what it still wants, in one order
for all kinds but `close`. In a set without a close that waits for itself, take a
member that waits for a row as late in the order as any: the member that holds
this row waits for a later one. That locks exclude (`LocksExclude`) is inductive by
itself: a row is taken by a transaction that does not wait, and nothing then keeps
it from the row it asks for (`NextIsFree`).

**Outbox.** An exact account of each event's mails: those undone by rollbacks, and
one more if the event is delivered or handled in an open batch
(`MailsAccounted`). That it is one and not one for each worker needs that no two
batches share a row (`BatchesDisjoint`), which skipped locks give. The same account
makes each step one of `AtLeastOnce`'s or none (`OutboxStep`).

**Governance.** That an owner remains is decided before the commit that relies on
it. It stays true because only the holder of the tenant's row writes memberships
(`CheckedSafe`); what an actor was entitled to is carried along (`CallJudged`).

**Hierarchy.** A move decides by what it saw. While it holds the tenant's row
nobody else writes a parent, so that what it saw is the present path
(`MovesSeeThePath`); then a set of groups that no parent led out of after the
move would have had one inside that this path crosses before it (`NoNewCycle`).
For paths, all calls of the first month hold the one root there is (`OneMonth`).
Which locks a call has is carried along by itself (`LocksHeld`), with the order it
takes them in (`InOrder`); no step takes a group away (`GroupsStay`), so that what
a walk has seen goes on existing.

**Pool.** A thread that waits while it keeps a connection keeps one and serves a
kind whose plan nests (`OnlyNestersWait`); that is inductive with the fact that
what is left of a plan nests only if the plan did (`OnlyPlannedNests`). In an
exhausted pool the connections in use then map into the nesting threads, one to
one, so there are at least `Size` of these.

Only model-checked: liveness (`EveryCallIsAnswered`, `HoldsResolve`, `WindowsEnd`,
`EveryTransactionEnds`, `DisconnectsReconcile`, which fails, and the fairness half
of `ImplementsAtLeastOnce`), which is outside what the proof system handles, as
ENABLED is; and `CloseWaitsForSteps`, which fails. Every other property of a run is
a theorem. These are proved and no run repeats them: the type invariants of `LockOrder` and
`Outbox`, `FootprintKept`, `LocksExclude`, `BatchesDisjoint`, `ParentsExist`,
`WalksExist`, `LocksHeld`, `CloseWaitsUnlessTwice`, `ClosedForGood`,
`StepsAreUnbooked` and `OrdinarySettledOnce`.

## Not modelled

* Issuing and rotating virtual keys: the set of keys is fixed. Audit and metric
  rows, which nothing reads back; the stored response outside `Gateway`.
* Token claims, model lists and tool lists: they refuse and change nothing.
* `admit` reads the key and the pause without a lock; an admission that read
  before a revocation or a pause and commits after it is ordered before it.
* In `Gateway`: steps of contracts (their transactions are in `SpendContracts`),
  authentication apart from arrival, and a provider that reports more than its
  bound, which `mock.py` cannot. Closing a stream that was never begun runs no
  handler, which is why `Disconnect` at `ready` ends the call.
* `Pool` is the control API's; the gateway's handlers open one transaction at a time.
* Identity (OIDC, Fernet, token signing) is cryptography and a library; schemas
  validate input; migrations are schema text, whose UNIQUE and CHECK constraints
  are guards here; scripts, the web console and the deployment keep no state.

## Plan

1. Contract steps through `Gateway`: a step's admission, quota, dispatch and
   two-transaction settlement under the same cancellations and faults, so that
   `SpendContracts` is implemented by the calls as `Accounting` is.
2. Keys that are issued and rotated, with the version races that tokens have.
