------------------------ MODULE SpendContractsProofs ------------------------
(***************************************************************************)
(* Proofs about SpendContracts, for every value of its constants: that     *)
(* contracts and requests share the tenant's books and its limits, that an *)
(* envelope is hard, that a contract with nothing outstanding can be       *)
(* closed, is booked for what it used and stays closed, that it waits for  *)
(* its steps unless one is settled twice, and that contracts and requests  *)
(* together are claims of an escrow.                                       *)
(*                                                                         *)
(* Ordinary steps are steps of Accounting, whose proofs are used for them. *)
(* None of the properties is inductive by itself.  Contained adds who      *)
(* holds what: a step has a row and reserves nothing, a settlement under   *)
(* way is of a step, an open contract has booked nothing and has a         *)
(* version to spare for its closing, a closed one has nothing outstanding  *)
(* and is not active, so that no late settlement and no admission can      *)
(* move it.                                                                *)
(***************************************************************************)
EXTENDS SpendContracts, AccountingProofs

(* A step has a row, reserves nothing on the budgets, and is allocated     *)
(* until its usage is told; a row that does not exist tells nothing.       *)
StepsKnown ==
    /\ \A r \in Requests : state[r] = "absent" => usage_events[r] = 0
    /\ \A r \in Requests : Step(r) =>
         /\ state[r] # "absent"
         /\ \A b \in Budgets : reservation[r][b] = 0
         /\ allocation[r].state = "reserved" <=> usage_events[r] = 0

(* A settlement between its two transactions is of a step. *)
FetchedKnown ==
    /\ \A r \in Requests \cap fetched : Step(r)
    /\ \A x \in Admins \cap fetched :
         reconciling[x] # Idle /\ Step(reconciling[x])

(* Why c is not yet, or no more, to be moved. *)
ContractKnown(c) ==
    /\ returned[c] <=> closed[c]
    /\ contract[c] = "absent" =>
         ~closed[c] /\ \A b \in Budgets : escrow[c][b] = 0
    /\ \A b \in Budgets : escrow[c][b] \in {0, Envelope[c][Unit(b)]}
    /\ ~closed[c] =>
         /\ token_version[c] <= MaxTokenVersion
         /\ \A b \in Budgets : c_ledger[c][b].settle = NoEntry
    /\ closed[c] =>
         /\ contract[c] \in {"revoked", "completed"}
         /\ outstanding[c].money = 0 /\ outstanding[c].tokens = 0

ContractsKnown == \A c \in Contracts : ContractKnown(c)

EditorsKnown ==
    \A x \in Editors :
        editing[x] # NoEdit => contract[editing[x].contract] # "absent"

(* The part of the invariant that does not compare sums. *)
Contained ==
    /\ Sound /\ ContractTypeOK
    /\ StepsKnown /\ FetchedKnown /\ ContractsKnown /\ EditorsKnown
    /\ EnvelopeHolds /\ ReceiptAgrees

LEMMA UnitsOfRows ==
    ASSUME NEW b \in Budgets
    PROVE  Unit(b) \in {"money", "tokens", "requests"}
  BY CapsAssumption DEF Budgets, Unit, Units

(* The bounds of a payload, unit by unit. *)
LEMMA PayloadBounds ==
    ASSUME NEW p \in Payloads
    PROVE  /\ Bound[p]["money"] \in Nat \ {0}
           /\ Bound[p]["tokens"] \in Nat \ {0}
  BY BoundAssumption DEF Units

LEMMA RequestBounds ==
    ASSUME Sound, NEW r \in Requests, state[r] # "absent"
    PROVE  /\ MoneyBound(r) \in Nat \ {0}
           /\ TokenBound(r) \in Nat \ {0}
  <1>1. request[r] \in
          [key : Keys, idem : Idems, payload : Payloads, month : Days]
    BY DEF Sound, TypeOK, RowsKnown
  <1>2. request[r].payload \in Payloads
    BY <1>1
  <1> QED BY <1>2, PayloadBounds DEF MoneyBound, TokenBound

LEMMA EnvelopeIsPositive ==
    ASSUME NEW c \in Contracts
    PROVE  \A u \in {"money", "tokens", "requests"} : Envelope[c][u] \in Nat \ {0}
  BY ContractsAssumption DEF Units

-----------------------------------------------------------------------------
(* Initially *)

LEMMA ContractTypeInitially == ContractInit => ContractTypeOK
  <1> SUFFICES ASSUME ContractInit PROVE ContractTypeOK
    OBVIOUS
  <1>1. NoPostings \in [reserve : Posting, settle : Posting, release : Posting]
    BY DEF NoPostings, Posting
  <1>2. c_ledger \in [Contracts -> [Budgets ->
          [reserve : Posting, settle : Posting, release : Posting]]]
    BY <1>1 DEF ContractInit
  <1>3. escrow \in [Contracts -> [Budgets -> Nat]]
    BY DEF ContractInit, NoCharge
  <1>4. allocation \in [Requests ->
          [state : {"none", "reserved", "completed", "released"},
           money : Nat, tokens : Nat]]
    BY DEF ContractInit, NoAllocation
  <1>5. used \in [Contracts -> [Units \cup {"completed"} -> Nat]]
    BY DEF ContractInit
  <1> QED BY <1>2, <1>3, <1>4, <1>5
       DEF ContractInit, ContractTypeOK, Versions

LEMMA ContainedInitially == Init /\ ContractInit => Contained
  <1> SUFFICES ASSUME Init, ContractInit PROVE Contained
    OBVIOUS
  <1>1. Sound /\ ContractTypeOK
    BY SoundInitially, ContractTypeInitially
  <1>2. StepsKnown
    BY DEF Init, ContractInit, StepsKnown, Step
  <1>3. FetchedKnown
    BY DEF ContractInit, FetchedKnown
  <1>4. ContractsKnown
    BY ContractsAssumption
    DEF ContractInit, ContractsKnown, ContractKnown, NoCharge, NoPostings
  <1>5. EditorsKnown
    BY DEF ContractInit, EditorsKnown
  <1>6. EnvelopeHolds
    BY EnvelopeIsPositive DEF ContractInit, EnvelopeHolds, Units
  <1>7. ReceiptAgrees
    BY DEF ContractInit, ReceiptAgrees
  <1> QED BY <1>1, <1>2, <1>3, <1>4, <1>5, <1>6, <1>7 DEF Contained

-----------------------------------------------------------------------------
(* Ordinary steps *)

LEMMA OrdinaryIsNext == OrdinaryNext => Next
  BY DEF OrdinaryNext, Next, ReconcileOrdinary

(* A row once there keeps what it was admitted for; a settlement by        *)
(* Accounting is of a request that is no step, and leaves alone what is    *)
(* between the transactions of a step's reconciliation.                    *)
LEMMA OrdinaryMoves ==
    ASSUME Sound, OrdinaryNext
    PROVE  /\ \A r \in Requests : state[r] # "absent" =>
                 /\ state'[r] # "absent"
                 /\ request'[r] = request[r]
                 /\ reservation'[r] = reservation[r]
           /\ \A r \in Requests : state'[r] = "absent" \/ Step(r) =>
                 usage_events'[r] = usage_events[r]
           /\ \A x \in Admins \cap fetched : reconciling[x] # Idle =>
                 reconciling'[x] = reconciling[x]
  <1> DEFINE Kept(r) == /\ state[r] # "absent" =>
                             /\ state'[r] # "absent"
                             /\ request'[r] = request[r]
                             /\ reservation'[r] = reservation[r]
                        /\ state'[r] = "absent" \/ Step(r) =>
                             usage_events'[r] = usage_events[r]
             Goal == /\ \A r \in Requests : Kept(r)
                     /\ \A x \in Admins \cap fetched : reconciling[x] # Idle =>
                           reconciling'[x] = reconciling[x]
  <1>0. TypeOK
    BY DEF Sound
  <1>1. ASSUME NEW q \in Requests, NEW k \in Keys, NEW i \in Idems,
               NEW p \in Payloads, NEW dm \in Recent, NEW dd \in Recent,
               Admit(q, k, i, p, dm, dd)
        PROVE  Goal
    BY <1>0, <1>1 DEF TypeOK, Admit, Reserve
  <1>2. ASSUME NEW q \in Requests, Dispatch(q) \/ MarkUncertain(q)
        PROVE  Goal
    BY <1>0, <1>2 DEF TypeOK, Dispatch, MarkUncertain, Transition
  <1>3. ASSUME NEW q \in Requests, NEW to \in Final, NEW charge \in Nat,
               NEW actual \in [Budgets -> Nat], ~Step(q),
               Settle(q, to, charge, actual)
        PROVE  \A r \in Requests : Kept(r)
    BY <1>0, <1>3 DEF TypeOK, Settle, Final
  <1>4. ASSUME NEW q \in Requests, ~Step(q), Release(q)
        PROVE  Goal
    <2>1. "released" \in Final /\ NoCharge \in [Budgets -> Nat] /\ 0 \in Nat
      BY DEF Final, NoCharge
    <2> HIDE DEF Kept
    <2> QED BY <1>3, <1>4, <2>1 DEF Release
  <1>5. ASSUME NEW q \in Requests, NEW m \in Usages, NEW t \in Usages,
               ~Step(q), Complete(q, m, t)
        PROVE  Goal
    <2>1. /\ "completed" \in Final /\ m \in Nat
          /\ Usage(q, m, t) \in [Budgets -> Nat]
      BY UsageIsNat, NumbersAssumption DEF Final
    <2> HIDE DEF Kept
    <2> QED BY <1>3, <1>5, <2>1 DEF Complete
  <1>6. ASSUME NEW x \in Admins, NEW q \in Requests, ReconcileCheck(x, q)
        PROVE  Goal
    BY <1>0, <1>6 DEF TypeOK, ReconcileCheck, books
  <1>7. ASSUME NEW x \in Admins, x \notin fetched, ReconcileOrdinary(x)
        PROVE  Goal
    <2> DEFINE q == reconciling[x]
    <2>1. q \in Requests /\ (Step(q) => state[q] \in Final)
      BY <1>7 DEF ReconcileOrdinary
    <2>2. reconciling' = [reconciling EXCEPT ![x] = Idle]
      BY <1>7 DEF ReconcileOrdinary, ReconcileSettle
    <2>3. \A y \in Admins \cap fetched : reconciling'[y] = reconciling[y]
      BY <1>0, <1>7, <2>2 DEF TypeOK
    <2>4. CASE UNCHANGED books
      BY <2>3, <2>4 DEF books
    <2>5. CASE Settle(q, "completed", MoneyBound(q), reservation[q])
      <3>1. state[q] # "absent" /\ ~Step(q)
        BY <1>7, <2>1, <2>5
        DEF Sound, RowsKnown, ReconcileOrdinary, ReconcileSettle, Settle,
            MaySettle
      <3>2. /\ MoneyBound(q) \in Nat /\ reservation[q] \in [Budgets -> Nat]
            /\ "completed" \in Final
        BY <1>0, <2>1, <3>1, MoneyBoundIsNat DEF TypeOK, Final
      <3> HIDE DEF q, Kept
      <3> QED BY <1>3, <2>1, <2>3, <2>5, <3>1, <3>2
    <2> QED BY <1>7, <2>4, <2>5 DEF ReconcileOrdinary, ReconcileSettle
  <1>8. ASSUME \/ \E c \in Caps, l \in Limits, d \in Recent : SetBudget(c, l, d)
               \/ \E a \in Apps, v \in BOOLEAN : Pause(a, v)
               \/ \E k \in Keys : RevokeKey(k)
               \/ NewDay
        PROVE  Goal
    BY <1>8 DEF SetBudget, Pause, RevokeKey, NewDay, books
  <1>9. Goal
    <2> HIDE DEF Goal
    <2> QED BY <1>1, <1>2, <1>4, <1>5, <1>6, <1>7, <1>8 DEF OrdinaryNext
  <1> QED BY <1>9

(* No ordinary step moves a contract, an allocation or a step. *)
LEMMA OrdinaryContained ==
    ASSUME Contained, OrdinaryNext
    PROVE  Contained'
  <1>0. /\ Sound /\ ContractTypeOK /\ StepsKnown /\ FetchedKnown
        /\ ContractsKnown /\ EditorsKnown /\ EnvelopeHolds /\ ReceiptAgrees
    BY DEF Contained
  <1>1. UNCHANGED cvars
    BY DEF OrdinaryNext
  <1>2. Sound'
    BY <1>0, OrdinaryIsNext, StepSound
  <1>3. /\ ContractTypeOK' /\ ContractsKnown' /\ EditorsKnown'
        /\ EnvelopeHolds' /\ ReceiptAgrees'
    <2>1. ContractTypeOK'
      BY <1>0, <1>1
      DEF ContractTypeOK, cvars, c_rows, issuing, c_books, steps
    <2>2. ContractsKnown'
      BY <1>0, <1>1 DEF ContractsKnown, ContractKnown, cvars, c_rows, c_books
    <2>3. EditorsKnown' /\ EnvelopeHolds' /\ ReceiptAgrees'
      BY <1>0, <1>1
      DEF EditorsKnown, EnvelopeHolds, ReceiptAgrees, cvars, c_rows, c_books
    <2> QED BY <2>1, <2>2, <2>3
  <1>4. UNCHANGED <<under, allocation, fetched>>
    BY <1>1 DEF cvars, steps
  <1>5. StepsKnown'
    BY <1>0, <1>4, OrdinaryMoves DEF StepsKnown, Step
  <1>6. FetchedKnown'
    BY <1>0, <1>4, OrdinaryMoves DEF FetchedKnown, Step
  <1> QED BY <1>2, <1>3, <1>5, <1>6 DEF Contained

-----------------------------------------------------------------------------
(* Contract steps *)

(* Requests whose rows and postings stay as they are stay sound. *)
LEMMA RowsStaySound ==
    ASSUME Sound, TypeOK',
           UNCHANGED <<request, state, reservation, settled, ledger,
                       reconciling>>
    PROVE  Sound'
  BY DEF Sound, RowsKnown, EntriesKnown, EntriesFollow

(* The amounts an envelope reserves. *)
LEMMA EnvelopeAmounts ==
    ASSUME NEW c \in Contracts, NEW charged
    PROVE  LET amount == [b \in Budgets |->
                            IF b \in charged THEN Envelope[c][Unit(b)] ELSE 0]
           IN  /\ amount \in [Budgets -> Nat]
               /\ \A b \in Budgets : /\ amount[b] \in {0, Envelope[c][Unit(b)]}
                                     /\ b \notin charged => amount[b] = 0
                                     /\ b \in charged => amount[b] > 0
  <1>1. \A b \in Budgets : Envelope[c][Unit(b)] \in Nat \ {0}
    BY UnitsOfRows, EnvelopeIsPositive
  <1> QED BY <1>1

LEMMA CreateContained ==
    ASSUME Contained, NEW c \in Contracts, NEW dm \in Recent, NEW dd \in Recent,
           CreateContract(c, dm, dd)
    PROVE  Contained'
  <1> DEFINE charged == Charged(KeyApp[ContractKey[c]], dm, dd)
             amount == [b \in Budgets |->
                          IF b \in charged THEN Envelope[c][Unit(b)] ELSE 0]
  <1>0. /\ Sound /\ TypeOK /\ ContractTypeOK /\ StepsKnown /\ FetchedKnown
        /\ ContractsKnown /\ EditorsKnown /\ EnvelopeHolds /\ ReceiptAgrees
    BY DEF Contained, Sound
  <1>1. /\ contract[c] = "absent"
        /\ reserved' = [b \in Budgets |-> reserved[b] + amount[b]]
        /\ alerts' = [b \in Budgets |->
              IF b \in charged THEN Alerted(b, amount[b]) ELSE alerts[b]]
        /\ escrow' = [escrow EXCEPT ![c] = amount]
        /\ c_ledger' = [c_ledger EXCEPT ![c] = [b \in Budgets |->
              IF b \in charged THEN Opened(amount[b]) ELSE NoPostings]]
        /\ contract' = [contract EXCEPT ![c] = "active"]
        /\ token_version' = [token_version EXCEPT ![c] = 1]
        /\ tokenless' = tokenless \cup {c}
        /\ UNCHANGED <<day, rows, hard_limit, version, paused, revoked, spent,
                       request, state, cost, reservation, settled, ledger,
                       usage_events, reconciling, closed, expired, outstanding,
                       used, returned, tokens, under, allocation, fetched,
                       editing>>
    BY DEF CreateContract, controls, steps
  <1>2. /\ amount \in [Budgets -> Nat]
        /\ \A b \in Budgets : amount[b] \in {0, Envelope[c][Unit(b)]}
    BY EnvelopeAmounts
  <1> HIDE DEF amount, charged
  <1>3. Sound'
    <2>1. reserved' \in [Budgets -> Nat]
      BY <1>0, <1>1, <1>2 DEF TypeOK
    <2>2. alerts' \in [Budgets -> SUBSET Thresholds]
      BY <1>0, <1>1 DEF TypeOK, Alerted, Crossed
    <2>3. TypeOK'
      BY <1>0, <1>1, <2>1, <2>2 DEF TypeOK
    <2> QED BY <1>0, <1>1, <2>3, RowsStaySound
  <1>4. \A b \in Budgets : c_ledger'[c][b] \in
             [reserve : Posting, settle : Posting, release : Posting]
           /\ c_ledger'[c][b].settle = NoEntry
    <2>1. \A b \in Budgets : amount[b] \in Nat
      BY <1>2
    <2>2. \A b \in Budgets : Opened(amount[b]) \in
              [reserve : Posting, settle : Posting, release : Posting]
      BY <2>1 DEF Opened, Posting
    <2>3. \A b \in Budgets : c_ledger'[c][b] =
              IF b \in charged THEN Opened(amount[b]) ELSE NoPostings
      BY <1>0, <1>1 DEF ContractTypeOK
    <2> QED BY <2>1, <2>2, <2>3, OpenedEntry DEF NoPostings, Posting
  <1>5. ContractTypeOK'
    <2>1. escrow' \in [Contracts -> [Budgets -> Nat]]
      BY <1>0, <1>1, <1>2 DEF ContractTypeOK
    <2>2. c_ledger' \in [Contracts -> [Budgets ->
            [reserve : Posting, settle : Posting, release : Posting]]]
      <3> DEFINE posted == [b \in Budgets |->
              IF b \in charged THEN Opened(amount[b]) ELSE NoPostings]
      <3>1. c_ledger' = [c_ledger EXCEPT ![c] = posted]
        BY <1>1
      <3>2. c_ledger'[c] = posted
        BY <1>0, <1>1 DEF ContractTypeOK
      <3>3. posted \in [Budgets ->
              [reserve : Posting, settle : Posting, release : Posting]]
        BY <1>4, <3>2
      <3> HIDE DEF posted
      <3> QED BY <1>0, <3>1, <3>3 DEF ContractTypeOK
    <2>3. 1 \in Versions \cup {0}
      BY ContractsAssumption DEF Versions
    <2> QED BY <1>0, <1>1, <2>1, <2>2, <2>3 DEF ContractTypeOK
  <1>6. StepsKnown' /\ FetchedKnown' /\ EnvelopeHolds'
    BY <1>0, <1>1 DEF StepsKnown, FetchedKnown, EnvelopeHolds, Step
  <1>7. ~closed[c]
    BY <1>0, <1>1 DEF ContractsKnown, ContractKnown
  <1>8. \A d \in Contracts \ {c} :
           /\ escrow'[d] = escrow[d] /\ c_ledger'[d] = c_ledger[d]
           /\ contract'[d] = contract[d]
           /\ token_version'[d] = token_version[d]
    BY <1>0, <1>1 DEF ContractTypeOK
  <1>9. /\ contract'[c] = "active" /\ token_version'[c] = 1
        /\ escrow'[c] = amount
    BY <1>0, <1>1 DEF ContractTypeOK
  <1>10. ContractsKnown'
    <2>1. ASSUME NEW d \in Contracts, d # c PROVE ContractKnown(d)'
      BY <1>0, <1>1, <1>8, <2>1 DEF ContractsKnown, ContractKnown
    <2>2. ContractKnown(c)'
      BY <1>0, <1>1, <1>2, <1>4, <1>7, <1>9, ContractsAssumption
      DEF ContractsKnown, ContractKnown
    <2> QED BY <2>1, <2>2 DEF ContractsKnown
  <1>11. EditorsKnown'
    BY <1>0, <1>1, <1>8, <1>9 DEF EditorsKnown, ContractTypeOK
  <1>12. ReceiptAgrees'
    BY <1>0, <1>1, <1>7, <1>8 DEF ReceiptAgrees
  <1> QED BY <1>3, <1>5, <1>6, <1>10, <1>11, <1>12 DEF Contained

(* Both outstanding counters move at once. *)
LEMMA BothCounters ==
    ASSUME NEW out \in [money : Nat, tokens : Nat], NEW m \in Nat,
           NEW t \in Nat, NEW new, new = [out EXCEPT !.money = m, !.tokens = t]
    PROVE  /\ new \in [money : Nat, tokens : Nat]
           /\ new.money = m /\ new.tokens = t
  <1> DEFINE mid == [out EXCEPT !.money = m]
  <1>1. mid \in [money : Nat, tokens : Nat] /\ mid.money = m
    OBVIOUS
  <1>2. new = [mid EXCEPT !.tokens = t]
    OBVIOUS
  <1> HIDE DEF mid
  <1> QED BY <1>1, <1>2

LEMMA AdmitStepContained ==
    ASSUME Contained, NEW r \in Requests, NEW c \in Contracts,
           NEW v \in Versions, NEW i \in Idems, NEW p \in Payloads,
           NEW dm \in Recent, AdmitStep(r, c, v, i, p, dm)
    PROVE  Contained'
  <1> DEFINE row == [key |-> ContractKey[c], idem |-> i, payload |-> p,
                     month |-> MonthOf[dm]]
             m == Bound[p]["money"]
             t == Bound[p]["tokens"]
  <1>0. /\ Sound /\ TypeOK /\ RowsKnown /\ EntriesKnown /\ ContractTypeOK
        /\ StepsKnown /\ FetchedKnown /\ ContractsKnown /\ EditorsKnown
        /\ EnvelopeHolds /\ ReceiptAgrees
    BY DEF Contained, Sound
  <1>1. /\ contract[c] = "active" /\ state[r] = "absent"
        /\ state' = [state EXCEPT ![r] = "reserved"]
        /\ request' = [request EXCEPT ![r] = row]
        /\ under' = [under EXCEPT ![r] = c]
        /\ allocation' = [allocation EXCEPT ![r].state = "reserved"]
        /\ outstanding' = [outstanding EXCEPT ![c].money = @ + m,
                                              ![c].tokens = @ + t]
        /\ used' = [used EXCEPT ![c]["requests"] = @ + 1]
        /\ UNCHANGED <<day, rows, hard_limit, version, paused, revoked, spent,
                       reserved, alerts, cost, reservation, settled, ledger,
                       usage_events, reconciling, contract, closed, expired,
                       token_version, tokenless, tokens, escrow, returned,
                       c_ledger, fetched, editing>>
    BY DEF AdmitStep, controls, balances, issuing, c_books
  <1>2. /\ used[c]["requests"] < Envelope[c]["requests"]
        /\ used[c]["money"] + outstanding[c]["money"] + m
              <= Envelope[c]["money"]
        /\ used[c]["tokens"] + outstanding[c]["tokens"] + t
              <= Envelope[c]["tokens"]
    BY DEF AdmitStep, StepFits
  <1>3. m \in Nat /\ t \in Nat
    BY PayloadBounds
  <1>4. row \in [key : Keys, idem : Idems, payload : Payloads, month : Days]
        /\ row # Nobody
    <2>1. MonthOf[dm] \in Days /\ ContractKey[c] \in Keys
      BY ClockAssumption, ContractsAssumption DEF Recent
    <2>2. row # Nobody
      <3>1. "idem" \in DOMAIN row
        OBVIOUS
      <3>2. "idem" \notin DOMAIN Nobody
        BY DEF Nobody
      <3> QED BY <3>1, <3>2
    <2> QED BY <2>1, <2>2
  <1> HIDE DEF row, m, t
  <1>5. TypeOK'
    <2>1. request' \in [Requests ->
            [key : Keys, idem : Idems, payload : Payloads, month : Days]
              \cup {Nobody}]
      BY <1>0, <1>1, <1>4 DEF TypeOK
    <2>2. state' \in [Requests -> States]
      BY <1>0, <1>1 DEF TypeOK, States
    <2> QED BY <1>0, <1>1, <2>1, <2>2 DEF TypeOK
  <1>6. /\ state'[r] = "reserved" /\ request'[r] = row /\ under'[r] = c
        /\ allocation'[r].state = "reserved"
        /\ \A q \in Requests \ {r} :
              /\ state'[q] = state[q] /\ request'[q] = request[q]
              /\ under'[q] = under[q] /\ allocation'[q] = allocation[q]
    BY <1>0, <1>1 DEF TypeOK, ContractTypeOK
  <1>7. \A b \in Budgets : /\ reservation[r][b] = 0 /\ ~settled[r][b]
                           /\ ledger[r][b] = NoPostings
    BY <1>0, <1>1, AbsentHoldsNothing
  <1>8. Sound'
    <2>1. RowsKnown'
      BY <1>0, <1>1, <1>4, <1>6 DEF RowsKnown
    <2>2. ASSUME NEW q \in Requests, NEW b \in Budgets
          PROVE  EntriesFollow(q, b)'
      <3>1. CASE q = r
        BY <1>1, <1>7, <3>1 DEF EntriesFollow
      <3>2. CASE q # r
        <4>1. EntriesFollow(q, b) /\ state'[q] = state[q]
          BY <1>0, <1>6, <3>2 DEF EntriesKnown
        <4>2. UNCHANGED <<reservation, ledger, settled>>
          BY <1>1
        <4> QED BY <4>1, <4>2 DEF EntriesFollow
      <3> QED BY <3>1, <3>2
    <2> QED BY <1>5, <2>1, <2>2 DEF Sound, EntriesKnown
  <1>9. /\ used'[c] = [used[c] EXCEPT !["requests"] = @ + 1]
        /\ outstanding'[c] = [outstanding[c] EXCEPT !.money = @ + m,
                                                    !.tokens = @ + t]
        /\ \A d \in Contracts \ {c} : /\ used'[d] = used[d]
                                      /\ outstanding'[d] = outstanding[d]
    BY <1>0, <1>1 DEF ContractTypeOK
  <1>10. /\ used[c] \in [Units \cup {"completed"} -> Nat]
         /\ outstanding[c] \in [money : Nat, tokens : Nat]
    BY <1>0 DEF ContractTypeOK
  <1>11. /\ used'[c] \in [Units \cup {"completed"} -> Nat]
         /\ outstanding'[c] \in [money : Nat, tokens : Nat]
         /\ used'[c]["money"] = used[c]["money"]
         /\ used'[c]["tokens"] = used[c]["tokens"]
         /\ used'[c]["requests"] = used[c]["requests"] + 1
         /\ outstanding'[c].money = outstanding[c].money + m
         /\ outstanding'[c].tokens = outstanding[c].tokens + t
    <2> DEFINE was == used[c]
               out == outstanding[c]
    <2>1. /\ was \in [Units \cup {"completed"} -> Nat]
          /\ used'[c] = [was EXCEPT !["requests"] = @ + 1]
      BY <1>9, <1>10
    <2>2. /\ out \in [money : Nat, tokens : Nat]
          /\ outstanding'[c] = [out EXCEPT !.money = @ + m, !.tokens = @ + t]
      BY <1>9, <1>10
    <2> HIDE DEF was, out
    <2>3. /\ used'[c] \in [Units \cup {"completed"} -> Nat]
          /\ used'[c]["money"] = was["money"]
          /\ used'[c]["tokens"] = was["tokens"]
          /\ used'[c]["requests"] = was["requests"] + 1
      BY <2>1 DEF Units
    <2>4. /\ outstanding'[c] \in [money : Nat, tokens : Nat]
          /\ outstanding'[c].money = out.money + m
          /\ outstanding'[c].tokens = out.tokens + t
      <3> DEFINE new == outstanding'[c]
                 money == out.money + m
                 toks == out.tokens + t
      <3>1. money \in Nat /\ toks \in Nat
        BY <1>3, <2>2
      <3>2. new = [out EXCEPT !.money = money, !.tokens = toks]
        BY <2>2
      <3> HIDE DEF new, money, toks
      <3>3. /\ new \in [money : Nat, tokens : Nat]
            /\ new.money = money /\ new.tokens = toks
        BY <2>2, <3>1, <3>2, BothCounters
      <3> QED BY <3>3 DEF new, money, toks
    <2> QED BY <2>3, <2>4 DEF was, out
  <1>12. ContractTypeOK'
    <2>1. used' \in [Contracts -> [Units \cup {"completed"} -> Nat]]
      BY <1>0, <1>1, <1>9, <1>11 DEF ContractTypeOK
    <2>2. outstanding' \in [Contracts -> [money : Nat, tokens : Nat]]
      BY <1>0, <1>1, <1>9, <1>11 DEF ContractTypeOK
    <2>3. allocation' \in [Requests ->
            [state : {"none", "reserved", "completed", "released"},
             money : Nat, tokens : Nat]]
      <3> DEFINE Row == [state : {"none", "reserved", "completed", "released"},
                         money : Nat, tokens : Nat]
                 new == [allocation[r] EXCEPT !.state = "reserved"]
      <3>1. allocation \in [Requests -> Row]
        BY <1>0 DEF ContractTypeOK
      <3>2. new \in Row
        BY <3>1
      <3>3. allocation' = [allocation EXCEPT ![r] = new]
        BY <1>1
      <3> HIDE DEF Row, new
      <3>4. allocation' \in [Requests -> Row]
        BY <3>1, <3>2, <3>3
      <3> QED BY <3>4 DEF Row
    <2> QED BY <1>0, <1>1, <2>1, <2>2, <2>3 DEF ContractTypeOK
  <1>13. StepsKnown'
    <2>1. \A q \in Requests : state'[q] = "absent" => usage_events'[q] = 0
      BY <1>0, <1>1, <1>6 DEF StepsKnown
    <2>2. ASSUME NEW q \in Requests, under'[q] # None
          PROVE  /\ state'[q] # "absent"
                 /\ \A b \in Budgets : reservation'[q][b] = 0
                 /\ allocation'[q].state = "reserved" <=> usage_events'[q] = 0
      <3>1. CASE q = r
        BY <1>0, <1>1, <1>6, <1>7, <3>1 DEF StepsKnown
      <3>2. CASE q # r
        BY <1>0, <1>1, <1>6, <2>2, <3>2 DEF StepsKnown, Step
      <3> QED BY <3>1, <3>2
    <2> QED BY <2>1, <2>2 DEF StepsKnown, Step
  <1>14. \A q \in Requests : Step(q) => Step(q)'
    BY <1>6, ContractsAssumption DEF Step
  <1>15. FetchedKnown'
    BY <1>0, <1>1, <1>14 DEF FetchedKnown, TypeOK
  <1>16. ~closed[c]
    BY <1>0, <1>1 DEF ContractsKnown, ContractKnown
  <1>17. ContractsKnown'
    <2>1. ASSUME NEW d \in Contracts PROVE ContractKnown(d)'
      <3>1. ContractKnown(d) /\ (closed[d] => outstanding'[d] = outstanding[d])
        BY <1>0, <1>9, <1>16 DEF ContractsKnown
      <3> QED BY <1>1, <3>1 DEF ContractKnown
    <2> QED BY <2>1 DEF ContractsKnown
  <1>18. EditorsKnown'
    BY <1>0, <1>1 DEF EditorsKnown
  <1>19. EnvelopeHolds'
    <2>1. ASSUME NEW d \in Contracts, d # c
          PROVE  /\ \A u \in {"money", "tokens"} :
                      used'[d][u] + outstanding'[d][u] <= Envelope[d][u]
                 /\ used'[d]["requests"] <= Envelope[d]["requests"]
      BY <1>0, <1>9, <2>1 DEF EnvelopeHolds
    <2>2. /\ used'[c]["money"] + outstanding'[c]["money"]
                <= Envelope[c]["money"]
          /\ used'[c]["tokens"] + outstanding'[c]["tokens"]
                <= Envelope[c]["tokens"]
          /\ used'[c]["requests"] <= Envelope[c]["requests"]
      BY <1>2, <1>3, <1>10, <1>11, EnvelopeIsPositive DEF Units
    <2> QED BY <2>1, <2>2 DEF EnvelopeHolds
  <1>20. ReceiptAgrees'
    <2>1. \A d \in Contracts : closed[d] => used'[d] = used[d]
      BY <1>9, <1>16
    <2>2. UNCHANGED <<closed, escrow, c_ledger>>
      BY <1>1
    <2> QED BY <1>0, <2>1, <2>2 DEF ReceiptAgrees
  <1> QED BY <1>8, <1>12, <1>13, <1>15, <1>17, <1>18, <1>19, <1>20
       DEF Contained

-----------------------------------------------------------------------------
(* The settlement of a step, by whoever calls it *)

(* What a settlement leaves of the calls between their transactions. *)
SettlersKept ==
    /\ fetched' \subseteq fetched
    /\ reconciling' \in [Admins -> Requests \cup {Idle}]
    /\ \A x \in Admins : reconciling'[x] # Idle =>
                            reconciling'[x] = reconciling[x]
    /\ \A x \in Admins \cap fetched' : reconciling'[x] = reconciling[x]

(* How the counters of a step's contract move. *)
Counted(r, c, to, money, toks) ==
    /\ c \in Contracts
    /\ MoneyBound(r) \in Nat \ {0} /\ TokenBound(r) \in Nat \ {0}
    /\ money <= MoneyBound(r) /\ toks <= TokenBound(r)
    /\ outstanding[c].money >= MoneyBound(r)
    /\ outstanding[c].tokens >= TokenBound(r)
    /\ outstanding'[c] \in [money : Nat, tokens : Nat]
    /\ outstanding'[c].money = outstanding[c].money - MoneyBound(r)
    /\ outstanding'[c].tokens = outstanding[c].tokens - TokenBound(r)
    /\ used'[c] \in [Units \cup {"completed"} -> Nat]
    /\ used'[c]["requests"] = used[c]["requests"]
    /\ to = "released" => used'[c] = used[c]
    /\ to = "completed" =>
          /\ used'[c]["money"] = used[c]["money"] + money
          /\ used'[c]["tokens"] = used[c]["tokens"] + toks
          /\ used'[c]["completed"] = used[c]["completed"] + 1
    /\ \A d \in Contracts \ {c} : /\ used'[d] = used[d]
                                  /\ outstanding'[d] = outstanding[d]

LEMMA SettleCounts ==
    ASSUME Contained, NEW r \in Requests, Step(r), NEW to \in Final,
           NEW money \in Nat, NEW toks \in Nat, SettleStep(r, to, money, toks)
    PROVE  Counted(r, under[r], to, money, toks)
  <1> DEFINE c == under[r]
             m == MoneyBound(r)
             t == TokenBound(r)
             was == used[c]
             out == outstanding[c]
  <1>0. /\ Sound /\ ContractTypeOK /\ state[r] # "absent"
    BY DEF Contained, StepsKnown
  <1>1. c \in Contracts
    BY <1>0 DEF ContractTypeOK, Step
  <1>2. m \in Nat \ {0} /\ t \in Nat \ {0}
    BY <1>0, RequestBounds
  <1>3. /\ money <= m /\ toks <= t
        /\ out.money >= m /\ out.tokens >= t
        /\ outstanding' = [outstanding EXCEPT ![c].money = @ - m,
                                              ![c].tokens = @ - t]
        /\ used' = [used EXCEPT ![c] = UsedAfter(c, to, money, toks)]
    BY DEF SettleStep
  <1>4. /\ was \in [Units \cup {"completed"} -> Nat]
        /\ out \in [money : Nat, tokens : Nat]
    BY <1>0, <1>1 DEF ContractTypeOK
  <1>5. /\ used'[c] = IF to = "released" THEN was
             ELSE [was EXCEPT !["money"] = @ + money, !["tokens"] = @ + toks,
                              !["completed"] = @ + 1]
        /\ outstanding'[c] = [out EXCEPT !.money = @ - m, !.tokens = @ - t]
        /\ \A d \in Contracts \ {c} : /\ used'[d] = used[d]
                                      /\ outstanding'[d] = outstanding[d]
    BY <1>0, <1>1, <1>3 DEF ContractTypeOK, UsedAfter
  <1> DEFINE newUsed == used'[c]
             newOut == outstanding'[c]
  <1>6. /\ newUsed = IF to = "released" THEN was
             ELSE [was EXCEPT !["money"] = @ + money, !["tokens"] = @ + toks,
                              !["completed"] = @ + 1]
        /\ newOut = [out EXCEPT !.money = @ - m, !.tokens = @ - t]
    BY <1>5
  <1>7. /\ c \in Contracts
        /\ \A d \in Contracts \ {c} : /\ used'[d] = used[d]
                                      /\ outstanding'[d] = outstanding[d]
    BY <1>1, <1>5
  <1> HIDE DEF newUsed, newOut, was, out, m, t, c
  <1>8. /\ newUsed \in [Units \cup {"completed"} -> Nat]
        /\ newUsed["requests"] = was["requests"]
        /\ to = "released" => newUsed = was
        /\ to = "completed" =>
              /\ newUsed["money"] = was["money"] + money
              /\ newUsed["tokens"] = was["tokens"] + toks
              /\ newUsed["completed"] = was["completed"] + 1
    <2>1. CASE to = "released"
      BY <1>4, <1>6, <2>1 DEF Units
    <2>2. CASE to = "completed"
      <3>1. newUsed = [was EXCEPT !["money"] = @ + money,
                                  !["tokens"] = @ + toks,
                                  !["completed"] = @ + 1]
        BY <1>6, <2>2
      <3> QED BY <1>4, <2>2, <3>1 DEF Units
    <2> QED BY <2>1, <2>2 DEF Final
  <1>9. out.money - m \in Nat /\ out.tokens - t \in Nat
    BY <1>2, <1>3, <1>4
  <1>10. /\ newOut \in [money : Nat, tokens : Nat]
         /\ newOut.money = out.money - m
         /\ newOut.tokens = out.tokens - t
    <2> DEFINE a == out.money - m
               b == out.tokens - t
    <2>1. newOut = [out EXCEPT !.money = a, !.tokens = b]
      BY <1>6
    <2>2. a \in Nat /\ b \in Nat
      BY <1>9
    <2> HIDE DEF a, b
    <2>3. /\ newOut \in [money : Nat, tokens : Nat]
          /\ newOut.money = a /\ newOut.tokens = b
      BY <1>4, <2>1, <2>2, BothCounters
    <2> QED BY <2>3 DEF a, b
  <1> QED BY <1>2, <1>3, <1>7, <1>8, <1>10
       DEF Counted, newUsed, newOut, was, out, m, t, c

LEMMA SettleStepContained ==
    ASSUME Contained, NEW r \in Requests, Step(r), NEW to \in Final,
           NEW money \in Nat, NEW toks \in Nat,
           SettleStep(r, to, money, toks), SettlersKept
    PROVE  Contained'
  <1> DEFINE c == under[r]
             m == MoneyBound(r)
             t == TokenBound(r)
  <1>0. /\ Sound /\ TypeOK /\ RowsKnown /\ EntriesKnown /\ ContractTypeOK
        /\ StepsKnown /\ FetchedKnown /\ ContractsKnown /\ EditorsKnown
        /\ EnvelopeHolds /\ ReceiptAgrees
    BY DEF Contained, Sound
  <1>1. /\ state' = [state EXCEPT ![r] = to]
        /\ cost' = [cost EXCEPT ![r] = money]
        /\ usage_events' = [usage_events EXCEPT ![r] = @ + 1]
        /\ allocation' = [allocation EXCEPT ![r] =
              [state |-> to, money |-> money, tokens |-> toks]]
        /\ outstanding' = [outstanding EXCEPT ![c].money = @ - m,
                                              ![c].tokens = @ - t]
        /\ used' = [used EXCEPT ![c] = UsedAfter(c, to, money, toks)]
        /\ UNCHANGED <<day, rows, hard_limit, version, paused, revoked, spent,
                       reserved, alerts, request, reservation, settled,
                       ledger, contract, closed, expired, token_version,
                       tokenless, tokens, escrow, returned, c_ledger, under,
                       editing>>
    BY DEF SettleStep, controls, balances, issuing, c_books
  <1>2. /\ c \in Contracts
        /\ m \in Nat \ {0} /\ t \in Nat \ {0}
        /\ money <= m /\ toks <= t
        /\ outstanding[c].money >= m /\ outstanding[c].tokens >= t
        /\ outstanding'[c] \in [money : Nat, tokens : Nat]
        /\ outstanding'[c].money = outstanding[c].money - m
        /\ outstanding'[c].tokens = outstanding[c].tokens - t
        /\ used'[c] \in [Units \cup {"completed"} -> Nat]
        /\ used'[c]["requests"] = used[c]["requests"]
        /\ to = "released" => used'[c] = used[c]
        /\ to = "completed" =>
              /\ used'[c]["money"] = used[c]["money"] + money
              /\ used'[c]["tokens"] = used[c]["tokens"] + toks
        /\ \A d \in Contracts \ {c} : /\ used'[d] = used[d]
                                      /\ outstanding'[d] = outstanding[d]
    <2>1. Counted(r, c, to, money, toks)
      BY SettleCounts
    <2> HIDE DEF c
    <2> QED BY <2>1 DEF Counted
  <1> HIDE DEF c, m, t
  <1>3. SettlersKept /\ to \in {"completed", "released"}
    BY DEF Final
  <1>4. TypeOK'
    <2>1. state' \in [Requests -> States]
      BY <1>0, <1>1, <1>3 DEF TypeOK, States
    <2>2. cost' \in [Requests -> Nat] /\ usage_events' \in [Requests -> Nat]
      BY <1>0, <1>1 DEF TypeOK
    <2> QED BY <1>0, <1>1, <1>3, <2>1, <2>2 DEF TypeOK, SettlersKept
  <1>5. /\ state'[r] = to /\ allocation'[r].state = to
        /\ usage_events'[r] = usage_events[r] + 1
        /\ \A q \in Requests \ {r} :
              /\ state'[q] = state[q] /\ allocation'[q] = allocation[q]
              /\ usage_events'[q] = usage_events[q]
    BY <1>0, <1>1 DEF TypeOK, ContractTypeOK
  <1>6. /\ state[r] # "absent"
        /\ \A b \in Budgets : reservation[r][b] = 0
    BY <1>0 DEF StepsKnown
  <1>7. \A q \in Requests : state'[q] = "absent" <=> state[q] = "absent"
    BY <1>3, <1>5, <1>6
  <1>8. Sound'
    <2>1. RowsKnown'
      BY <1>0, <1>1, <1>3, <1>7 DEF RowsKnown, SettlersKept, TypeOK
    <2>2. ASSUME NEW q \in Requests, NEW b \in Budgets
          PROVE  EntriesFollow(q, b)'
      <3>1. CASE q = r
        <4>1. EntriesFollow(r, b) /\ reservation[r][b] = 0
          BY <1>0, <1>6 DEF EntriesKnown
        <4>2. UNCHANGED <<reservation, ledger, settled>>
          BY <1>1
        <4> QED BY <3>1, <4>1, <4>2 DEF EntriesFollow
      <3>2. CASE q # r
        <4>1. EntriesFollow(q, b) /\ state'[q] = state[q]
          BY <1>0, <1>5, <3>2 DEF EntriesKnown
        <4>2. UNCHANGED <<reservation, ledger, settled>>
          BY <1>1
        <4> QED BY <4>1, <4>2 DEF EntriesFollow
      <3> QED BY <3>1, <3>2
    <2> QED BY <1>4, <2>1, <2>2 DEF Sound, EntriesKnown
  <1>9. ContractTypeOK'
    <2>1. used' \in [Contracts -> [Units \cup {"completed"} -> Nat]]
      BY <1>0, <1>1, <1>2 DEF ContractTypeOK
    <2>2. outstanding' \in [Contracts -> [money : Nat, tokens : Nat]]
      BY <1>0, <1>1, <1>2 DEF ContractTypeOK
    <2>3. allocation' \in [Requests ->
            [state : {"none", "reserved", "completed", "released"},
             money : Nat, tokens : Nat]]
      BY <1>0, <1>1, <1>3 DEF ContractTypeOK
    <2> QED BY <1>0, <1>1, <1>3, <2>1, <2>2, <2>3
         DEF ContractTypeOK, SettlersKept
  <1>10. StepsKnown'
    <2>1. \A q \in Requests : state'[q] = "absent" => usage_events'[q] = 0
      BY <1>0, <1>3, <1>5 DEF StepsKnown
    <2>2. ASSUME NEW q \in Requests, under[q] # None
          PROVE  /\ state'[q] # "absent"
                 /\ \A b \in Budgets : reservation'[q][b] = 0
                 /\ allocation'[q].state = "reserved" <=> usage_events'[q] = 0
      <3>1. CASE q = r
        <4>1. usage_events[r] \in Nat
          BY <1>0 DEF TypeOK
        <4> QED BY <1>1, <1>3, <1>5, <1>6, <3>1, <4>1
      <3>2. CASE q # r
        BY <1>0, <1>1, <1>5, <2>2, <3>2 DEF StepsKnown, Step
      <3> QED BY <3>1, <3>2
    <2> QED BY <1>1, <2>1, <2>2 DEF StepsKnown, Step
  <1>11. FetchedKnown'
    BY <1>0, <1>1, <1>3 DEF FetchedKnown, SettlersKept, Step
  <1>12. ~closed[c]
    BY <1>0, <1>2 DEF ContractsKnown, ContractKnown
  <1>13. ContractsKnown'
    <2>1. ASSUME NEW d \in Contracts PROVE ContractKnown(d)'
      <3>1. ContractKnown(d) /\ (closed[d] => outstanding'[d] = outstanding[d])
        BY <1>0, <1>2, <1>12 DEF ContractsKnown
      <3> QED BY <1>1, <3>1 DEF ContractKnown
    <2> QED BY <2>1 DEF ContractsKnown
  <1>14. EditorsKnown'
    BY <1>0, <1>1 DEF EditorsKnown
  <1>15. EnvelopeHolds'
    <2>1. ASSUME NEW d \in Contracts, d # c
          PROVE  /\ \A u \in {"money", "tokens"} :
                      used'[d][u] + outstanding'[d][u] <= Envelope[d][u]
                 /\ used'[d]["requests"] <= Envelope[d]["requests"]
      BY <1>0, <1>2, <2>1 DEF EnvelopeHolds
    <2>2. /\ used[c] \in [Units \cup {"completed"} -> Nat]
          /\ outstanding[c] \in [money : Nat, tokens : Nat]
          /\ \A u \in {"money", "tokens"} : Envelope[c][u] \in Nat
      BY <1>0, <1>2, EnvelopeIsPositive DEF ContractTypeOK
    <2>3. /\ used[c]["money"] \in Nat /\ used[c]["tokens"] \in Nat
          /\ used'[c]["money"] \in Nat /\ used'[c]["tokens"] \in Nat
          /\ outstanding[c].money \in Nat /\ outstanding[c].tokens \in Nat
      BY <1>2, <2>2 DEF Units
    <2>4. /\ used[c]["money"] + outstanding[c]["money"] <= Envelope[c]["money"]
          /\ used[c]["tokens"] + outstanding[c]["tokens"]
                <= Envelope[c]["tokens"]
          /\ used[c]["requests"] <= Envelope[c]["requests"]
      BY <1>0, <1>2 DEF EnvelopeHolds
    <2>5. used'[c]["money"] <= used[c]["money"] + m
          /\ used'[c]["tokens"] <= used[c]["tokens"] + t
      BY <1>2, <1>3, <2>3
    <2>6. /\ used'[c]["money"] + outstanding'[c]["money"]
                <= Envelope[c]["money"]
          /\ used'[c]["tokens"] + outstanding'[c]["tokens"]
                <= Envelope[c]["tokens"]
          /\ used'[c]["requests"] <= Envelope[c]["requests"]
      BY <1>2, <2>2, <2>3, <2>4, <2>5
    <2> QED BY <2>1, <2>6 DEF EnvelopeHolds
  <1>16. ReceiptAgrees'
    <2>1. \A d \in Contracts : closed[d] => used'[d] = used[d]
      BY <1>2, <1>12
    <2>2. UNCHANGED <<closed, escrow, c_ledger>>
      BY <1>1
    <2> QED BY <1>0, <2>1, <2>2 DEF ReceiptAgrees
  <1> QED BY <1>8, <1>9, <1>10, <1>11, <1>13, <1>14, <1>15, <1>16
       DEF Contained

-----------------------------------------------------------------------------
(* Closing *)

(* What a closed contract was charged on a row. *)
Consumed(c, b) == IF escrow[c][b] > 0 THEN used[c][Unit(b)] ELSE 0

(* A closing books it on every row with a reservation, and nothing more.   *)
LEMMA CloseEntries ==
    ASSUME Contained, NEW c \in Contracts, Close(c), NEW b \in Budgets
    PROVE  /\ Consumed(c, b) \in Nat /\ escrow[c][b] \in Nat
           /\ Consumed(c, b) <= escrow[c][b]
           /\ escrow[c][b] <= reserved[b]
           /\ c_ledger'[c][b] \in
                 [reserve : Posting, settle : Posting, release : Posting]
           /\ escrow[c][b] = 0 => c_ledger'[c][b] = c_ledger[c][b]
           /\ escrow[c][b] > 0 =>
                 /\ c_ledger'[c][b].settle = Consumed(c, b)
                 /\ c_ledger'[c][b].release = escrow[c][b] - Consumed(c, b)
  <1> DEFINE e == c_ledger[c][b]
             held == escrow[c][b]
             taken == Consumed(c, b)
             after == c_ledger'[c][b]
  <1>0. ContractTypeOK /\ ContractsKnown
    BY DEF Contained
  <1>1. /\ c_ledger' = [c_ledger EXCEPT ![c] = [d \in Budgets |->
              IF escrow[c][d] > 0
                THEN Split(c_ledger[c][d], escrow[c][d], Consumed(c, d))
                ELSE c_ledger[c][d]]]
        /\ \A d \in Budgets : /\ Consumed(c, d) <= escrow[c][d]
                              /\ escrow[c][d] <= reserved[d]
    BY DEF Close, Consumed
  <1>2. after = IF held > 0 THEN Split(e, held, taken) ELSE e
    BY <1>0, <1>1 DEF ContractTypeOK
  <1>3. e \in Entries /\ held \in Nat
    BY <1>0 DEF ContractTypeOK, Entries
  <1>4. taken \in Nat
    <2>1. used[c] \in [Units \cup {"completed"} -> Nat]
      BY <1>0 DEF ContractTypeOK
    <2>2. used[c][Unit(b)] \in Nat
      BY <2>1, UnitsOfRows DEF Units
    <2> QED BY <2>2 DEF Consumed
  <1>5. taken <= held /\ held <= reserved[b]
    BY <1>1
  <1> HIDE DEF e, held, taken, after
  <1>6. held > 0 => /\ after \in Entries
                    /\ after.settle = taken /\ after.release = held - taken
    <2>1. /\ Split(e, held, taken) \in Entries
          /\ Split(e, held, taken).settle = taken
          /\ Split(e, held, taken).release = held - taken
      BY <1>3, <1>4, <1>5, SplitEntry
    <2> QED BY <1>2, <2>1
  <1>7. held = 0 => after = e
    BY <1>2
  <1> QED BY <1>3, <1>4, <1>5, <1>6, <1>7 DEF e, held, taken, after, Entries

LEMMA CloseContained ==
    ASSUME Contained, NEW c \in Contracts, Close(c)
    PROVE  Contained'
  <1>0. /\ Sound /\ TypeOK /\ ContractTypeOK
        /\ StepsKnown /\ FetchedKnown /\ ContractsKnown /\ EditorsKnown
        /\ EnvelopeHolds /\ ReceiptAgrees
    BY DEF Contained, Sound
  <1>1. /\ contract[c] # "absent" /\ ~closed[c] /\ ~Outstanding(c)
        /\ reserved' = [b \in Budgets |-> reserved[b] - escrow[c][b]]
        /\ spent' = [b \in Budgets |-> spent[b] + Consumed(c, b)]
        /\ returned' = [returned EXCEPT ![c] = TRUE]
        /\ contract' = [contract EXCEPT ![c] =
                          IF @ = "revoked" THEN @ ELSE "completed"]
        /\ closed' = [closed EXCEPT ![c] = TRUE]
        /\ token_version' = [token_version EXCEPT ![c] = @ + 1]
        /\ UNCHANGED <<day, rows, hard_limit, version, paused, revoked, alerts,
                       request, state, cost, reservation, settled, ledger,
                       usage_events, reconciling, expired, outstanding, used,
                       tokenless, tokens, escrow, under, allocation, fetched,
                       editing>>
    BY DEF Close, Consumed, controls, issuing, steps
  <1>2. c_ledger' = [c_ledger EXCEPT ![c] = c_ledger'[c]]
    BY <1>0 DEF Close, ContractTypeOK
  <1>3. c_ledger'[c] \in [Budgets ->
          [reserve : Posting, settle : Posting, release : Posting]]
    <2>1. \A b \in Budgets : c_ledger'[c][b] \in
            [reserve : Posting, settle : Posting, release : Posting]
      BY CloseEntries
    <2>2. c_ledger'[c] = [b \in Budgets |-> c_ledger'[c][b]]
      BY <1>0 DEF Close, ContractTypeOK
    <2> QED BY <2>1, <2>2
  <1>4. \A b \in Budgets : /\ Consumed(c, b) \in Nat
                           /\ escrow[c][b] \in Nat
                           /\ escrow[c][b] <= reserved[b]
    BY CloseEntries
  <1>5. Sound'
    <2>1. spent' \in [Budgets -> Nat] /\ reserved' \in [Budgets -> Nat]
      BY <1>0, <1>1, <1>4 DEF TypeOK
    <2>2. TypeOK'
      BY <1>0, <1>1, <2>1 DEF TypeOK
    <2> QED BY <1>0, <1>1, <2>2, RowsStaySound
  <1>6. ContractTypeOK'
    <2>1. token_version[c] + 1 \in Versions
      <3>1. token_version[c] <= MaxTokenVersion
        BY <1>0, <1>1 DEF ContractsKnown, ContractKnown
      <3>2. token_version[c] \in Versions \cup {0}
        BY <1>0 DEF ContractTypeOK
      <3> QED BY <3>1, <3>2, ContractsAssumption DEF Versions
    <2>2. token_version' \in [Contracts -> Versions \cup {0}]
      BY <1>0, <1>1, <2>1 DEF ContractTypeOK
    <2>3. contract' \in
            [Contracts -> {"absent", "active", "revoked", "completed"}]
      BY <1>0, <1>1 DEF ContractTypeOK
    <2>4. c_ledger' \in [Contracts -> [Budgets ->
            [reserve : Posting, settle : Posting, release : Posting]]]
      BY <1>0, <1>2, <1>3 DEF ContractTypeOK
    <2> QED BY <1>0, <1>1, <2>2, <2>3, <2>4 DEF ContractTypeOK
  <1>7. StepsKnown' /\ FetchedKnown' /\ EnvelopeHolds'
    BY <1>0, <1>1 DEF StepsKnown, FetchedKnown, EnvelopeHolds, Step
  <1>8. /\ contract'[c] \in {"revoked", "completed"}
        /\ closed'[c] = TRUE /\ returned'[c] = TRUE
        /\ \A d \in Contracts \ {c} :
              /\ contract'[d] = contract[d] /\ closed'[d] = closed[d]
              /\ returned'[d] = returned[d] /\ c_ledger'[d] = c_ledger[d]
              /\ token_version'[d] = token_version[d]
    BY <1>0, <1>1, <1>2 DEF ContractTypeOK
  <1>9. outstanding[c].money = 0 /\ outstanding[c].tokens = 0
    BY <1>0, <1>1 DEF ContractTypeOK, Outstanding
  <1>10. ContractsKnown'
    <2>1. ASSUME NEW d \in Contracts, d # c PROVE ContractKnown(d)'
      BY <1>0, <1>1, <1>8, <2>1 DEF ContractsKnown, ContractKnown
    <2>2. ContractKnown(c)'
      BY <1>0, <1>1, <1>8, <1>9 DEF ContractsKnown, ContractKnown
    <2> QED BY <2>1, <2>2 DEF ContractsKnown
  <1>11. EditorsKnown'
    BY <1>0, <1>1, <1>8 DEF EditorsKnown, ContractTypeOK
  <1>12. ReceiptAgrees'
    <2>1. ASSUME NEW d \in Contracts, NEW b \in Budgets,
                 closed'[d], escrow[d][b] > 0
          PROVE  /\ c_ledger'[d][b].settle = used[d][Unit(b)]
                 /\ c_ledger'[d][b].settle + c_ledger'[d][b].release
                      = escrow[d][b]
      <3>1. CASE d # c
        BY <1>0, <1>8, <2>1, <3>1 DEF ReceiptAgrees
      <3>2. CASE d = c
        <4>1. /\ c_ledger'[c][b].settle = Consumed(c, b)
              /\ c_ledger'[c][b].release = escrow[c][b] - Consumed(c, b)
              /\ Consumed(c, b) \in Nat /\ escrow[c][b] \in Nat
          BY <2>1, <3>2, CloseEntries
        <4>2. Consumed(c, b) = used[c][Unit(b)]
          BY <2>1, <3>2 DEF Consumed
        <4> QED BY <3>2, <4>1, <4>2
      <3> QED BY <3>1, <3>2
    <2> QED BY <1>1, <2>1 DEF ReceiptAgrees
  <1> QED BY <1>5, <1>6, <1>7, <1>10, <1>11, <1>12 DEF Contained

-----------------------------------------------------------------------------
(* Tokens, versions and the clock *)

LEMMA FetchContained ==
    ASSUME Contained, NEW w \in Requests \cup Admins, NEW r \in Requests,
           w = r \/ (w \in Admins /\ reconciling[w] = r /\ r # Idle),
           Fetch(w, r)
    PROVE  Contained'
  <1>0. /\ Sound /\ ContractTypeOK /\ StepsKnown /\ FetchedKnown
        /\ ContractsKnown /\ EditorsKnown /\ EnvelopeHolds /\ ReceiptAgrees
    BY DEF Contained
  <1>1. /\ Step(r) /\ fetched' = fetched \cup {w}
        /\ UNCHANGED <<contract, closed, outstanding, used, token_version,
                       expired, tokenless, tokens, escrow, returned, c_ledger,
                       under, allocation, editing>>
        /\ UNCHANGED vars
    BY DEF Fetch, c_rows, issuing, c_books
  <1>2. Sound'
    BY <1>0, <1>1, StepSound
  <1>3. ContractTypeOK'
    BY <1>0, <1>1 DEF ContractTypeOK
  <1>4. UNCHANGED <<state, reservation, usage_events, reconciling>>
    BY <1>1 DEF vars
  <1>5. StepsKnown'
    BY <1>0, <1>1, <1>4 DEF StepsKnown, Step
  <1>6. FetchedKnown'
    BY <1>0, <1>1, <1>4, ContractsAssumption DEF FetchedKnown, Step
  <1>7. ContractsKnown' /\ EditorsKnown' /\ EnvelopeHolds' /\ ReceiptAgrees'
    BY <1>0, <1>1
    DEF ContractsKnown, ContractKnown, EditorsKnown, EnvelopeHolds,
        ReceiptAgrees
  <1> QED BY <1>2, <1>3, <1>5, <1>6, <1>7 DEF Contained

(* One more token of a version of c. *)
LEMMA IssueTyped ==
    ASSUME NEW f \in [Contracts -> [Versions -> Nat]], NEW c \in Contracts,
           NEW v
    PROVE  [f EXCEPT ![c][v] = @ + 1] \in [Contracts -> [Versions -> Nat]]
  <1> DEFINE row == f[c]
             issued == [row EXCEPT ![v] = @ + 1]
  <1>1. [f EXCEPT ![c][v] = @ + 1] = [f EXCEPT ![c] = issued]
    OBVIOUS
  <1>2. row \in [Versions -> Nat]
    OBVIOUS
  <1> HIDE DEF row
  <1>3. CASE v \in Versions
    <2>1. issued \in [Versions -> Nat]
      BY <1>2, <1>3
    <2> HIDE DEF issued
    <2> QED BY <1>1, <2>1
  <1>4. CASE v \notin Versions
    <2>1. issued = row
      BY <1>2, <1>4
    <2> HIDE DEF issued
    <2> QED BY <1>1, <1>2, <2>1
  <1> QED BY <1>3, <1>4

(* Steps that leave everything but tokens, versions and notes alone. *)
LEMMA PapersContained ==
    ASSUME Contained, ContractTypeOK', EditorsKnown',
           UNCHANGED <<vars, closed, outstanding, used, escrow, returned,
                       c_ledger, under, allocation, fetched>>,
           \A c \in Contracts :
              /\ contract'[c] # contract[c] =>
                    contract[c] # "absent" /\ contract'[c] = "revoked"
              /\ token_version'[c] # token_version[c] =>
                    token_version'[c] <= MaxTokenVersion
    PROVE  Contained'
  <1>0. /\ Sound /\ ContractTypeOK /\ StepsKnown /\ FetchedKnown
        /\ ContractsKnown /\ EditorsKnown /\ EnvelopeHolds /\ ReceiptAgrees
    BY DEF Contained
  <1>1. Sound'
    BY <1>0, StepSound
  <1>2. UNCHANGED <<state, reservation, usage_events, reconciling>>
    BY DEF vars
  <1>3. StepsKnown' /\ FetchedKnown'
    BY <1>0, <1>2 DEF StepsKnown, FetchedKnown, Step
  <1>4. EnvelopeHolds' /\ ReceiptAgrees'
    BY <1>0 DEF EnvelopeHolds, ReceiptAgrees
  <1>5. ContractsKnown'
    <2>1. ASSUME NEW c \in Contracts PROVE ContractKnown(c)'
      BY <1>0 DEF ContractsKnown, ContractKnown
    <2> QED BY <2>1 DEF ContractsKnown
  <1> QED BY <1>1, <1>3, <1>4, <1>5 DEF Contained

LEMMA ClockAndTokensContained ==
    ASSUME Contained, NEW c \in Contracts, FirstToken(c) \/ Expire(c)
    PROVE  Contained'
  <1>0. ContractTypeOK /\ EditorsKnown
    BY DEF Contained
  <1>1. UNCHANGED <<vars, contract, closed, outstanding, used, token_version,
                    escrow, returned, c_ledger, under, allocation, fetched,
                    editing>>
    BY DEF FirstToken, Expire, c_rows, c_books, steps
  <1>2. ContractTypeOK'
    <2>1. CASE FirstToken(c)
      <3>1. /\ tokenless' = tokenless \ {c} /\ expired' = expired
            /\ tokens' = [tokens EXCEPT ![c][token_version[c]] = @ + 1]
        BY <2>1 DEF FirstToken
      <3>2. tokens' \in [Contracts -> [Versions -> Nat]]
        BY <1>0, <3>1, IssueTyped DEF ContractTypeOK
      <3> QED BY <1>0, <1>1, <3>1, <3>2 DEF ContractTypeOK
    <2>2. CASE Expire(c)
      BY <1>0, <1>1, <2>2 DEF ContractTypeOK, Expire, issuing
    <2> QED BY <2>1, <2>2
  <1>3. EditorsKnown'
    BY <1>0, <1>1 DEF EditorsKnown
  <1> QED BY <1>1, <1>2, <1>3, PapersContained

LEMMA ReadContained ==
    ASSUME Contained, NEW x \in Editors, NEW op \in {"rotate", "revoke"},
           NEW c \in Contracts, contract[c] # "absent", Read(x, op, c)
    PROVE  Contained'
  <1> DEFINE note == [op |-> op, contract |-> c, version |-> token_version[c]]
  <1>0. ContractTypeOK /\ EditorsKnown
    BY DEF Contained
  <1>1. /\ UNCHANGED <<vars, contract, closed, outstanding, used,
                       token_version, expired, tokenless, tokens, escrow,
                       returned, c_ledger, under, allocation, fetched>>
        /\ editing' = [editing EXCEPT ![x] = note]
    BY DEF Read, c_rows, c_books, steps, issuing
  <1>2. note \in [op : {"rotate", "revoke"}, contract : Contracts,
                  version : Nat]
    BY <1>0, ContractsAssumption DEF ContractTypeOK, Versions
  <1>3. note.contract = c
    OBVIOUS
  <1> HIDE DEF note
  <1>4. ContractTypeOK'
    BY <1>0, <1>1, <1>2 DEF ContractTypeOK
  <1>5. EditorsKnown'
    BY <1>0, <1>1, <1>3 DEF EditorsKnown, ContractTypeOK
  <1> QED BY <1>1, <1>4, <1>5, PapersContained

LEMMA WriteContained ==
    ASSUME Contained, NEW x \in Editors, RotateWrite(x) \/ RevokeWrite(x)
    PROVE  Contained'
  <1> DEFINE c == editing[x].contract
             v == NextVersion(x)
  <1>0. ContractTypeOK /\ EditorsKnown
    BY DEF Contained
  <1>1. /\ editing[x].op # "none" /\ v <= MaxTokenVersion
        /\ token_version' = [token_version EXCEPT ![c] = v]
        /\ \/ contract' = contract
           \/ contract' = [contract EXCEPT ![c] = "revoked"]
        /\ \/ tokens' = tokens
           \/ tokens' = [tokens EXCEPT ![c][v] = @ + 1]
        /\ editing' = [editing EXCEPT ![x] = NoEdit]
        /\ UNCHANGED <<vars, closed, expired, outstanding, used, tokenless,
                       escrow, returned, c_ledger, under, allocation, fetched>>
    BY DEF RotateWrite, RevokeWrite, c_books, steps, issuing
  <1>2. editing[x] # NoEdit
    BY <1>1 DEF NoEdit
  <1>3. editing[x] \in [op : {"rotate", "revoke"}, contract : Contracts,
                        version : Nat]
    BY <1>0, <1>2 DEF ContractTypeOK
  <1>4. c \in Contracts /\ contract[c] # "absent" /\ v \in Versions
    BY <1>0, <1>1, <1>2, <1>3, ContractsAssumption
    DEF EditorsKnown, Versions, NextVersion
  <1> HIDE DEF c, v
  <1>5. ContractTypeOK'
    <2>1. tokens' \in [Contracts -> [Versions -> Nat]]
      <3>1. tokens \in [Contracts -> [Versions -> Nat]]
        BY <1>0 DEF ContractTypeOK
      <3>2. CASE tokens' = tokens
        BY <3>1, <3>2
      <3>3. CASE tokens' = [tokens EXCEPT ![c][v] = @ + 1]
        BY <1>4, <3>1, <3>3, IssueTyped
      <3> QED BY <1>1, <3>2, <3>3
    <2>2. contract' \in
            [Contracts -> {"absent", "active", "revoked", "completed"}]
      BY <1>0, <1>1, <1>4 DEF ContractTypeOK
    <2>3. token_version' \in [Contracts -> Versions \cup {0}]
      BY <1>0, <1>1, <1>4 DEF ContractTypeOK
    <2> QED BY <1>0, <1>1, <2>1, <2>2, <2>3 DEF ContractTypeOK
  <1>6. \A d \in Contracts :
           /\ contract'[d] # contract[d] =>
                 contract[d] # "absent" /\ contract'[d] = "revoked"
           /\ token_version'[d] # token_version[d] =>
                 token_version'[d] <= MaxTokenVersion
    BY <1>0, <1>1, <1>4 DEF ContractTypeOK
  <1>7. EditorsKnown'
    <2>1. \A d \in Contracts : contract[d] # "absent" =>
                                 contract'[d] # "absent"
      BY <1>6
    <2>2. \A y \in Editors : editing'[y] # NoEdit =>
             /\ editing'[y] = editing[y] /\ editing[y].contract \in Contracts
      BY <1>0, <1>1 DEF ContractTypeOK
    <2> QED BY <1>0, <2>1, <2>2 DEF EditorsKnown
  <1> QED BY <1>1, <1>5, <1>6, <1>7, PapersContained

-----------------------------------------------------------------------------
(* Every step *)

(* Nothing that is booked, allocated or closed changes. *)
Filed ==
    /\ UNCHANGED <<vars, closed, outstanding, used, escrow, returned, c_ledger,
                   under, allocation>>
    /\ \A c \in Contracts : contract'[c] = "absent" <=> contract[c] = "absent"

LEMMA FilingIsFiled ==
    ASSUME Contained,
           \/ \E c \in Contracts : FirstToken(c) \/ Expire(c)
           \/ \E r \in Requests : GatewayFetch(r)
           \/ \E x \in Admins : ReconcileFetch(x)
           \/ \E x \in Editors, c \in Contracts :
                RotateRead(x, c) \/ RevokeRead(x, c)
           \/ \E x \in Editors : RotateWrite(x) \/ RevokeWrite(x)
           \/ UNCHANGED allvars
    PROVE  Contained' /\ Filed
  <1>0. ContractTypeOK /\ EditorsKnown /\ Sound /\ TypeOK
    BY DEF Contained, Sound
  <1>1. ASSUME NEW c \in Contracts, FirstToken(c) \/ Expire(c)
        PROVE  Contained' /\ Filed
    <2>1. Filed
      BY <1>1 DEF Filed, FirstToken, Expire, c_rows, c_books, steps
    <2> QED BY <1>1, <2>1, ClockAndTokensContained
  <1>2. ASSUME NEW r \in Requests, GatewayFetch(r) PROVE Contained' /\ Filed
    <2>1. Filed
      BY <1>2 DEF Filed, GatewayFetch, Fetch, c_rows, c_books
    <2> QED BY <1>2, <2>1, FetchContained DEF GatewayFetch
  <1>3. ASSUME NEW x \in Admins, ReconcileFetch(x) PROVE Contained' /\ Filed
    <2>1. Filed
      BY <1>3 DEF Filed, ReconcileFetch, Fetch, c_rows, c_books
    <2>2. reconciling[x] \in Requests
      BY <1>0, <1>3 DEF ReconcileFetch, TypeOK
    <2> QED BY <1>3, <2>1, <2>2, FetchContained DEF ReconcileFetch
  <1>4. ASSUME NEW x \in Editors, NEW c \in Contracts,
               RotateRead(x, c) \/ RevokeRead(x, c)
        PROVE  Contained' /\ Filed
    <2>1. PICK op \in {"rotate", "revoke"} :
            Read(x, op, c) /\ contract[c] # "absent"
      BY <1>4 DEF RotateRead, RevokeRead
    <2>2. Filed
      BY <2>1 DEF Filed, Read, c_rows, c_books, steps
    <2> QED BY <2>1, <2>2, ReadContained
  <1>5. ASSUME NEW x \in Editors, RotateWrite(x) \/ RevokeWrite(x)
        PROVE  Contained' /\ Filed
    <2>1. /\ UNCHANGED <<vars, closed, outstanding, used, escrow, returned,
                         c_ledger, under, allocation>>
          /\ \/ contract' = contract
             \/ contract' = [contract EXCEPT ![editing[x].contract] = "revoked"]
          /\ editing[x] # NoEdit
      <3>1. editing[x].op \in {"rotate", "revoke"} => editing[x] # NoEdit
        BY DEF NoEdit
      <3>2. CASE RotateWrite(x)
        BY <3>1, <3>2 DEF RotateWrite, c_books, steps
      <3>3. CASE RevokeWrite(x)
        BY <3>1, <3>3 DEF RevokeWrite, c_books, steps
      <3> QED BY <1>5, <3>2, <3>3
    <2>2. contract[editing[x].contract] # "absent"
      BY <1>0, <2>1 DEF EditorsKnown
    <2>3. Filed
      BY <1>0, <2>1, <2>2 DEF Filed, ContractTypeOK
    <2> QED BY <1>5, <2>3, WriteContained
  <1>6. CASE UNCHANGED allvars
    <2>1. UNCHANGED <<vars, contract, closed, expired, outstanding, used,
                      token_version, tokenless, tokens, escrow, returned,
                      c_ledger, under, allocation, fetched, editing>>
      BY <1>6 DEF allvars, cvars, c_rows, issuing, c_books, steps
    <2>2. ContractTypeOK' /\ EditorsKnown'
      BY <1>0, <2>1 DEF ContractTypeOK, EditorsKnown
    <2> QED BY <2>1, <2>2, PapersContained DEF Filed
  <1> QED BY <1>1, <1>2, <1>3, <1>4, <1>5, <1>6

(* Three callers settle steps. *)
LEMMA StepSettlements ==
    ASSUME Contained,
           \/ \E r \in Requests : ReleaseStep(r)
           \/ \E r \in Requests, m, t \in Usages : GatewayCommit(r, m, t)
           \/ \E x \in Admins : ReconcileCommit(x)
    PROVE  \E r \in Requests, to \in Final, money \in Nat, toks \in Nat :
             Step(r) /\ SettleStep(r, to, money, toks) /\ SettlersKept
  <1>0. TypeOK /\ FetchedKnown /\ Sound /\ StepsKnown
    BY DEF Contained, Sound
  <1>1. /\ "completed" \in Final /\ "released" \in Final /\ 0 \in Nat
        /\ Usages \subseteq Nat
    BY NumbersAssumption DEF Final
  <1>2. ASSUME NEW r \in Requests, ReleaseStep(r)
        PROVE  Step(r) /\ SettleStep(r, "released", 0, 0) /\ SettlersKept
    BY <1>0, <1>2 DEF ReleaseStep, SettlersKept, TypeOK
  <1>3. ASSUME NEW r \in Requests, NEW m \in Usages, NEW t \in Usages,
               GatewayCommit(r, m, t)
        PROVE  Step(r) /\ SettleStep(r, "completed", m, t) /\ SettlersKept
    BY <1>0, <1>3 DEF GatewayCommit, SettlersKept, TypeOK, FetchedKnown
  <1>4. ASSUME NEW x \in Admins, ReconcileCommit(x)
        PROVE  \E r \in Requests, money \in Nat, toks \in Nat :
                 Step(r) /\ SettleStep(r, "completed", money, toks)
                   /\ SettlersKept
    <2> DEFINE r == reconciling[x]
    <2>1. r \in Requests /\ Step(r) /\ x \in fetched
      BY <1>0, <1>4 DEF ReconcileCommit, FetchedKnown, TypeOK
    <2>2. MoneyBound(r) \in Nat /\ TokenBound(r) \in Nat
      BY <1>0, <2>1, RequestBounds DEF StepsKnown
    <2>3. SettlersKept
      BY <1>0, <1>4 DEF ReconcileCommit, SettlersKept, TypeOK
    <2> HIDE DEF r
    <2>4. SettleStep(r, "completed", MoneyBound(r), TokenBound(r))
      BY <1>4 DEF ReconcileCommit, r
    <2> QED BY <2>1, <2>2, <2>3, <2>4
  <1> QED BY <1>1, <1>2, <1>3, <1>4

(* A step is ordinary, one of the four that book or allocate, or files.    *)
LEMMA ContractMoves ==
    ASSUME Contained, [OrdinaryNext \/ ContractNext]_allvars
    PROVE  \/ OrdinaryNext
           \/ \E c \in Contracts, dm, dd \in Recent : CreateContract(c, dm, dd)
           \/ \E r \in Requests, c \in Contracts, v \in Versions,
                 i \in Idems, p \in Payloads, dm \in Recent :
                 AdmitStep(r, c, v, i, p, dm)
           \/ \E r \in Requests, to \in Final, money \in Nat, toks \in Nat :
                 Step(r) /\ SettleStep(r, to, money, toks) /\ SettlersKept
           \/ \E c \in Contracts : Close(c)
           \/ Contained' /\ Filed
  BY StepSettlements, FilingIsFiled DEF ContractNext

LEMMA ContainedStays ==
    ASSUME Contained, [OrdinaryNext \/ ContractNext]_allvars
    PROVE  Contained'
  BY ContractMoves, OrdinaryContained, CreateContained, AdmitStepContained,
     SettleStepContained, CloseContained

-----------------------------------------------------------------------------
(* Theorems about contracts *)

LEMMA ContainedAlways == ContractSpec => []Contained
  BY ContainedInitially, ContainedStays, PTL DEF ContractSpec

(* Every column of contracts, allocations and tokens keeps its range       *)
(* whatever the envelopes, the number of steps and the editors: no counter *)
(* is ever negative, no version beyond the one its closing writes.         *)
THEOREM ContractsTyped == ContractSpec => []ContractTypeOK
  <1>1. Contained => ContractTypeOK
    BY DEF Contained
  <1> QED BY <1>1, ContainedAlways, PTL

(* What steps have used and may still use never exceeds the envelope, even *)
(* where one is settled twice.                                             *)
THEOREM EnvelopesAreHard == ContractSpec => []EnvelopeHolds
  <1>1. Contained => EnvelopeHolds
    BY DEF Contained
  <1> QED BY <1>1, ContainedAlways, PTL

(* A closed contract stays booked for exactly what it used. *)
THEOREM ReceiptsAgree == ContractSpec => []ReceiptAgrees
  <1>1. Contained => ReceiptAgrees
    BY DEF Contained
  <1> QED BY <1>1, ContainedAlways, PTL

-----------------------------------------------------------------------------
(* The tenant's books, of requests and contracts together *)

EscrowOf(b) == [c \in Contracts |-> OpenEscrow(c, b)]
BookedOf(b) == [c \in Contracts |-> ClosedCharge(c, b)]

LEMMA EscrowsAreNat ==
    ASSUME ContractTypeOK, NEW b \in Budgets
    PROVE  EscrowOf(b) \in [Contracts -> Nat] /\ BookedOf(b) \in [Contracts -> Nat]
  <1>1. \A c \in Contracts : OpenEscrow(c, b) \in Nat
    BY DEF ContractTypeOK, OpenEscrow
  <1>2. \A c \in Contracts : ClosedCharge(c, b) \in Nat
    <2>1. \A c \in Contracts : c_ledger[c][b].settle \in Nat \cup {NoEntry}
      BY DEF ContractTypeOK, Posting
    <2> QED BY <2>1 DEF ClosedCharge
  <1> QED BY <1>1, <1>2 DEF EscrowOf, BookedOf

(* The same of the state after a step. *)
LEMMA EscrowsStayNat ==
    ASSUME ContractTypeOK', NEW b \in Budgets
    PROVE  /\ EscrowOf(b)' \in [Contracts -> Nat]
           /\ BookedOf(b)' \in [Contracts -> Nat]
  <1>1. \A c \in Contracts : OpenEscrow(c, b)' \in Nat
    BY DEF ContractTypeOK, OpenEscrow
  <1>2. \A c \in Contracts : ClosedCharge(c, b)' \in Nat
    <2>1. \A c \in Contracts : c_ledger'[c][b].settle \in Nat \cup {NoEntry}
      BY DEF ContractTypeOK, Posting
    <2> QED BY <2>1 DEF ClosedCharge
  <1> QED BY <1>1, <1>2 DEF EscrowOf, BookedOf

(* The books' four sums are natural numbers. *)
LEMMA FundSums ==
    ASSUME Sound, ContractTypeOK, NEW b \in Budgets
    PROVE  /\ SumFunction(OpenOf(b)) \in Nat
           /\ SumFunction(ChargedOf(b)) \in Nat
           /\ SumFunction(EscrowOf(b)) \in Nat
           /\ SumFunction(BookedOf(b)) \in Nat
  <1>1. /\ OpenOf(b) \in [Requests -> Nat] /\ ChargedOf(b) \in [Requests -> Nat]
        /\ EscrowOf(b) \in [Contracts -> Nat]
        /\ BookedOf(b) \in [Contracts -> Nat]
    BY AmountsAreNat, EscrowsAreNat DEF Sound
  <1> QED BY <1>1, SumNat, RequestsAssumption, ContractsAssumption

LEMMA FundsBalanceDef ==
    FundsBalance <=>
      \A b \in Budgets :
        /\ reserved[b] = SumFunction(OpenOf(b)) + SumFunction(EscrowOf(b))
        /\ spent[b] = SumFunction(ChargedOf(b)) + SumFunction(BookedOf(b))
  BY DEF FundsBalance, OpenOf, ChargedOf, EscrowOf, BookedOf

LEMMA FundsInitially == Init /\ ContractInit => FundsBalance
  <1> SUFFICES ASSUME Init, ContractInit PROVE FundsBalance
    OBVIOUS
  <1>1. ASSUME NEW b \in Budgets
        PROVE  /\ reserved[b] = SumFunction(OpenOf(b)) + SumFunction(EscrowOf(b))
               /\ spent[b] = SumFunction(ChargedOf(b)) + SumFunction(BookedOf(b))
    <2>1. SumFunction(OpenOf(b)) = 0 /\ SumFunction(ChargedOf(b)) = 0
      BY SumsInitially
    <2>2. /\ \A c \in Contracts : EscrowOf(b)[c] = 0
          /\ \A c \in Contracts : BookedOf(b)[c] = 0
      BY DEF ContractInit, EscrowOf, BookedOf, OpenEscrow, ClosedCharge,
             NoCharge, NoPostings
    <2>3. /\ EscrowOf(b) \in [Contracts -> Nat]
          /\ BookedOf(b) \in [Contracts -> Nat]
      BY ContainedInitially, EscrowsAreNat DEF Contained
    <2>4. SumFunction(EscrowOf(b)) = 0 /\ SumFunction(BookedOf(b)) = 0
      BY <2>2, <2>3, SumZero, ContractsAssumption
    <2> QED BY <2>1, <2>4 DEF Init
  <1> QED BY <1>1, FundsBalanceDef

(* c is all that moves, and every total moves by what c's amounts move by. *)
FundsMove(c) ==
    /\ UNCHANGED <<settled, reservation, ledger>>
    /\ \A b \in Budgets, d \in Contracts \ {c} :
          /\ OpenEscrow(d, b)' = OpenEscrow(d, b)
          /\ ClosedCharge(d, b)' = ClosedCharge(d, b)
    /\ \A b \in Budgets :
          /\ reserved'[b] = reserved[b] + OpenEscrow(c, b)' - OpenEscrow(c, b)
          /\ spent'[b] = spent[b] + ClosedCharge(c, b)' - ClosedCharge(c, b)

LEMMA FundsBalanceMoves ==
    ASSUME Contained, Contained', FundsBalance, NEW c \in Contracts,
           FundsMove(c)
    PROVE  FundsBalance'
  <1>1. ASSUME NEW b \in Budgets
        PROVE  /\ reserved'[b] = SumFunction(OpenOf(b)')
                                   + SumFunction(EscrowOf(b)')
               /\ spent'[b] = SumFunction(ChargedOf(b)')
                                + SumFunction(BookedOf(b)')
    <2>1. OpenOf(b)' = OpenOf(b) /\ ChargedOf(b)' = ChargedOf(b)
      BY DEF FundsMove, OpenOf, ChargedOf, OpenAmount, ChargedAmount
    <2>2. /\ EscrowOf(b) \in [Contracts -> Nat]
          /\ BookedOf(b) \in [Contracts -> Nat]
          /\ EscrowOf(b)' \in [Contracts -> Nat]
          /\ BookedOf(b)' \in [Contracts -> Nat]
      BY EscrowsAreNat, EscrowsStayNat DEF Contained
    <2>3. \A d \in Contracts : /\ EscrowOf(b)[d] = OpenEscrow(d, b)
                               /\ EscrowOf(b)'[d] = OpenEscrow(d, b)'
                               /\ BookedOf(b)[d] = ClosedCharge(d, b)
                               /\ BookedOf(b)'[d] = ClosedCharge(d, b)'
      BY DEF EscrowOf, BookedOf
    <2> DEFINE e == EscrowOf(b)  e1 == EscrowOf(b)'
               k == BookedOf(b)  k1 == BookedOf(b)'
    <2>9. /\ \A d \in Contracts \ {c} : e1[d] = e[d]
          /\ \A d \in Contracts \ {c} : k1[d] = k[d]
      BY <2>3 DEF FundsMove
    <2>10. /\ e \in [Contracts -> Nat] /\ e1 \in [Contracts -> Nat]
           /\ k \in [Contracts -> Nat] /\ k1 \in [Contracts -> Nat]
           /\ IsFiniteSet(Contracts)
      BY <2>2, ContractsAssumption
    <2> HIDE DEF e, e1, k, k1
    <2>4. SumFunction(e1) = SumFunction(e) + e1[c] - e[c]
      BY <2>9, <2>10, SumUpdate
    <2>5. SumFunction(k1) = SumFunction(k) + k1[c] - k[c]
      BY <2>9, <2>10, SumUpdate
    <2> USE DEF e, e1, k, k1
    <2>6. /\ SumFunction(OpenOf(b)) \in Nat /\ SumFunction(ChargedOf(b)) \in Nat
          /\ SumFunction(EscrowOf(b)) \in Nat /\ SumFunction(BookedOf(b)) \in Nat
          /\ EscrowOf(b)[c] \in Nat /\ BookedOf(b)[c] \in Nat
          /\ EscrowOf(b)'[c] \in Nat /\ BookedOf(b)'[c] \in Nat
      BY <2>2, FundSums DEF Contained
    <2>7. /\ reserved[b] = SumFunction(OpenOf(b)) + SumFunction(EscrowOf(b))
          /\ spent[b] = SumFunction(ChargedOf(b)) + SumFunction(BookedOf(b))
      BY FundsBalanceDef
    <2>8. /\ reserved'[b] = reserved[b] + EscrowOf(b)'[c] - EscrowOf(b)[c]
          /\ spent'[b] = spent[b] + BookedOf(b)'[c] - BookedOf(b)[c]
      BY <2>3 DEF FundsMove
    <2> QED BY <2>1, <2>4, <2>5, <2>6, <2>7, <2>8
  <1> QED BY <1>1 DEF FundsBalance, OpenOf, ChargedOf, EscrowOf, BookedOf

(* The same where a request is all that moves. *)
LEMMA RequestsMoveFunds ==
    ASSUME Contained, Contained', FundsBalance, NEW r \in Requests,
           BooksMove(r), UNCHANGED <<escrow, returned, c_ledger>>
    PROVE  FundsBalance'
  <1>1. ASSUME NEW b \in Budgets
        PROVE  /\ reserved'[b] = SumFunction(OpenOf(b)')
                                   + SumFunction(EscrowOf(b)')
               /\ spent'[b] = SumFunction(ChargedOf(b)')
                                + SumFunction(BookedOf(b)')
    <2>1. EscrowOf(b)' = EscrowOf(b) /\ BookedOf(b)' = BookedOf(b)
      BY DEF EscrowOf, BookedOf, OpenEscrow, ClosedCharge
    <2>2. /\ SumFunction(OpenOf(b)') = SumFunction(OpenOf(b))
                                        + OpenAmount(r, b)' - OpenAmount(r, b)
          /\ SumFunction(ChargedOf(b)') = SumFunction(ChargedOf(b))
                                  + ChargedAmount(r, b)' - ChargedAmount(r, b)
      BY SumsMove DEF BooksMove, Contained, Sound
    <2>3. /\ SumFunction(OpenOf(b)) \in Nat /\ SumFunction(ChargedOf(b)) \in Nat
          /\ SumFunction(EscrowOf(b)) \in Nat /\ SumFunction(BookedOf(b)) \in Nat
      BY FundSums DEF Contained
    <2>4. /\ OpenAmount(r, b) \in Nat /\ ChargedAmount(r, b) \in Nat
          /\ OpenAmount(r, b)' \in Nat /\ ChargedAmount(r, b)' \in Nat
      <3>1. OpenOf(b)[r] \in Nat /\ ChargedOf(b)[r] \in Nat
        BY AmountsAreNat DEF Contained, Sound
      <3>2. OpenOf(b)'[r] \in Nat /\ ChargedOf(b)'[r] \in Nat
        BY AmountsStayNat DEF Contained, Sound
      <3> QED BY <3>1, <3>2 DEF OpenOf, ChargedOf
    <2>5. /\ reserved[b] = SumFunction(OpenOf(b)) + SumFunction(EscrowOf(b))
          /\ spent[b] = SumFunction(ChargedOf(b)) + SumFunction(BookedOf(b))
      BY FundsBalanceDef
    <2>6. /\ reserved'[b] = reserved[b] + OpenAmount(r, b)' - OpenAmount(r, b)
          /\ spent'[b] = spent[b] + ChargedAmount(r, b)' - ChargedAmount(r, b)
      BY DEF BooksMove
    <2> QED BY <2>1, <2>2, <2>3, <2>4, <2>5, <2>6
  <1> QED BY <1>1 DEF FundsBalance, OpenOf, ChargedOf, EscrowOf, BookedOf

LEMMA CreateMovesFunds ==
    ASSUME Contained, NEW c \in Contracts, NEW dm \in Recent, NEW dd \in Recent,
           CreateContract(c, dm, dd)
    PROVE  FundsMove(c)
  <1> DEFINE charged == Charged(KeyApp[ContractKey[c]], dm, dd)
             amount == [b \in Budgets |->
                          IF b \in charged THEN Envelope[c][Unit(b)] ELSE 0]
  <1>0. TypeOK /\ ContractTypeOK /\ ContractKnown(c)
    BY DEF Contained, Sound, ContractsKnown
  <1>1. /\ contract[c] = "absent"
        /\ reserved' = [b \in Budgets |-> reserved[b] + amount[b]]
        /\ escrow' = [escrow EXCEPT ![c] = amount]
        /\ c_ledger' = [c_ledger EXCEPT ![c] = [b \in Budgets |->
              IF b \in charged THEN Opened(amount[b]) ELSE NoPostings]]
        /\ UNCHANGED <<settled, reservation, ledger, spent, returned>>
    BY DEF CreateContract
  <1>2. amount \in [Budgets -> Nat]
    BY EnvelopeAmounts
  <1> HIDE DEF amount, charged
  <1>3. \A b \in Budgets, d \in Contracts \ {c} :
           /\ OpenEscrow(d, b)' = OpenEscrow(d, b)
           /\ ClosedCharge(d, b)' = ClosedCharge(d, b)
    BY <1>0, <1>1 DEF ContractTypeOK, OpenEscrow, ClosedCharge
  <1>4. ASSUME NEW b \in Budgets
        PROVE  /\ OpenEscrow(c, b) = 0 /\ ClosedCharge(c, b) = 0
               /\ OpenEscrow(c, b)' = amount[b] /\ ClosedCharge(c, b)' = 0
    <2>1. /\ returned[c] = FALSE /\ escrow[c][b] = 0
          /\ c_ledger[c][b].settle = NoEntry
      BY <1>0, <1>1 DEF ContractKnown, ContractTypeOK
    <2>2. /\ returned'[c] = FALSE /\ escrow'[c][b] = amount[b]
          /\ c_ledger'[c][b] = IF b \in charged
                                 THEN Opened(amount[b]) ELSE NoPostings
      BY <1>0, <1>1, <2>1 DEF ContractTypeOK
    <2>3. c_ledger'[c][b].settle = NoEntry
      BY <1>2, <2>2, OpenedEntry DEF NoPostings
    <2> QED BY <2>1, <2>2, <2>3 DEF OpenEscrow, ClosedCharge
  <1>5. \A b \in Budgets :
           /\ reserved'[b] = reserved[b] + amount[b] - 0
           /\ spent'[b] = spent[b] + 0 - 0
    BY <1>0, <1>1, <1>2 DEF TypeOK
  <1> QED BY <1>1, <1>3, <1>4, <1>5 DEF FundsMove

LEMMA CloseMovesFunds ==
    ASSUME Contained, NEW c \in Contracts, Close(c)
    PROVE  /\ FundsMove(c)
           /\ \A b \in Budgets : ClosedCharge(c, b)' = Consumed(c, b)
  <1>0. TypeOK /\ ContractTypeOK /\ ContractKnown(c)
    BY DEF Contained, Sound, ContractsKnown
  <1>1. /\ ~closed[c]
        /\ reserved' = [b \in Budgets |-> reserved[b] - escrow[c][b]]
        /\ spent' = [b \in Budgets |-> spent[b] + Consumed(c, b)]
        /\ returned' = [returned EXCEPT ![c] = TRUE]
        /\ UNCHANGED <<settled, reservation, ledger, escrow>>
        /\ \A d \in Contracts \ {c} : c_ledger'[d] = c_ledger[d]
    BY <1>0 DEF Close, Consumed, ContractTypeOK
  <1>2. \A b \in Budgets, d \in Contracts \ {c} :
           /\ OpenEscrow(d, b)' = OpenEscrow(d, b)
           /\ ClosedCharge(d, b)' = ClosedCharge(d, b)
    BY <1>0, <1>1 DEF ContractTypeOK, OpenEscrow, ClosedCharge
  <1>3. ASSUME NEW b \in Budgets
        PROVE  /\ OpenEscrow(c, b) = escrow[c][b] /\ ClosedCharge(c, b) = 0
               /\ OpenEscrow(c, b)' = 0
               /\ ClosedCharge(c, b)' = Consumed(c, b)
               /\ Consumed(c, b) \in Nat /\ escrow[c][b] \in Nat
               /\ reserved[b] \in Nat /\ spent[b] \in Nat
    <2>1. ~returned[c] /\ c_ledger[c][b].settle = NoEntry /\ returned'[c]
      BY <1>0, <1>1 DEF ContractKnown, ContractTypeOK
    <2>2. ClosedCharge(c, b)' = Consumed(c, b)
      <3>1. CASE escrow[c][b] > 0
        <4>1. c_ledger'[c][b].settle = Consumed(c, b) /\ Consumed(c, b) \in Nat
          BY <3>1, CloseEntries
        <4> QED BY <4>1 DEF ClosedCharge, NoEntry
      <3>2. CASE escrow[c][b] = 0
        <4>1. c_ledger'[c][b] = c_ledger[c][b]
          BY <3>2, CloseEntries
        <4> QED BY <2>1, <3>2, <4>1 DEF ClosedCharge, Consumed
      <3> QED BY <3>1, <3>2, CloseEntries
    <2>3. Consumed(c, b) \in Nat /\ escrow[c][b] \in Nat
      BY CloseEntries
    <2> QED BY <1>0, <2>1, <2>2, <2>3 DEF OpenEscrow, ClosedCharge, TypeOK
  <1>4. \A b \in Budgets :
           /\ reserved'[b] = reserved[b] + 0 - escrow[c][b]
           /\ spent'[b] = spent[b] + Consumed(c, b) - 0
    BY <1>1, <1>3
  <1> QED BY <1>1, <1>2, <1>3, <1>4 DEF FundsMove

LEMMA FundsStayBalanced ==
    ASSUME Contained, FundsBalance, [OrdinaryNext \/ ContractNext]_allvars
    PROVE  FundsBalance'
  <1>0. Contained' /\ Sound
    BY ContainedStays DEF Contained
  <1>1. ASSUME NEW c \in Contracts, FundsMove(c) PROVE FundsBalance'
    BY <1>0, <1>1, FundsBalanceMoves
  <1>2. ASSUME UNCHANGED <<spent, reserved, settled, reservation, ledger,
                           escrow, returned, c_ledger>>
        PROVE  FundsBalance'
    BY <1>2 DEF FundsBalance, OpenAmount, ChargedAmount, OpenEscrow,
                ClosedCharge
  <1>3. CASE OrdinaryNext
    <2>1. UNCHANGED <<escrow, returned, c_ledger>>
      BY <1>3 DEF OrdinaryNext, cvars, c_books
    <2>2. \/ \E r \in Requests : BooksMove(r)
          \/ UNCHANGED <<spent, reserved, settled, reservation, ledger>>
      BY <1>0, <1>3, OrdinaryIsNext, StepSound
    <2> HIDE DEF BooksMove
    <2>3. ASSUME NEW r \in Requests, BooksMove(r) PROVE FundsBalance'
      BY <1>0, <2>1, <2>3, RequestsMoveFunds
    <2> QED BY <1>2, <2>1, <2>2, <2>3
  <1>4. ASSUME NEW c \in Contracts, NEW dm \in Recent, NEW dd \in Recent,
               CreateContract(c, dm, dd)
        PROVE  FundsBalance'
    BY <1>1, <1>4, CreateMovesFunds
  <1>5. ASSUME NEW r \in Requests, NEW c \in Contracts, NEW v \in Versions,
               NEW i \in Idems, NEW p \in Payloads, NEW dm \in Recent,
               AdmitStep(r, c, v, i, p, dm)
        PROVE  FundsBalance'
    BY <1>2, <1>5 DEF AdmitStep, balances, c_books
  <1>6. ASSUME NEW r \in Requests, NEW to \in Final, NEW money \in Nat,
               NEW toks \in Nat, SettleStep(r, to, money, toks)
        PROVE  FundsBalance'
    BY <1>2, <1>6 DEF SettleStep, balances, c_books
  <1>7. ASSUME NEW c \in Contracts, Close(c) PROVE FundsBalance'
    BY <1>1, <1>7, CloseMovesFunds
  <1>8. ASSUME Filed PROVE FundsBalance'
    BY <1>2, <1>8 DEF Filed, vars
  <1> QED BY <1>3, <1>4, <1>5, <1>6, <1>7, <1>8, ContractMoves

LEMMA FundsAlways == ContractSpec => [](Contained /\ FundsBalance)
  BY ContainedInitially, FundsInitially, ContainedStays, FundsStayBalanced, PTL
  DEF ContractSpec

(* The totals of the tenant's budgets are those of its requests and of its *)
(* contracts together: steps book nothing, contracts once at each end.     *)
THEOREM FundsBalanced == ContractSpec => []FundsBalance
  BY FundsAlways, PTL

(* A contract with nothing outstanding can be closed at any time: what it  *)
(* used fits what it took, and what it took is still held.                 *)
THEOREM ClosesFit == ContractSpec => []ClosingFits
  <1>1. ASSUME Contained, FundsBalance, NEW c \in Contracts, ~closed[c],
               NEW b \in Budgets, escrow[c][b] > 0
        PROVE  used[c][Unit(b)] <= escrow[c][b] /\ escrow[c][b] <= reserved[b]
    <2>0. ContractTypeOK /\ ContractKnown(c) /\ EnvelopeHolds /\ Sound
      BY <1>1 DEF Contained, ContractsKnown
    <2>1. escrow[c][b] = Envelope[c][Unit(b)]
      BY <1>1, <2>0 DEF ContractKnown
    <2>2. \A u \in {"money", "tokens", "requests"} : used[c][u] <= Envelope[c][u]
      <3>1. /\ used[c] \in [Units \cup {"completed"} -> Nat]
            /\ outstanding[c] \in [money : Nat, tokens : Nat]
        BY <2>0 DEF ContractTypeOK
      <3>2. /\ used[c]["money"] \in Nat /\ used[c]["tokens"] \in Nat
            /\ outstanding[c]["money"] \in Nat
            /\ outstanding[c]["tokens"] \in Nat
        BY <3>1 DEF Units
      <3>3. /\ used[c]["money"] + outstanding[c]["money"]
                  <= Envelope[c]["money"]
            /\ used[c]["tokens"] + outstanding[c]["tokens"]
                  <= Envelope[c]["tokens"]
            /\ used[c]["requests"] <= Envelope[c]["requests"]
        BY <2>0 DEF EnvelopeHolds
      <3> QED BY <3>2, <3>3, EnvelopeIsPositive
    <2>3. OpenEscrow(c, b) = escrow[c][b]
      BY <1>1, <2>0 DEF ContractKnown, OpenEscrow
    <2>4. EscrowOf(b) \in [Contracts -> Nat] /\ EscrowOf(b)[c] = escrow[c][b]
      BY <2>0, <2>3, EscrowsAreNat DEF EscrowOf
    <2>5. escrow[c][b] <= SumFunction(EscrowOf(b))
      BY <2>4, SumTerm, ContractsAssumption
    <2>6. /\ SumFunction(OpenOf(b)) \in Nat /\ SumFunction(EscrowOf(b)) \in Nat
          /\ reserved[b] = SumFunction(OpenOf(b)) + SumFunction(EscrowOf(b))
      BY <1>1, <2>0, FundSums, FundsBalanceDef
    <2>7. escrow[c][b] \in Nat
      BY <2>0 DEF ContractTypeOK
    <2> QED BY <2>1, <2>2, <2>5, <2>6, <2>7, UnitsOfRows
  <1>2. Contained /\ FundsBalance => ClosingFits
    BY <1>1 DEF ClosingFits
  <1> QED BY <1>2, FundsAlways, PTL

-----------------------------------------------------------------------------
(* The tenant's limits, with contracts beside requests *)

(* What books nothing: a step's admission and settlement, and all filing.  *)
LEMMA StepsBookNothing ==
    ASSUME \/ \E r \in Requests, c \in Contracts, v \in Versions,
                 i \in Idems, p \in Payloads, dm \in Recent :
                 AdmitStep(r, c, v, i, p, dm)
           \/ \E r \in Requests, to \in Final, money \in Nat, toks \in Nat :
                 SettleStep(r, to, money, toks)
           \/ Filed
    PROVE  /\ UNCHANGED <<rows, hard_limit, version, alerts, balances>>
           /\ UNCHANGED <<reservation, settled, ledger>>
           /\ UNCHANGED <<escrow, returned, c_ledger>>
  <1>1. ASSUME NEW r \in Requests, NEW c \in Contracts, NEW v \in Versions,
               NEW i \in Idems, NEW p \in Payloads, NEW dm \in Recent,
               AdmitStep(r, c, v, i, p, dm)
        PROVE  /\ UNCHANGED <<rows, hard_limit, version, alerts, balances>>
               /\ UNCHANGED <<reservation, settled, ledger>>
               /\ UNCHANGED <<escrow, returned, c_ledger>>
    BY <1>1 DEF AdmitStep, controls, c_books
  <1>2. ASSUME NEW r \in Requests, NEW to \in Final, NEW money \in Nat,
               NEW toks \in Nat, SettleStep(r, to, money, toks)
        PROVE  /\ UNCHANGED <<rows, hard_limit, version, alerts, balances>>
               /\ UNCHANGED <<reservation, settled, ledger>>
               /\ UNCHANGED <<escrow, returned, c_ledger>>
    BY <1>2 DEF SettleStep, controls, c_books
  <1>3. ASSUME Filed
        PROVE  /\ UNCHANGED <<rows, hard_limit, version, alerts, balances>>
               /\ UNCHANGED <<reservation, settled, ledger>>
               /\ UNCHANGED <<escrow, returned, c_ledger>>
    BY <1>3 DEF Filed, vars, balances
  <1> QED BY <1>1, <1>2, <1>3

(* On a row that begins, a balance moves by what is held, which fits and   *)
(* is told, or falls.                                                      *)
BalancesAreTold ==
    /\ UNCHANGED <<rows, hard_limit, version>>
    /\ \A b \in Budgets \ rows : spent'[b] = spent[b] /\ reserved'[b] = reserved[b]
    /\ \A b \in rows :
         \/ Committed(b)' <= Committed(b) /\ alerts'[b] = alerts[b]
         \/ alerts'[b] = alerts[b] \cup Crossed(Committed(b)', hard_limit[b])

LEMMA CommittedNat ==
    ASSUME TypeOK, NEW b \in Budgets
    PROVE  /\ Committed(b) \in Nat /\ hard_limit[b] \in Nat
           /\ spent[b] \in Nat /\ reserved[b] \in Nat
  BY DEF TypeOK, Committed

(* The same of the state after a step. *)
LEMMA CommittedStaysNat ==
    ASSUME TypeOK', NEW b \in Budgets
    PROVE  Committed(b)' \in Nat
  BY DEF TypeOK, Committed

LEMMA CreateBalances ==
    ASSUME Contained, NEW c \in Contracts, NEW dm \in Recent, NEW dd \in Recent,
           CreateContract(c, dm, dd)
    PROVE  KeepsWithin /\ BalancesAreTold
  <1> DEFINE charged == Charged(KeyApp[ContractKey[c]], dm, dd)
             amount == [b \in Budgets |->
                          IF b \in charged THEN Envelope[c][Unit(b)] ELSE 0]
  <1>1. /\ reserved' = [b \in Budgets |-> reserved[b] + amount[b]]
        /\ alerts' = [b \in Budgets |->
              IF b \in charged THEN Alerted(b, amount[b]) ELSE alerts[b]]
        /\ \A b \in charged : Fits(b, amount[b])
        /\ UNCHANGED <<rows, hard_limit, version, spent>>
    BY DEF CreateContract, controls
  <1>2. charged \subseteq rows /\ rows \subseteq Budgets
    BY DEF Charged, History, Contained, Sound, TypeOK
  <1>3. \A b \in Budgets : /\ amount[b] \in Nat
                           /\ b \notin charged => amount[b] = 0
    BY EnvelopeAmounts
  <1> HIDE DEF amount, charged
  <1>4. ASSUME NEW b \in Budgets
        PROVE  /\ reserved'[b] = reserved[b] + amount[b]
               /\ Committed(b)' = Committed(b) + amount[b]
               /\ Committed(b) \in Nat /\ reserved[b] \in Nat
    BY <1>1, <1>3, CommittedNat DEF Contained, Sound, Committed
  <1>5. KeepsWithin
    <2>1. ASSUME NEW b \in Budgets, Committed(b)' > Committed(b)
          PROVE  Committed(b)' <= hard_limit'[b]
      <3>1. b \in charged
        BY <1>3, <1>4, <2>1
      <3> QED BY <1>1, <1>4, <3>1 DEF Fits
    <2> QED BY <2>1 DEF KeepsWithin
  <1>6. \A b \in Budgets \ rows :
           spent'[b] = spent[b] /\ reserved'[b] = reserved[b]
    BY <1>1, <1>2, <1>3, <1>4
  <1>7. ASSUME NEW b \in rows
        PROVE  \/ Committed(b)' <= Committed(b) /\ alerts'[b] = alerts[b]
               \/ alerts'[b] = alerts[b] \cup Crossed(Committed(b)', hard_limit[b])
    <2>1. CASE b \in charged
      BY <1>1, <1>2, <1>4, <2>1 DEF Alerted
    <2>2. CASE b \notin charged
      BY <1>1, <1>2, <1>3, <1>4, <2>2
    <2> QED BY <2>1, <2>2
  <1> QED BY <1>1, <1>5, <1>6, <1>7 DEF BalancesAreTold

(* A closing gives back more than it books, and on a row that has not      *)
(* begun there is nothing to give back.                                    *)
LEMMA CloseBalances ==
    ASSUME Contained, NEW c \in Contracts, Close(c)
    PROVE  KeepsWithin /\ (RowsBegin => BalancesAreTold)
  <1>1. /\ reserved' = [b \in Budgets |-> reserved[b] - escrow[c][b]]
        /\ spent' = [b \in Budgets |-> spent[b] + Consumed(c, b)]
        /\ UNCHANGED <<rows, hard_limit, version, alerts>>
    BY DEF Close, Consumed, controls
  <1>2. ASSUME NEW b \in Budgets
        PROVE  /\ reserved'[b] = reserved[b] - escrow[c][b]
               /\ spent'[b] = spent[b] + Consumed(c, b)
               /\ Consumed(c, b) \in Nat /\ escrow[c][b] \in Nat
               /\ Consumed(c, b) <= escrow[c][b]
               /\ escrow[c][b] <= reserved[b]
               /\ spent[b] \in Nat /\ reserved[b] \in Nat
    BY <1>1, CloseEntries, CommittedNat DEF Contained, Sound
  <1>3. ASSUME NEW b \in Budgets
        PROVE  /\ Committed(b) \in Nat /\ Committed(b)' \in Nat
               /\ Committed(b)' <= Committed(b)
    BY <1>2 DEF Committed
  <1>4. KeepsWithin
    BY <1>3 DEF KeepsWithin
  <1>5. ASSUME RowsBegin PROVE BalancesAreTold
    <2>1. ASSUME NEW b \in Budgets \ rows
          PROVE  spent'[b] = spent[b] /\ reserved'[b] = reserved[b]
      <3>1. spent[b] = 0 /\ reserved[b] = 0
        BY <1>5 DEF RowsBegin
      <3> QED BY <1>2, <3>1
    <2>2. rows \subseteq Budgets
      BY DEF Contained, Sound, TypeOK
    <2> QED BY <1>1, <1>3, <2>1, <2>2 DEF BalancesAreTold
  <1> QED BY <1>4, <1>5

LEMMA ContractsKeepWithin ==
    ASSUME Contained, [OrdinaryNext \/ ContractNext]_allvars
    PROVE  KeepsWithin
  <1>0. Sound
    BY DEF Contained
  <1>1. ASSUME UNCHANGED <<rows, hard_limit, version, alerts, balances>>
        PROVE  KeepsWithin
    <2>1. \A b \in Budgets : Committed(b)' = Committed(b) /\ Committed(b) \in Nat
      BY <1>0, <1>1, CommittedNat DEF Sound, Committed, balances
    <2> QED BY <2>1 DEF KeepsWithin
  <1>2. CASE OrdinaryNext
    BY <1>0, <1>2, OrdinaryIsNext, NextKeepsWithin
  <1> QED BY <1>1, <1>2, ContractMoves, CreateBalances, CloseBalances,
             StepsBookNothing

(* Contracts overcommit no budget either: an envelope is granted where it  *)
(* fits, and no step, settlement, closing or token moves a row further     *)
(* over its limit.                                                         *)
THEOREM TenantLimitsAreHard == ContractSpec => NeverOvercommits
  <1>1. Contained /\ [OrdinaryNext \/ ContractNext]_allvars => KeepsWithin
    BY ContractsKeepWithin
  <1>2. KeepsWithin =>
          [\A b \in Budgets :
             Committed(b)' > Committed(b) => Committed(b)' <= hard_limit'[b]]_vars
    BY DEF KeepsWithin
  <1> QED BY <1>1, <1>2, ContainedAlways, PTL DEF NeverOvercommits, ContractSpec

LEMMA ToldBalances ==
    ASSUME TypeOK, TypeOK', RowsBegin, NoSilentCrossing, BalancesAreTold
    PROVE  RowsBegin' /\ NoSilentCrossing'
  <1>1. RowsBegin'
    BY DEF RowsBegin, BalancesAreTold
  <1>2. ASSUME NEW b \in rows, version[b] = 1
        PROVE  Crossed(Committed(b), hard_limit[b])' \subseteq alerts'[b]
    <2>1. /\ b \in Budgets /\ Committed(b) \in Nat /\ Committed(b)' \in Nat
          /\ hard_limit[b] \in Nat
      <3>1. b \in Budgets
        BY DEF TypeOK
      <3> QED BY <3>1, CommittedNat, CommittedStaysNat
    <2>2. Crossed(Committed(b), hard_limit[b])' =
            Crossed(Committed(b)', hard_limit[b])
      BY DEF BalancesAreTold, Crossed
    <2>3. Crossed(Committed(b), hard_limit[b]) \subseteq alerts[b]
      BY <1>2 DEF NoSilentCrossing
    <2>4. CASE Committed(b)' <= Committed(b) /\ alerts'[b] = alerts[b]
      BY <2>1, <2>2, <2>3, <2>4, CrossedShrinks
    <2>5. CASE alerts'[b] = alerts[b] \cup Crossed(Committed(b)', hard_limit[b])
      BY <2>2, <2>5
    <2> QED BY <2>4, <2>5 DEF BalancesAreTold
  <1> QED BY <1>1, <1>2 DEF NoSilentCrossing, BalancesAreTold

LEMMA TenantAlertsStay ==
    ASSUME Contained, RowsBegin, NoSilentCrossing,
           [OrdinaryNext \/ ContractNext]_allvars
    PROVE  RowsBegin' /\ NoSilentCrossing'
  <1>0. Sound /\ TypeOK /\ TypeOK'
    BY ContainedStays DEF Contained, Sound
  <1>1. ASSUME UNCHANGED <<rows, hard_limit, version, alerts, balances>>
        PROVE  RowsBegin' /\ NoSilentCrossing'
    BY <1>1 DEF RowsBegin, NoSilentCrossing, Crossed, Committed, balances
  <1>2. CASE OrdinaryNext
    BY <1>0, <1>2, OrdinaryIsNext, AlertsStay
  <1>3. ASSUME BalancesAreTold PROVE RowsBegin' /\ NoSilentCrossing'
    BY <1>0, <1>3, ToldBalances
  <1> QED BY <1>1, <1>2, <1>3, ContractMoves, CreateBalances, CloseBalances,
             StepsBookNothing

(* An envelope, like a request, crosses no threshold of a row with its     *)
(* first limit in silence, and a closing carries no row over one.          *)
THEOREM TenantCrossingsAreTold == ContractSpec => []NoSilentCrossing
  <1>1. Init => RowsBegin /\ NoSilentCrossing
    BY AlertsInitially
  <1>2. /\ Contained /\ RowsBegin /\ NoSilentCrossing
        /\ [OrdinaryNext \/ ContractNext]_allvars
        => RowsBegin' /\ NoSilentCrossing'
    BY TenantAlertsStay
  <1> QED BY <1>1, <1>2, ContainedAlways, PTL DEF ContractSpec

-----------------------------------------------------------------------------
(* The root over its scopes, with contracts beside requests *)

(* What a contract holds and is charged on a monthly money cap it holds    *)
(* and is charged on the root of that month; where it holds nothing it is  *)
(* charged nothing.                                                        *)
EscrowUnderRoot ==
    \A c \in Contracts, b \in Budgets :
        /\ escrow[c][b] = 0 => c_ledger[c][b].settle = NoEntry
        /\ Child(b) /\ escrow[c][b] > 0 =>
              /\ escrow[c][b] = escrow[c][Root(b[2])]
              /\ c_ledger[c][b].settle = c_ledger[c][Root(b[2])].settle

LEMMA CreateUnderRoot ==
    ASSUME Contained, EscrowUnderRoot, NEW c \in Contracts,
           NEW dm \in Recent, NEW dd \in Recent, CreateContract(c, dm, dd)
    PROVE  EscrowUnderRoot'
  <1> DEFINE a == KeyApp[ContractKey[c]]
             charged == Charged(a, dm, dd)
             amount == [b \in Budgets |->
                          IF b \in charged THEN Envelope[c][Unit(b)] ELSE 0]
             posted == [b \in Budgets |->
                          IF b \in charged THEN Opened(amount[b]) ELSE NoPostings]
  <1>0. ContractTypeOK
    BY DEF Contained
  <1>1. /\ escrow' = [escrow EXCEPT ![c] = amount]
        /\ c_ledger' = [c_ledger EXCEPT ![c] = posted]
        /\ Root(MonthOf[dm]) \in rows
    BY DEF CreateContract
  <1>2. ASSUME NEW b \in charged, Child(b)
        PROVE  Root(b[2]) \in charged
    <2>1. b[2] = MonthOf[dm]
      BY <1>2 DEF Charged, Period, Child
    <2>2. RootCap.scope \in Path[a]
      BY PathAssumption, ContractsAssumption
    <2>3. Root(MonthOf[dm])[1] = RootCap /\ Root(MonthOf[dm])[2] = MonthOf[dm]
      BY DEF Root
    <2> QED BY <1>1, <2>1, <2>2, <2>3, CapsAssumption
         DEF Charged, History, Period
  <1>3. /\ amount \in [Budgets -> Nat]
        /\ \A b \in Budgets : b \notin charged => amount[b] = 0
    BY EnvelopeAmounts
  <1> HIDE DEF charged
  <1>4. ASSUME NEW b \in Budgets, Child(b), amount[b] > 0
        PROVE  amount[b] = amount[Root(b[2])]
    <2>1. Root(b[2]) \in Budgets /\ Unit(b) = Unit(Root(b[2]))
      BY <1>4, RootIsBudget
    <2>2. b \in charged /\ Root(b[2]) \in charged
      BY <1>2, <1>3, <1>4
    <2> QED BY <2>1, <2>2
  <1> HIDE DEF amount
  <1>5. \A b \in Budgets : posted[b].settle = NoEntry
    BY <1>3, OpenedEntry DEF NoPostings
  <1> HIDE DEF posted
  <1>6. /\ escrow'[c] = amount /\ c_ledger'[c] = posted
        /\ \A d \in Contracts \ {c} :
              escrow'[d] = escrow[d] /\ c_ledger'[d] = c_ledger[d]
    BY <1>0, <1>1 DEF ContractTypeOK
  <1>7. ASSUME NEW d \in Contracts, NEW b \in Budgets
        PROVE  /\ escrow'[d][b] = 0 => c_ledger'[d][b].settle = NoEntry
               /\ Child(b) /\ escrow'[d][b] > 0 =>
                     /\ escrow'[d][b] = escrow'[d][Root(b[2])]
                     /\ c_ledger'[d][b].settle
                          = c_ledger'[d][Root(b[2])].settle
    <2>1. CASE d = c
      BY <1>4, <1>5, <1>6, <2>1, RootIsBudget
    <2>2. CASE d # c
      BY <1>6, <2>2 DEF EscrowUnderRoot
    <2> QED BY <2>1, <2>2
  <1> QED BY <1>7 DEF EscrowUnderRoot

(* A closing books the same use on a cap as on the root above it.          *)
LEMMA CloseUnderRoot ==
    ASSUME Contained, EscrowUnderRoot, NEW c \in Contracts, Close(c)
    PROVE  EscrowUnderRoot'
  <1>0. ContractTypeOK
    BY DEF Contained
  <1>1. /\ escrow' = escrow
        /\ \A d \in Contracts \ {c} : c_ledger'[d] = c_ledger[d]
    BY <1>0 DEF Close, ContractTypeOK
  <1>2. ASSUME NEW b \in Budgets
        PROVE  /\ escrow[c][b] = 0 => c_ledger'[c][b].settle = NoEntry
               /\ Child(b) /\ escrow[c][b] > 0 =>
                     /\ escrow[c][b] = escrow[c][Root(b[2])]
                     /\ c_ledger'[c][b].settle
                          = c_ledger'[c][Root(b[2])].settle
    <2>1. CASE escrow[c][b] = 0
      BY <2>1, CloseEntries DEF EscrowUnderRoot
    <2>2. CASE Child(b) /\ escrow[c][b] > 0
      <3>1. Root(b[2]) \in Budgets /\ Unit(b) = Unit(Root(b[2]))
        BY <2>2, RootIsBudget
      <3>2. escrow[c][b] = escrow[c][Root(b[2])]
        BY <2>2 DEF EscrowUnderRoot
      <3>3. /\ c_ledger'[c][b].settle = Consumed(c, b)
            /\ c_ledger'[c][Root(b[2])].settle = Consumed(c, Root(b[2]))
        BY <2>2, <3>1, <3>2, CloseEntries
      <3>4. Consumed(c, b) = Consumed(c, Root(b[2]))
        BY <3>1, <3>2 DEF Consumed
      <3> QED BY <2>2, <3>2, <3>3, <3>4
    <2> QED BY <2>1, <2>2
  <1>3. ASSUME NEW d \in Contracts, NEW b \in Budgets
        PROVE  /\ escrow'[d][b] = 0 => c_ledger'[d][b].settle = NoEntry
               /\ Child(b) /\ escrow'[d][b] > 0 =>
                     /\ escrow'[d][b] = escrow'[d][Root(b[2])]
                     /\ c_ledger'[d][b].settle
                          = c_ledger'[d][Root(b[2])].settle
    <2>1. CASE d = c
      BY <1>1, <1>2, <2>1
    <2>2. CASE d # c
      BY <1>1, <2>2 DEF EscrowUnderRoot
    <2> QED BY <2>1, <2>2
  <1> QED BY <1>3 DEF EscrowUnderRoot

LEMMA TenantUnderRootStays ==
    ASSUME Contained, HeldUnderRoot, EscrowUnderRoot,
           [OrdinaryNext \/ ContractNext]_allvars
    PROVE  HeldUnderRoot' /\ EscrowUnderRoot'
  <1>0. Sound
    BY DEF Contained
  <1>1. ASSUME UNCHANGED <<reservation, ledger>> PROVE HeldUnderRoot'
    BY <1>1 DEF HeldUnderRoot
  <1>2. ASSUME UNCHANGED <<escrow, c_ledger>> PROVE EscrowUnderRoot'
    BY <1>2 DEF EscrowUnderRoot
  <1>3. CASE OrdinaryNext
    <2>1. UNCHANGED <<escrow, c_ledger>>
      BY <1>3 DEF OrdinaryNext, cvars, c_books
    <2> QED BY <1>0, <1>2, <1>3, <2>1, OrdinaryIsNext, UnderRootStays
  <1>4. ASSUME NEW c \in Contracts, NEW dm \in Recent, NEW dd \in Recent,
               CreateContract(c, dm, dd)
        PROVE  HeldUnderRoot' /\ EscrowUnderRoot'
    BY <1>1, <1>4, CreateUnderRoot DEF CreateContract
  <1>5. ASSUME NEW c \in Contracts, Close(c)
        PROVE  HeldUnderRoot' /\ EscrowUnderRoot'
    BY <1>1, <1>5, CloseUnderRoot DEF Close
  <1> QED BY <1>1, <1>2, <1>3, <1>4, <1>5, ContractMoves, StepsBookNothing

(* Term by term the root has at least what the child has. *)
LEMMA ContractsUnderRoot ==
    ASSUME Contained, EscrowUnderRoot, NEW b \in Budgets, Child(b)
    PROVE  /\ SumFunction(EscrowOf(b)) <= SumFunction(EscrowOf(Root(b[2])))
           /\ SumFunction(BookedOf(b)) <= SumFunction(BookedOf(Root(b[2])))
  <1> DEFINE top == Root(b[2])
  <1>0. ContractTypeOK /\ top \in Budgets
    BY RootIsBudget DEF Contained
  <1>1. /\ EscrowOf(b) \in [Contracts -> Nat] /\ EscrowOf(top) \in [Contracts -> Nat]
        /\ BookedOf(b) \in [Contracts -> Nat]
        /\ BookedOf(top) \in [Contracts -> Nat]
    BY <1>0, EscrowsAreNat
  <1>2. ASSUME NEW c \in Contracts
        PROVE  /\ EscrowOf(b)[c] <= EscrowOf(top)[c]
               /\ BookedOf(b)[c] <= BookedOf(top)[c]
    <2>1. /\ EscrowOf(b)[c] = OpenEscrow(c, b)
          /\ EscrowOf(top)[c] = OpenEscrow(c, top)
          /\ BookedOf(b)[c] = ClosedCharge(c, b)
          /\ BookedOf(top)[c] = ClosedCharge(c, top)
      BY DEF EscrowOf, BookedOf
    <2>2. /\ OpenEscrow(c, b) \in Nat /\ OpenEscrow(c, top) \in Nat
          /\ ClosedCharge(c, b) \in Nat /\ ClosedCharge(c, top) \in Nat
      BY <1>1, <2>1
    <2>3. CASE escrow[c][b] = 0
      <3>1. OpenEscrow(c, b) = 0 /\ ClosedCharge(c, b) = 0
        BY <2>3 DEF OpenEscrow, ClosedCharge, EscrowUnderRoot
      <3> QED BY <2>1, <2>2, <3>1
    <2>4. CASE escrow[c][b] > 0
      <3>1. /\ escrow[c][b] = escrow[c][top]
            /\ c_ledger[c][b].settle = c_ledger[c][top].settle
        BY <2>4 DEF EscrowUnderRoot
      <3> HIDE DEF top
      <3>2. /\ OpenEscrow(c, b) = OpenEscrow(c, top)
            /\ ClosedCharge(c, b) = ClosedCharge(c, top)
        BY <3>1 DEF OpenEscrow, ClosedCharge
      <3> QED BY <2>1, <2>2, <3>2
    <2>5. escrow[c][b] \in Nat
      BY <1>0 DEF ContractTypeOK
    <2> QED BY <2>3, <2>4, <2>5
  <1> HIDE DEF top
  <1>3. /\ SumFunction(EscrowOf(b)) <= SumFunction(EscrowOf(top))
        /\ SumFunction(BookedOf(b)) <= SumFunction(BookedOf(top))
    BY <1>1, <1>2, SumMonotone, ContractsAssumption
  <1> QED BY <1>3 DEF top

(* Envelopes included, no cap below the root spends or holds more of a     *)
(* month's money than the root of that month.                              *)
THEOREM TenantRootCovers == ContractSpec => []RootCoversScopes
  <1> DEFINE RInv == HeldUnderRoot /\ EscrowUnderRoot
  <1>1. Init /\ ContractInit => RInv
    BY DEF Init, ContractInit, HeldUnderRoot, EscrowUnderRoot, NoCharge,
           NoPostings
  <1>2. Contained /\ RInv /\ [OrdinaryNext \/ ContractNext]_allvars => RInv'
    BY TenantUnderRootStays
  <1>3. Contained /\ FundsBalance /\ RInv => RootCoversScopes
    <2> SUFFICES ASSUME Contained, FundsBalance, RInv, NEW c \in Caps,
                        NEW m \in Days, c.unit = "money", c.cadence = "month"
                 PROVE  /\ spent[<<c, m>>] <= spent[Root(m)]
                        /\ reserved[<<c, m>>] <= reserved[Root(m)]
      BY DEF RootCoversScopes
    <2> DEFINE b == <<c, m>>
    <2>1. b \in Budgets /\ Child(b) /\ b[2] = m
      BY DEF Budgets, Child
    <2> HIDE DEF b
    <2>2. Root(m) \in Budgets /\ Sound /\ ContractTypeOK
      BY <2>1, RootIsBudget DEF Contained
    <2>3. /\ SumFunction(OpenOf(b)) <= SumFunction(OpenOf(Root(m)))
          /\ SumFunction(ChargedOf(b)) <= SumFunction(ChargedOf(Root(m)))
          /\ SumFunction(EscrowOf(b)) <= SumFunction(EscrowOf(Root(m)))
          /\ SumFunction(BookedOf(b)) <= SumFunction(BookedOf(Root(m)))
      BY <2>1, <2>2, RequestsUnderRoot, ContractsUnderRoot
    <2>4. /\ SumFunction(OpenOf(b)) \in Nat /\ SumFunction(OpenOf(Root(m))) \in Nat
          /\ SumFunction(ChargedOf(b)) \in Nat
          /\ SumFunction(ChargedOf(Root(m))) \in Nat
          /\ SumFunction(EscrowOf(b)) \in Nat
          /\ SumFunction(EscrowOf(Root(m))) \in Nat
          /\ SumFunction(BookedOf(b)) \in Nat
          /\ SumFunction(BookedOf(Root(m))) \in Nat
      BY <2>1, <2>2, FundSums
    <2>5. /\ reserved[b] = SumFunction(OpenOf(b)) + SumFunction(EscrowOf(b))
          /\ spent[b] = SumFunction(ChargedOf(b)) + SumFunction(BookedOf(b))
          /\ reserved[Root(m)] = SumFunction(OpenOf(Root(m)))
                                   + SumFunction(EscrowOf(Root(m)))
          /\ spent[Root(m)] = SumFunction(ChargedOf(Root(m)))
                                + SumFunction(BookedOf(Root(m)))
      BY <2>1, <2>2, FundsBalanceDef
    <2>6. spent[b] <= spent[Root(m)] /\ reserved[b] <= reserved[Root(m)]
      BY <2>3, <2>4, <2>5
    <2> QED BY <2>6 DEF b
  <1> QED BY <1>1, <1>2, <1>3, FundsAlways, PTL DEF ContractSpec

-----------------------------------------------------------------------------
(* A contract's own books *)

(* The sums over a contract's steps, as sums over all requests. *)
BoundIn(c, u) ==
    [r \in Requests |->
        IF under[r] = c /\ allocation[r].state = "reserved"
          THEN BoundOf(r, u) ELSE 0]
ActualIn(c, u) ==
    [r \in Requests |->
        IF under[r] = c /\ allocation[r].state = "completed"
          THEN allocation[r][u] ELSE 0]

CountersMatch(c) ==
    /\ \A u \in {"money", "tokens"} :
         /\ outstanding[c][u] = SumFunction(BoundIn(c, u))
         /\ used[c][u] = SumFunction(ActualIn(c, u))
    /\ used[c]["completed"] = Cardinality(StepsOf(c, "completed"))

TermsNat ==
    \A c \in Contracts, u \in {"money", "tokens"} :
        /\ BoundIn(c, u) \in [Requests -> Nat]
        /\ ActualIn(c, u) \in [Requests -> Nat]

LEMMA TermsAreNat == Contained => TermsNat
  <1> SUFFICES ASSUME Contained, NEW c \in Contracts,
                      NEW u \in {"money", "tokens"}
               PROVE  /\ BoundIn(c, u) \in [Requests -> Nat]
                      /\ ActualIn(c, u) \in [Requests -> Nat]
    BY DEF TermsNat
  <1>0. Sound /\ ContractTypeOK /\ StepsKnown
    BY DEF Contained
  <1>1. ASSUME NEW r \in Requests, under[r] = c PROVE BoundOf(r, u) \in Nat
    <2>1. state[r] # "absent"
      BY <1>0, <1>1, ContractsAssumption DEF StepsKnown, Step
    <2> QED BY <1>0, <2>1, RequestBounds DEF BoundOf, MoneyBound, TokenBound
  <1>2. \A r \in Requests : allocation[r][u] \in Nat
    BY <1>0 DEF ContractTypeOK
  <1> QED BY <1>1, <1>2 DEF BoundIn, ActualIn

(* Requests that are not in the set of steps add nothing to its sum. *)
LEMMA MatchIsBalance ==
    ASSUME Contained, NEW c \in Contracts
    PROVE  CountersMatch(c) <=>
             /\ \A u \in {"money", "tokens"} :
                  /\ outstanding[c][u] =
                       SumFunction([r \in StepsOf(c, "reserved") |->
                                      BoundOf(r, u)])
                  /\ used[c][u] =
                       SumFunction([r \in StepsOf(c, "completed") |->
                                      allocation[r][u]])
             /\ used[c]["completed"] = Cardinality(StepsOf(c, "completed"))
  <1>1. ASSUME NEW u \in {"money", "tokens"}
        PROVE  /\ SumFunction([r \in StepsOf(c, "reserved") |-> BoundOf(r, u)])
                    = SumFunction(BoundIn(c, u))
               /\ SumFunction([r \in StepsOf(c, "completed") |->
                                 allocation[r][u]])
                    = SumFunction(ActualIn(c, u))
    <2> DEFINE S == StepsOf(c, "reserved")
               f == [r \in S |-> BoundOf(r, u)]
               g == BoundIn(c, u)
               S1 == StepsOf(c, "completed")
               f1 == [r \in S1 |-> allocation[r][u]]
               g1 == ActualIn(c, u)
    <2>1. g \in [Requests -> Nat] /\ g1 \in [Requests -> Nat]
      BY TermsAreNat DEF TermsNat
    <2>2. S \in SUBSET Requests /\ S1 \in SUBSET Requests
      BY DEF StepsOf
    <2>3. \A r \in Requests : g[r] = IF r \in S THEN BoundOf(r, u) ELSE 0
      BY DEF StepsOf, BoundIn
    <2>4. \A r \in Requests : g1[r] = IF r \in S1 THEN allocation[r][u] ELSE 0
      BY DEF StepsOf, ActualIn
    <2>5. \A r \in S : BoundOf(r, u) \in Nat
      BY <2>1, <2>2, <2>3
    <2>6. \A r \in S1 : allocation[r][u] \in Nat
      BY <2>1, <2>2, <2>4
    <2>7. f \in [S -> Nat] /\ f1 \in [S1 -> Nat]
      BY <2>5, <2>6
    <2>8. /\ \A r \in Requests : g[r] = IF r \in S THEN f[r] ELSE 0
          /\ \A r \in Requests : g1[r] = IF r \in S1 THEN f1[r] ELSE 0
      BY <2>3, <2>4
    <2> HIDE DEF f, g, f1, g1, S, S1
    <2>9. SumFunction(g) = SumFunction(f) /\ SumFunction(g1) = SumFunction(f1)
      BY <2>1, <2>2, <2>7, <2>8, SumRestrict, RequestsAssumption
    <2> QED BY <2>9 DEF f, g, f1, g1, S, S1
  <1> QED BY <1>1 DEF CountersMatch

AllMatch == \A c \in Contracts : ~SettledTwice(c) => CountersMatch(c)

LEMMA BalanceIsMatch == Contained => (AllocationsBalance <=> AllMatch)
  BY MatchIsBalance DEF AllocationsBalance, AllMatch

LEMMA AllocationsInitially == Init /\ ContractInit => AllocationsBalance
  <1> SUFFICES ASSUME Init, ContractInit PROVE AllocationsBalance
    OBVIOUS
  <1>0. Contained
    BY ContainedInitially
  <1>1. ASSUME NEW c \in Contracts PROVE CountersMatch(c)
    <2>1. \A r \in Requests : under[r] # c
      BY ContractsAssumption DEF ContractInit
    <2>2. Cardinality(StepsOf(c, "completed")) = 0
      BY <2>1, FS_EmptySet DEF StepsOf
    <2>3. ASSUME NEW u \in {"money", "tokens"}
          PROVE  SumFunction(BoundIn(c, u)) = 0 /\ SumFunction(ActualIn(c, u)) = 0
      <3>1. /\ \A r \in Requests : BoundIn(c, u)[r] = 0
            /\ \A r \in Requests : ActualIn(c, u)[r] = 0
        BY <2>1 DEF BoundIn, ActualIn
      <3> QED BY <1>0, <3>1, TermsAreNat, SumZero, RequestsAssumption
           DEF TermsNat
    <2>4. /\ \A u \in {"money", "tokens"} : outstanding[c][u] = 0
          /\ \A u \in Units \cup {"completed"} : used[c][u] = 0
      BY DEF ContractInit
    <2> QED BY <2>2, <2>3, <2>4 DEF CountersMatch, Units
  <1> QED BY <1>0, <1>1, BalanceIsMatch DEF AllMatch

(* What c's counters follow of a step, and of no step of c. *)
StepKept(c, r) ==
    /\ under'[r] = c <=> under[r] = c
    /\ under[r] = c => /\ allocation'[r] = allocation[r]
                       /\ request'[r] = request[r]

LEMMA TermsKept ==
    ASSUME NEW c \in Contracts, NEW r \in Requests, StepKept(c, r),
           NEW u \in {"money", "tokens"}
    PROVE  /\ BoundIn(c, u)'[r] = BoundIn(c, u)[r]
           /\ ActualIn(c, u)'[r] = ActualIn(c, u)[r]
           /\ r \in StepsOf(c, "completed")' <=> r \in StepsOf(c, "completed")
  BY DEF StepKept, BoundIn, ActualIn, StepsOf, BoundOf

LEMMA CountersKept ==
    ASSUME Contained, Contained', NEW c \in Contracts, CountersMatch(c),
           \A r \in Requests : StepKept(c, r),
           outstanding'[c] = outstanding[c], used'[c] = used[c]
    PROVE  CountersMatch(c)'
  <1>1. ASSUME NEW u \in {"money", "tokens"}
        PROVE  /\ BoundIn(c, u)' = BoundIn(c, u)
               /\ ActualIn(c, u)' = ActualIn(c, u)
    <2>1. \A r \in Requests : /\ BoundIn(c, u)'[r] = BoundIn(c, u)[r]
                              /\ ActualIn(c, u)'[r] = ActualIn(c, u)[r]
      BY TermsKept
    <2> QED BY <2>1 DEF BoundIn, ActualIn
  <1>2. StepsOf(c, "completed")' = StepsOf(c, "completed")
    <2>1. \A r \in Requests :
            r \in StepsOf(c, "completed")' <=> r \in StepsOf(c, "completed")
      BY TermsKept
    <2> QED BY <2>1 DEF StepsOf
  <1> QED BY <1>1, <1>2 DEF CountersMatch

(* One request is all that moves, and the counters move with its terms.   *)
LEMMA CountersFollow ==
    ASSUME Contained, Contained', NEW c \in Contracts, CountersMatch(c),
           NEW r \in Requests, \A q \in Requests \ {r} : StepKept(c, q),
           \A u \in {"money", "tokens"} :
              /\ outstanding'[c][u] =
                   outstanding[c][u] + BoundIn(c, u)'[r] - BoundIn(c, u)[r]
              /\ used'[c][u] =
                   used[c][u] + ActualIn(c, u)'[r] - ActualIn(c, u)[r],
           r \notin StepsOf(c, "completed"),
           used'[c]["completed"] = used[c]["completed"] +
              (IF r \in StepsOf(c, "completed")' THEN 1 ELSE 0)
    PROVE  CountersMatch(c)'
  <1>0. TermsNat /\ TermsNat'
    BY TermsAreNat, PTL
  <1>1. ASSUME NEW u \in {"money", "tokens"}
        PROVE  /\ outstanding'[c][u] = SumFunction(BoundIn(c, u)')
               /\ used'[c][u] = SumFunction(ActualIn(c, u)')
    <2> DEFINE f == BoundIn(c, u)   f1 == BoundIn(c, u)'
               g == ActualIn(c, u)  g1 == ActualIn(c, u)'
    <2>1. /\ f \in [Requests -> Nat] /\ f1 \in [Requests -> Nat]
          /\ g \in [Requests -> Nat] /\ g1 \in [Requests -> Nat]
          /\ IsFiniteSet(Requests)
      BY <1>0, RequestsAssumption DEF TermsNat
    <2>2. /\ \A q \in Requests \ {r} : f1[q] = f[q]
          /\ \A q \in Requests \ {r} : g1[q] = g[q]
      BY TermsKept
    <2>3. /\ outstanding[c][u] = SumFunction(f)
          /\ used[c][u] = SumFunction(g)
      BY DEF CountersMatch
    <2>4. /\ outstanding'[c][u] = outstanding[c][u] + f1[r] - f[r]
          /\ used'[c][u] = used[c][u] + g1[r] - g[r]
      OBVIOUS
    <2> HIDE DEF f, f1, g, g1
    <2>5. /\ SumFunction(f1) = SumFunction(f) + f1[r] - f[r]
          /\ SumFunction(g1) = SumFunction(g) + g1[r] - g[r]
      BY <2>1, <2>2, SumUpdate
    <2>6. outstanding'[c][u] = SumFunction(f1) /\ used'[c][u] = SumFunction(g1)
      BY <2>3, <2>4, <2>5
    <2> QED BY <2>6 DEF f, f1, g, g1
  <1>2. used'[c]["completed"] = Cardinality(StepsOf(c, "completed")')
    <2> DEFINE S == StepsOf(c, "completed")  S1 == StepsOf(c, "completed")'
    <2>1. \A q \in Requests \ {r} : q \in S1 <=> q \in S
      BY TermsKept
    <2>2. S \subseteq Requests /\ S1 \subseteq Requests
      BY DEF StepsOf
    <2>3. IsFiniteSet(S)
      BY <2>2, FS_Subset, RequestsAssumption
    <2>4. used[c]["completed"] = Cardinality(S)
      BY DEF CountersMatch
    <2>5. used'[c]["completed"] = used[c]["completed"]
                                    + (IF r \in S1 THEN 1 ELSE 0)
      OBVIOUS
    <2>6. r \notin S
      OBVIOUS
    <2> HIDE DEF S, S1
    <2>7. CASE r \in S1
      <3>1. S1 = S \cup {r}
        BY <2>1, <2>2, <2>7
      <3>2. Cardinality(S1) = Cardinality(S) + 1
        BY <2>3, <2>6, <3>1, FS_AddElement
      <3> QED BY <2>4, <2>5, <2>7, <3>2 DEF S1
    <2>8. CASE r \notin S1
      <3>1. S1 = S
        BY <2>1, <2>2, <2>6, <2>8
      <3>2. Cardinality(S) \in Nat
        BY <2>3, FS_CardinalityType
      <3> QED BY <2>4, <2>5, <2>8, <3>1, <3>2 DEF S1
    <2> QED BY <2>7, <2>8
  <1> QED BY <1>1, <1>2 DEF CountersMatch

LEMMA OrdinaryAllocations ==
    ASSUME Contained, Contained', AllocationsBalance, OrdinaryNext
    PROVE  AllocationsBalance'
  <1>0. Sound /\ StepsKnown
    BY DEF Contained
  <1>1. UNCHANGED <<under, allocation, outstanding, used>>
    BY DEF OrdinaryNext, cvars, steps, c_rows
  <1>2. ASSUME NEW c \in Contracts, ~SettledTwice(c)' PROVE CountersMatch(c)'
    <2>1. ASSUME NEW r \in Requests, under[r] = c
          PROVE  request'[r] = request[r] /\ usage_events'[r] = usage_events[r]
      <3>1. Step(r) /\ state[r] # "absent"
        BY <1>0, <2>1, ContractsAssumption DEF StepsKnown, Step
      <3> QED BY <1>0, <3>1, OrdinaryMoves
    <2>2. \A r \in Requests : StepKept(c, r)
      BY <1>1, <2>1 DEF StepKept
    <2>3. ~SettledTwice(c)
      BY <1>1, <1>2, <2>1 DEF SettledTwice
    <2> QED BY <1>1, <2>2, <2>3, BalanceIsMatch, CountersKept DEF AllMatch
  <1>3. AllMatch'
    BY <1>2 DEF AllMatch
  <1> QED BY <1>3, BalanceIsMatch, PTL
LEMMA AdmitStepAllocations ==
    ASSUME Contained, Contained', AllocationsBalance, NEW r \in Requests,
           NEW c \in Contracts, NEW v \in Versions, NEW i \in Idems,
           NEW p \in Payloads, NEW dm \in Recent, AdmitStep(r, c, v, i, p, dm)
    PROVE  AllocationsBalance'
  <1> DEFINE m == Bound[p]["money"]
             t == Bound[p]["tokens"]
  <1>0. TypeOK /\ ContractTypeOK /\ StepsKnown
    BY DEF Contained, Sound
  <1>1. /\ state[r] = "absent"
        /\ request' = [request EXCEPT ![r] =
              [key |-> ContractKey[c], idem |-> i, payload |-> p,
               month |-> MonthOf[dm]]]
        /\ under' = [under EXCEPT ![r] = c]
        /\ allocation' = [allocation EXCEPT ![r].state = "reserved"]
        /\ outstanding' = [outstanding EXCEPT ![c].money = @ + m,
                                              ![c].tokens = @ + t]
        /\ used' = [used EXCEPT ![c]["requests"] = @ + 1]
        /\ usage_events' = usage_events
    BY DEF AdmitStep
  <1>2. m \in Nat /\ t \in Nat
    BY PayloadBounds
  <1>3. /\ under[r] = None /\ under'[r] = c
        /\ allocation'[r].state = "reserved"
        /\ request'[r].payload = p
        /\ \A q \in Requests \ {r} :
              /\ under'[q] = under[q] /\ allocation'[q] = allocation[q]
              /\ request'[q] = request[q]
    BY <1>0, <1>1 DEF TypeOK, ContractTypeOK, StepsKnown, Step
  <1> HIDE DEF m, t
  <1>4. \A q \in Requests \ {r}, d \in Contracts : StepKept(d, q)
    BY <1>3 DEF StepKept
  <1>5. \A d \in Contracts : ~SettledTwice(d)' => ~SettledTwice(d)
    BY <1>1, <1>3, ContractsAssumption DEF SettledTwice
  <1>6. ASSUME NEW d \in Contracts, d # c, CountersMatch(d)
        PROVE  CountersMatch(d)'
    <2>1. StepKept(d, r)
      BY <1>3, <1>6, ContractsAssumption DEF StepKept
    <2>2. used'[d] = used[d] /\ outstanding'[d] = outstanding[d]
      BY <1>0, <1>1, <1>6 DEF ContractTypeOK
    <2> QED BY <1>4, <1>6, <2>1, <2>2, CountersKept
  <1>7. ASSUME CountersMatch(c) PROVE CountersMatch(c)'
    <2> DEFINE was == used[c]
               out == outstanding[c]
               new == outstanding'[c]
               money == out.money + m
               toks == out.tokens + t
    <2>1. /\ was \in [Units \cup {"completed"} -> Nat]
          /\ out \in [money : Nat, tokens : Nat]
          /\ used'[c] = [was EXCEPT !["requests"] = @ + 1]
          /\ new = [out EXCEPT !.money = money, !.tokens = toks]
      BY <1>0, <1>1 DEF ContractTypeOK
    <2>2. money \in Nat /\ toks \in Nat
      BY <1>2, <2>1
    <2>3. /\ BoundIn(c, "money")[r] = 0 /\ BoundIn(c, "tokens")[r] = 0
          /\ BoundIn(c, "money")'[r] = m /\ BoundIn(c, "tokens")'[r] = t
          /\ \A u \in {"money", "tokens"} :
                ActualIn(c, u)[r] = 0 /\ ActualIn(c, u)'[r] = 0
          /\ r \notin StepsOf(c, "completed")
          /\ r \notin StepsOf(c, "completed")'
      BY <1>3, ContractsAssumption
      DEF BoundIn, ActualIn, StepsOf, BoundOf, m, t
    <2> HIDE DEF was, out, new, money, toks
    <2>4. /\ used'[c]["money"] = was["money"]
          /\ used'[c]["tokens"] = was["tokens"]
          /\ used'[c]["completed"] = was["completed"]
          /\ was["money"] \in Nat /\ was["tokens"] \in Nat
          /\ was["completed"] \in Nat
      BY <2>1 DEF Units
    <2>5. new.money = money /\ new.tokens = toks
      BY <2>1, <2>2, BothCounters
    <2>6. /\ \A u \in {"money", "tokens"} :
              /\ outstanding'[c][u] =
                   outstanding[c][u] + BoundIn(c, u)'[r] - BoundIn(c, u)[r]
              /\ used'[c][u] =
                   used[c][u] + ActualIn(c, u)'[r] - ActualIn(c, u)[r]
          /\ used'[c]["completed"] = used[c]["completed"] +
              (IF r \in StepsOf(c, "completed")' THEN 1 ELSE 0)
      <3>1. /\ out["money"] \in Nat /\ out["tokens"] \in Nat
        BY <2>1
      <3>2. /\ new["money"] = out["money"] + m - 0
            /\ new["tokens"] = out["tokens"] + t - 0
        BY <1>2, <2>5, <3>1 DEF money, toks
      <3> QED BY <2>3, <2>4, <3>2 DEF was, out, new
    <2> QED BY <1>4, <1>7, <2>3, <2>6, CountersFollow
  <1>8. AllMatch'
    BY <1>5, <1>6, <1>7, BalanceIsMatch DEF AllMatch
  <1> QED BY <1>8, BalanceIsMatch, PTL

(* A step settled for the first time gives its bound back and adds what it *)
(* used; one settled again makes its contract one that was settled twice.  *)
LEMMA SettleStepAllocations ==
    ASSUME Contained, Contained', AllocationsBalance, NEW r \in Requests,
           Step(r), NEW to \in Final, NEW money \in Nat, NEW toks \in Nat,
           SettleStep(r, to, money, toks)
    PROVE  AllocationsBalance'
  <1>0. TypeOK /\ ContractTypeOK /\ StepsKnown
    BY DEF Contained, Sound
  <1>1. /\ allocation' = [allocation EXCEPT ![r] =
              [state |-> to, money |-> money, tokens |-> toks]]
        /\ usage_events' = [usage_events EXCEPT ![r] = @ + 1]
        /\ under' = under /\ request' = request
    BY DEF SettleStep
  <1>2. PICK c \in Contracts : under[r] = c /\ Counted(r, c, to, money, toks)
    <2>1. under[r] \in Contracts
      BY <1>0 DEF ContractTypeOK, Step
    <2> QED BY <2>1, SettleCounts
  <1>3. to \in {"completed", "released"}
    BY DEF Final
  <1>4. /\ c \in Contracts
        /\ \A d \in Contracts \ {c} : /\ used'[d] = used[d]
                                      /\ outstanding'[d] = outstanding[d]
    BY <1>2 DEF Counted
  <1>5. /\ allocation'[r] = [state |-> to, money |-> money, tokens |-> toks]
        /\ usage_events'[r] = usage_events[r] + 1
        /\ usage_events \in [Requests -> Nat]
        /\ \A q \in Requests \ {r} : /\ allocation'[q] = allocation[q]
                                     /\ usage_events'[q] = usage_events[q]
    BY <1>0, <1>1 DEF TypeOK, ContractTypeOK
  <1>6. \A q \in Requests \ {r}, d \in Contracts : StepKept(d, q)
    BY <1>1, <1>5 DEF StepKept
  <1>7. \A d \in Contracts : ~SettledTwice(d)' => ~SettledTwice(d)
    <2>1. \A q \in Requests : usage_events[q] > 1 => usage_events'[q] > 1
      BY <1>5
    <2> QED BY <1>1, <2>1 DEF SettledTwice
  <1>8. ASSUME NEW d \in Contracts, d # c, CountersMatch(d)
        PROVE  CountersMatch(d)'
    <2>1. StepKept(d, r)
      BY <1>1, <1>2, <1>8 DEF StepKept
    <2> QED BY <1>4, <1>6, <1>8, <2>1, CountersKept
  <1>9. ASSUME CountersMatch(c), ~SettledTwice(c)' PROVE CountersMatch(c)'
    <2>1. allocation[r].state = "reserved"
      <3>1. ~(usage_events'[r] > 1)
        BY <1>1, <1>2, <1>9 DEF SettledTwice
      <3>2. usage_events[r] \in Nat
        BY <1>5
      <3>3. usage_events[r] = 0
        BY <1>5, <3>1, <3>2
      <3> QED BY <1>0, <3>3 DEF StepsKnown
    <2>2. under[r] = c
      BY <1>2
    <2>3. /\ BoundIn(c, "money")[r] = MoneyBound(r)
          /\ BoundIn(c, "tokens")[r] = TokenBound(r)
          /\ \A u \in {"money", "tokens"} :
                ActualIn(c, u)[r] = 0 /\ BoundIn(c, u)'[r] = 0
          /\ r \notin StepsOf(c, "completed")
      BY <1>3, <1>5, <2>1, <2>2
      DEF BoundIn, ActualIn, StepsOf, BoundOf, MoneyBound, TokenBound
    <2>4. /\ ActualIn(c, "money")'[r] = IF to = "completed" THEN money ELSE 0
          /\ ActualIn(c, "tokens")'[r] = IF to = "completed" THEN toks ELSE 0
          /\ r \in StepsOf(c, "completed")' <=> to = "completed"
      BY <1>1, <1>5, <2>2 DEF ActualIn, StepsOf
    <2>5. /\ used[c]["money"] \in Nat /\ used[c]["tokens"] \in Nat
          /\ used[c]["completed"] \in Nat
          /\ outstanding[c]["money"] \in Nat /\ outstanding[c]["tokens"] \in Nat
      <3>1. /\ used[c] \in [Units \cup {"completed"} -> Nat]
            /\ outstanding[c] \in [money : Nat, tokens : Nat]
        BY <1>0, <1>4 DEF ContractTypeOK
      <3> QED BY <3>1 DEF Units
    <2>6. /\ MoneyBound(r) \in Nat /\ TokenBound(r) \in Nat
          /\ outstanding'[c]["money"] = outstanding[c]["money"] - MoneyBound(r)
          /\ outstanding'[c]["tokens"] =
                outstanding[c]["tokens"] - TokenBound(r)
      BY <1>2 DEF Counted
    <2>7. /\ outstanding'[c]["money"] =
                outstanding[c]["money"] + 0 - MoneyBound(r)
          /\ outstanding'[c]["tokens"] =
                outstanding[c]["tokens"] + 0 - TokenBound(r)
      BY <2>5, <2>6
    <2>8. /\ to = "released" => used'[c] = used[c]
          /\ to = "completed" =>
                /\ used'[c]["money"] = used[c]["money"] + money
                /\ used'[c]["tokens"] = used[c]["tokens"] + toks
                /\ used'[c]["completed"] = used[c]["completed"] + 1
      BY <1>2 DEF Counted
    <2>9. /\ used'[c]["money"] = used[c]["money"]
                + (IF to = "completed" THEN money ELSE 0) - 0
          /\ used'[c]["tokens"] = used[c]["tokens"]
                + (IF to = "completed" THEN toks ELSE 0) - 0
          /\ used'[c]["completed"] = used[c]["completed"]
                + (IF to = "completed" THEN 1 ELSE 0)
      <3>1. CASE to = "completed"
        BY <2>5, <2>8, <3>1
      <3>2. CASE to = "released"
        BY <2>5, <2>8, <3>2
      <3> QED BY <1>3, <3>1, <3>2
    <2>10. /\ \A u \in {"money", "tokens"} :
               /\ outstanding'[c][u] =
                    outstanding[c][u] + BoundIn(c, u)'[r] - BoundIn(c, u)[r]
               /\ used'[c][u] =
                    used[c][u] + ActualIn(c, u)'[r] - ActualIn(c, u)[r]
           /\ used'[c]["completed"] = used[c]["completed"] +
               (IF r \in StepsOf(c, "completed")' THEN 1 ELSE 0)
      BY <2>3, <2>4, <2>7, <2>9
    <2> QED BY <1>4, <1>6, <1>9, <2>3, <2>10, CountersFollow
  <1>10. AllMatch'
    BY <1>4, <1>7, <1>8, <1>9, BalanceIsMatch DEF AllMatch
  <1> QED BY <1>10, BalanceIsMatch, PTL

LEMMA AllocationsStay ==
    ASSUME Contained, AllocationsBalance, [OrdinaryNext \/ ContractNext]_allvars
    PROVE  AllocationsBalance'
  <1>0. Contained'
    BY ContainedStays
  <1>1. ASSUME UNCHANGED <<under, allocation, request, usage_events,
                           outstanding, used>>
        PROVE  AllocationsBalance'
    <2>1. \A c \in Contracts : \A r \in Requests : StepKept(c, r)
      BY <1>1 DEF StepKept
    <2>2. \A c \in Contracts : SettledTwice(c)' <=> SettledTwice(c)
      BY <1>1 DEF SettledTwice
    <2>3. AllMatch'
      BY <1>0, <1>1, <2>1, <2>2, BalanceIsMatch, CountersKept DEF AllMatch
    <2> QED BY <1>0, <2>3, BalanceIsMatch, PTL
  <1>2. ASSUME NEW c \in Contracts, NEW dm \in Recent, NEW dd \in Recent,
               CreateContract(c, dm, dd)
        PROVE  AllocationsBalance'
    BY <1>1, <1>2 DEF CreateContract, steps
  <1>3. ASSUME NEW c \in Contracts, Close(c) PROVE AllocationsBalance'
    BY <1>1, <1>3 DEF Close, steps
  <1>4. ASSUME Filed PROVE AllocationsBalance'
    BY <1>1, <1>4 DEF Filed, vars
  <1> QED BY <1>0, <1>2, <1>3, <1>4, ContractMoves, OrdinaryAllocations,
             AdmitStepAllocations, SettleStepAllocations

(* A contract's counters are the sums over its allocations, for as long as *)
(* none of its steps is settled twice.                                     *)
THEOREM AllocationsAgree == ContractSpec => []AllocationsBalance
  BY ContainedInitially, AllocationsInitially, ContainedStays, AllocationsStay,
     PTL DEF ContractSpec

(* A contract none of whose steps was settled twice closed with all of     *)
(* them settled, and no step starts under it since.  The guard is exact: a *)
(* second settlement gives back the bound of a step still running, and     *)
(* CloseWaitsForSteps fails (the run contract_close).                      *)
CloseWaitsUnlessTwice ==
    \A c \in Contracts :
        closed[c] /\ ~SettledTwice(c) => StepsOf(c, "reserved") = {}

THEOREM ClosesWaitForSteps == ContractSpec => []CloseWaitsUnlessTwice
  <1>1. ASSUME Contained, AllMatch, NEW c \in Contracts, closed[c],
               ~SettledTwice(c), NEW r \in StepsOf(c, "reserved")
        PROVE  FALSE
    <2>0. Sound /\ StepsKnown /\ r \in Requests /\ under[r] = c
          /\ allocation[r].state = "reserved"
      BY <1>1 DEF Contained, StepsOf
    <2>1. MoneyBound(r) \in Nat \ {0}
      <3>1. state[r] # "absent"
        BY <2>0, ContractsAssumption DEF StepsKnown, Step
      <3> QED BY <2>0, <3>1, RequestBounds
    <2>2. BoundIn(c, "money")[r] = MoneyBound(r)
      BY <2>0 DEF BoundIn, BoundOf, MoneyBound
    <2>3. BoundIn(c, "money") \in [Requests -> Nat]
      BY <1>1, TermsAreNat DEF TermsNat
    <2>4. MoneyBound(r) <= SumFunction(BoundIn(c, "money"))
      <3> DEFINE f == BoundIn(c, "money")
      <3>1. f \in [Requests -> Nat] /\ r \in Requests /\ IsFiniteSet(Requests)
        BY <2>0, <2>3, RequestsAssumption
      <3> HIDE DEF f
      <3>2. f[r] <= SumFunction(f)
        BY <3>1, SumTerm
      <3> QED BY <2>2, <3>2 DEF f
    <2>5. SumFunction(BoundIn(c, "money")) = 0
      <3>1. CountersMatch(c)
        BY <1>1 DEF AllMatch
      <3>2. outstanding[c]["money"] = 0
        BY <1>1 DEF Contained, ContractsKnown, ContractKnown
      <3> QED BY <3>1, <3>2 DEF CountersMatch
    <2> QED BY <2>1, <2>4, <2>5
  <1>2. Contained /\ AllocationsBalance => CloseWaitsUnlessTwice
    BY <1>1, BalanceIsMatch DEF CloseWaitsUnlessTwice
  <1> QED BY <1>2, ContainedAlways, AllocationsAgree, PTL

(* A closed contract is closed for good: no step starts under it, no late  *)
(* settlement counts on it, and no edit reopens it or moves what it was    *)
(* booked for.  Only its state may still change, from completed to revoked *)
(* (a revocation that had read it before it closed), its tokens and clock.  *)
ClosedKept(c) ==
    closed[c] =>
        /\ closed'[c] /\ contract'[c] \in {"revoked", "completed"}
        /\ outstanding'[c] = outstanding[c] /\ used'[c] = used[c]
        /\ escrow'[c] = escrow[c] /\ c_ledger'[c] = c_ledger[c]
        /\ \A r \in Requests : under'[r] = c => under[r] = c

ClosedForGood == [][\A c \in Contracts : ClosedKept(c)]_allvars

THEOREM ClosedIsClosed == ContractSpec => ClosedForGood
  <1>1. ASSUME Contained, NEW c \in Contracts, closed[c],
               [OrdinaryNext \/ ContractNext]_allvars
        PROVE  ClosedKept(c)
    <2>0. /\ Sound /\ ContractTypeOK /\ StepsKnown
          /\ contract[c] \in {"revoked", "completed"}
          /\ outstanding[c].money = 0
      BY <1>1 DEF Contained, ContractsKnown, ContractKnown
    <2>1. contract'[c] \in {"revoked", "completed"} \/ ~closed'[c]
      <3>1. Contained'
        BY <1>1, ContainedStays
      <3> QED BY <3>1 DEF Contained, ContractsKnown, ContractKnown
    <2>2. CASE OrdinaryNext
      <3>1. UNCHANGED cvars
        BY <2>2 DEF OrdinaryNext
      <3> QED BY <1>1, <2>0, <3>1
           DEF cvars, c_rows, c_books, steps, ClosedKept
    <2>3. ASSUME NEW d \in Contracts, NEW dm \in Recent, NEW dd \in Recent,
                 CreateContract(d, dm, dd)
          PROVE  ClosedKept(c)
      <3>1. c # d
        BY <2>0, <2>3 DEF CreateContract
      <3>2. escrow'[c] = escrow[c] /\ c_ledger'[c] = c_ledger[c]
        BY <2>0, <2>3, <3>1 DEF CreateContract, ContractTypeOK
      <3> QED BY <1>1, <2>1, <2>3, <3>2 DEF CreateContract, steps, ClosedKept
    <2>4. ASSUME NEW q \in Requests, NEW d \in Contracts, NEW v \in Versions,
                 NEW i \in Idems, NEW p \in Payloads, NEW dm \in Recent,
                 AdmitStep(q, d, v, i, p, dm)
          PROVE  ClosedKept(c)
      <3>1. c # d
        BY <2>0, <2>4 DEF AdmitStep
      <3>2. outstanding'[c] = outstanding[c] /\ used'[c] = used[c]
        BY <2>0, <2>4, <3>1 DEF AdmitStep, ContractTypeOK
      <3>3. \A r \in Requests : under'[r] = c => under[r] = c
        BY <2>0, <2>4, <3>1 DEF AdmitStep, ContractTypeOK
      <3> QED BY <1>1, <2>1, <2>4, <3>2, <3>3 DEF AdmitStep, c_books, ClosedKept
    <2>5. ASSUME NEW q \in Requests, NEW to \in Final, NEW money \in Nat,
                 NEW toks \in Nat, Step(q), SettleStep(q, to, money, toks)
          PROVE  ClosedKept(c)
      <3>1. MoneyBound(q) \in Nat \ {0}
        BY <2>0, <2>5, RequestBounds DEF StepsKnown
      <3>2. under[q] # c
        BY <2>0, <2>5, <3>1 DEF SettleStep
      <3>3. outstanding'[c] = outstanding[c] /\ used'[c] = used[c]
        BY <2>0, <2>5, <3>2 DEF SettleStep, ContractTypeOK
      <3> QED BY <1>1, <2>1, <2>5, <3>3 DEF SettleStep, c_books, ClosedKept
    <2>6. ASSUME NEW d \in Contracts, Close(d)
          PROVE  ClosedKept(c)
      <3>1. c # d
        BY <1>1, <2>6 DEF Close
      <3>2. closed'[c] /\ c_ledger'[c] = c_ledger[c]
        BY <1>1, <2>0, <2>6, <3>1 DEF Close, ContractTypeOK
      <3> QED BY <2>1, <2>6, <3>2 DEF Close, steps, ClosedKept
    <2>7. ASSUME Filed
          PROVE  ClosedKept(c)
      BY <1>1, <2>1, <2>7 DEF Filed, ClosedKept
    <2> QED BY <1>1, <2>2, <2>3, <2>4, <2>5, <2>6, <2>7, ContractMoves
  <1>2. Contained /\ [OrdinaryNext \/ ContractNext]_allvars
          => \A c \in Contracts : ClosedKept(c)
    BY <1>1 DEF ClosedKept
  <1> QED BY <1>2, ContainedAlways, PTL DEF ClosedForGood, ContractSpec

-----------------------------------------------------------------------------
(* Requests beside contracts *)

(* A step stands on no budget row: it reserves nothing there and nothing   *)
(* is ever posted there in its name, however it ends and however often it  *)
(* is settled.                                                             *)
StepsAreUnbooked ==
    \A r \in Requests, b \in Budgets :
        Step(r) => reservation[r][b] = 0 /\ ledger[r][b] = NoPostings

THEOREM StepsBookNowhere == ContractSpec => []StepsAreUnbooked
  <1>1. ASSUME Contained, NEW r \in Requests, NEW b \in Budgets, Step(r)
        PROVE  reservation[r][b] = 0 /\ ledger[r][b] = NoPostings
    <2>1. reservation[r][b] = 0
      BY <1>1 DEF Contained, StepsKnown
    <2>2. EntriesFollow(r, b)
      BY <1>1 DEF Contained, Sound, EntriesKnown
    <2> QED BY <2>1, <2>2 DEF EntriesFollow
  <1>2. Contained => StepsAreUnbooked
    BY <1>1 DEF StepsAreUnbooked
  <1> QED BY <1>2, ContainedAlways, PTL

(* A request that is no step ends once: whatever contracts, settlements    *)
(* and reconciliations do beside it, its state, cost, postings and usage   *)
(* report stay, and it never becomes a step.  Of a step this is false.     *)
OrdinaryKept(r) ==
    state[r] \in Final /\ ~Step(r) => RowKept(r) /\ ~Step(r)'

OrdinarySettledOnce == [][\A r \in Requests : OrdinaryKept(r)]_allvars

THEOREM OrdinaryFinalIsFinal == ContractSpec => OrdinarySettledOnce
  <1>1. ASSUME Contained, NEW r \in Requests, state[r] \in Final, ~Step(r),
               [OrdinaryNext \/ ContractNext]_allvars
        PROVE  RowKept(r) /\ ~Step(r)'
    <2>0. Sound /\ TypeOK /\ ContractTypeOK
      BY <1>1 DEF Contained, Sound
    <2>1. CASE OrdinaryNext
      <3>1. under' = under
        BY <2>1 DEF OrdinaryNext, cvars, steps
      <3>2. RowKept(r)
        BY <1>1, <2>0, <2>1, OrdinaryIsNext, NextKeepsFinal DEF FinalKept
      <3> QED BY <1>1, <3>1, <3>2 DEF Step
    <2>2. ASSUME NEW c \in Contracts, NEW dm \in Recent, NEW dd \in Recent,
                 CreateContract(c, dm, dd)
          PROVE  RowKept(r) /\ ~Step(r)'
      BY <1>1, <2>2 DEF CreateContract, RowKept, Step, steps
    <2>3. ASSUME NEW q \in Requests, NEW c \in Contracts, NEW v \in Versions,
                 NEW i \in Idems, NEW p \in Payloads, NEW dm \in Recent,
                 AdmitStep(q, c, v, i, p, dm)
          PROVE  RowKept(r) /\ ~Step(r)'
      <3>1. q # r
        BY <1>1, <2>3 DEF AdmitStep, Final
      <3> QED BY <1>1, <2>0, <2>3, <3>1
           DEF AdmitStep, RowKept, Step, TypeOK, ContractTypeOK
    <2>4. ASSUME NEW q \in Requests, NEW to \in Final, NEW money \in Nat,
                 NEW toks \in Nat, Step(q), SettleStep(q, to, money, toks)
          PROVE  RowKept(r) /\ ~Step(r)'
      <3>1. q # r
        BY <1>1, <2>4
      <3> QED BY <1>1, <2>0, <2>4, <3>1
           DEF SettleStep, RowKept, Step, TypeOK
    <2>5. ASSUME NEW c \in Contracts, Close(c)
          PROVE  RowKept(r) /\ ~Step(r)'
      BY <1>1, <2>5 DEF Close, RowKept, Step, steps
    <2>6. ASSUME Filed
          PROVE  RowKept(r) /\ ~Step(r)'
      BY <1>1, <2>6 DEF Filed, vars, RowKept, Step
    <2> QED BY <1>1, <2>1, <2>2, <2>3, <2>4, <2>5, <2>6, ContractMoves
  <1>2. Contained /\ [OrdinaryNext \/ ContractNext]_allvars
          => \A r \in Requests : OrdinaryKept(r)
    BY <1>1 DEF OrdinaryKept
  <1> QED BY <1>2, ContainedAlways, PTL DEF OrdinarySettledOnce, ContractSpec

-----------------------------------------------------------------------------
(* Requests and contracts as claims of one escrow *)

AnyClaim(x) == IF x \in Requests THEN Claim(x) ELSE ContractClaim(x)

OthersKept(x) ==
    \A y \in (Requests \cup Contracts) \ {x} : AnyClaim(y)' = AnyClaim(y)

LEMMA ClaimsOfRows ==
    /\ \A r \in Requests : AnyClaim(r) = Claim(r)
    /\ \A c \in Contracts : AnyClaim(c) = ContractClaim(c)
  BY ContractsAssumption DEF AnyClaim

LEMMA ClaimsOfRowsAfter ==
    /\ \A r \in Requests : AnyClaim(r)' = Claim(r)'
    /\ \A c \in Contracts : AnyClaim(c)' = ContractClaim(c)'
  BY ContractsAssumption DEF AnyClaim

(* This escrow sums as everybody does. *)
LEMMA TenantSums ==
    ASSUME NEW f
    PROVE  T!SumFunction(f) = SumFunction(f)
  BY DEF SumFunction, SumFunctionOnSet, FoldFunctionOnSet, MapThenFoldSet,
         T!SumFunction, T!SumFunctionOnSet, T!FoldFunctionOnSet,
         T!MapThenFoldSet

(* What is still open of a contract is what its claim holds. *)
LEMMA ContractClaimIsOpen ==
    ASSUME Contained, NEW c \in Contracts, NEW b \in Budgets
    PROVE  OpenEscrow(c, b) = IF ContractClaim(c).phase = "held"
                                THEN ContractClaim(c).hold[b] ELSE 0
  <1>1. ContractKnown(c) /\ returned[c] \in BOOLEAN /\ closed[c] \in BOOLEAN
    BY DEF Contained, ContractsKnown, ContractTypeOK
  <1>2. /\ ContractClaim(c).hold = escrow[c]
        /\ ContractClaim(c).phase = "held" <=>
             contract[c] # "absent" /\ ~closed[c]
    BY DEF ContractClaim
  <1> QED BY <1>1, <1>2 DEF ContractKnown, OpenEscrow

(* A sum over requests and contracts is one over each. *)
LEMMA RowsSplit ==
    ASSUME NEW f \in [Requests -> Nat], NEW g \in [Contracts -> Nat],
           NEW h \in [Requests \cup Contracts -> Nat],
           \A r \in Requests : h[r] = f[r],
           \A c \in Contracts : h[c] = g[c]
    PROVE  SumFunction(h) = SumFunction(f) + SumFunction(g)
  <1>1. /\ IsFiniteSet(Requests) /\ IsFiniteSet(Contracts)
        /\ Requests \cap Contracts = {}
    BY RequestsAssumption, ContractsAssumption
  <1> QED BY <1>1, SumSplit

(* The running totals are this escrow's sums. *)
LEMMA TotalsAreAllSums ==
    ASSUME Contained, FundsBalance, NEW b \in Budgets
    PROVE  T!Held(b) = reserved[b] /\ T!Taken(b) = spent[b]
  <1> DEFINE All == Requests \cup Contracts
             held == [x \in All |-> IF AnyClaim(x).phase = "held"
                                      THEN AnyClaim(x).hold[b] ELSE 0]
             taken == [x \in All |-> AnyClaim(x).taken[b]]
  <1>1. /\ \A r \in Requests : held[r] = OpenOf(b)[r]
        /\ \A c \in Contracts : held[c] = EscrowOf(b)[c]
    BY ClaimsOfRows, ClaimIsOpen, ContractClaimIsOpen
    DEF Contained, OpenOf, EscrowOf
  <1>2. /\ \A r \in Requests : taken[r] = ChargedOf(b)[r]
        /\ \A c \in Contracts : taken[c] = BookedOf(b)[c]
    BY ClaimsOfRows DEF Claim, ContractClaim, ChargedOf, BookedOf
  <1>3. /\ OpenOf(b) \in [Requests -> Nat] /\ ChargedOf(b) \in [Requests -> Nat]
        /\ EscrowOf(b) \in [Contracts -> Nat]
        /\ BookedOf(b) \in [Contracts -> Nat]
    BY AmountsAreNat, EscrowsAreNat DEF Contained, Sound
  <1>4. held \in [All -> Nat] /\ taken \in [All -> Nat]
    <2>1. \A x \in All : held[x] \in Nat /\ taken[x] \in Nat
      <3> HIDE DEF held, taken
      <3> QED BY <1>1, <1>2, <1>3
    <2> QED BY <2>1
  <1>5. T!Held(b) = T!SumFunction(held) /\ T!Taken(b) = T!SumFunction(taken)
    BY DEF T!Held, T!Taken, AnyClaim
  <1> HIDE DEF held, taken
  <1>6. T!SumFunction(held) = SumFunction(held)
    BY TenantSums
  <1>7. T!SumFunction(taken) = SumFunction(taken)
    BY TenantSums
  <1> DEFINE open == OpenOf(b)     escrows == EscrowOf(b)
             charged == ChargedOf(b)  booked == BookedOf(b)
  <1>9. SumFunction(held) = SumFunction(open) + SumFunction(escrows)
    <2>1. /\ open \in [Requests -> Nat] /\ escrows \in [Contracts -> Nat]
          /\ \A r \in Requests : held[r] = open[r]
          /\ \A c \in Contracts : held[c] = escrows[c]
          /\ held \in [Requests \cup Contracts -> Nat]
      BY <1>1, <1>3, <1>4
    <2> HIDE DEF open, escrows
    <2> QED BY <2>1, RowsSplit
  <1>10. SumFunction(taken) = SumFunction(charged) + SumFunction(booked)
    <2>1. /\ charged \in [Requests -> Nat] /\ booked \in [Contracts -> Nat]
          /\ \A r \in Requests : taken[r] = charged[r]
          /\ \A c \in Contracts : taken[c] = booked[c]
          /\ taken \in [Requests \cup Contracts -> Nat]
      BY <1>2, <1>3, <1>4
    <2> HIDE DEF charged, booked
    <2> QED BY <2>1, RowsSplit
  <1> QED BY <1>5, <1>6, <1>7, <1>9, <1>10, FundsBalanceDef

(* A row that begins to hold, where there is room, takes its claim. *)
LEMMA HoldMeans ==
    ASSUME Contained, FundsBalance, NEW x \in Requests \cup Contracts,
           AnyClaim(x) = [phase |-> "absent", hold |-> NoCharge,
                          taken |-> NoCharge],
           AnyClaim(x)'.phase = "held", AnyClaim(x)'.taken = NoCharge,
           AnyClaim(x)'.hold \in [Budgets -> Nat],
           \A b \in Budgets : AnyClaim(x)'.hold[b] > 0 =>
              Committed(b) + AnyClaim(x)'.hold[b] <= hard_limit[b],
           OthersKept(x), UNCHANGED hard_limit
    PROVE  T!Hold(x)
  <1>1. \A b \in Budgets : T!Taken(b) + T!Held(b) = Committed(b)
    BY TotalsAreAllSums DEF Committed
  <1> QED BY <1>1
       DEF T!Hold, T!Absent, T!Nothing, T!Amounts, T!OnlyClaim, NoCharge,
           AnyClaim, OthersKept

LEMMA SettleMeans ==
    ASSUME NEW x \in Requests \cup Contracts,
           AnyClaim(x).phase = "held", AnyClaim(x)'.phase = "settled",
           AnyClaim(x)'.hold = AnyClaim(x).hold,
           AnyClaim(x)'.taken \in [Budgets -> Nat],
           \A b \in Budgets : AnyClaim(x)'.taken[b] <= AnyClaim(x).hold[b],
           OthersKept(x), UNCHANGED hard_limit
    PROVE  T!Settle(x)
  BY DEF T!Settle, T!Amounts, T!OnlyClaim, AnyClaim, OthersKept

LEMMA NothingMeans ==
    ASSUME \A y \in Requests \cup Contracts : AnyClaim(y)' = AnyClaim(y),
           UNCHANGED hard_limit
    PROVE  UNCHANGED T!vars
  BY DEF T!vars, AnyClaim

(* Contract rows, and what a step leaves of them. *)
LEMMA ContractClaimKept ==
    ASSUME NEW c \in Contracts,
           contract'[c] = "absent" <=> contract[c] = "absent",
           UNCHANGED <<closed, escrow, c_ledger>>
    PROVE  ContractClaim(c)' = ContractClaim(c)
  BY DEF ContractClaim, ClosedCharge

LEMMA OrdinaryMeans ==
    ASSUME Contained, Contained', FundsBalance, OrdinaryNext
    PROVE  [T!Next]_(T!vars)
  <1>0. Sound /\ Sound' /\ Next
    BY OrdinaryIsNext DEF Contained
  <1>1. \A c \in Contracts : AnyClaim(c)' = AnyClaim(c)
    BY ContractClaimKept, ClaimsOfRows, ClaimsOfRowsAfter
    DEF OrdinaryNext, cvars, c_rows, c_books
  <1>2. ASSUME NEW r \in Requests,
               \A q \in Requests \ {r} : Claim(q)' = Claim(q)
        PROVE  OthersKept(r)
    BY <1>1, <1>2, ClaimsOfRows, ClaimsOfRowsAfter DEF OthersKept
  <1>3. ASSUME \A q \in Requests : Claim(q)' = Claim(q)
        PROVE  \A y \in Requests \cup Contracts : AnyClaim(y)' = AnyClaim(y)
    BY <1>1, <1>3, ClaimsOfRows, ClaimsOfRowsAfter
  <1>4. ASSUME NEW r \in Requests, NEW k \in Keys, NEW i \in Idems,
               NEW p \in Payloads, NEW dm \in Recent, NEW dd \in Recent,
               Admit(r, k, i, p, dm, dd)
        PROVE  T!Hold(r)
    <2>0. dm \in Days /\ dd \in Days
      BY DEF Recent
    <2>1. /\ state[r] = "absent"
          /\ Claim(r)'.phase = "held"
          /\ Claim(r)'.taken = NoCharge
          /\ Claim(r)'.hold \in [Budgets -> Nat]
          /\ \A b \in Budgets : Claim(r)'.hold[b] > 0 =>
                Committed(b) + Claim(r)'.hold[b] <= hard_limit[b]
          /\ \A q \in Requests \ {r} : Claim(q)' = Claim(q)
          /\ UNCHANGED hard_limit
      BY <1>0, <1>4, <2>0, AdmitClaims
    <2>2. Claim(r) = [phase |-> "absent", hold |-> NoCharge,
                      taken |-> NoCharge]
      BY <1>0, <2>1, AbsentClaim
    <2>3. OthersKept(r)
      BY <1>2, <2>1
    <2>4. AnyClaim(r) = Claim(r) /\ AnyClaim(r)' = Claim(r)'
      BY ClaimsOfRows, ClaimsOfRowsAfter
    <2> QED BY <2>1, <2>2, <2>3, <2>4, HoldMeans
  <1>5. ASSUME NEW r \in Requests, NEW to \in Final, NEW charge \in Nat,
               NEW actual \in [Budgets -> Nat],
               Settlement(r, to, charge, actual)
        PROVE  T!Settle(r)
    <2>1. /\ Claim(r).phase = "held" /\ Claim(r)'.phase = "settled"
          /\ Claim(r)'.hold = Claim(r).hold
          /\ Claim(r)'.taken \in [Budgets -> Nat]
          /\ \A b \in Budgets : Claim(r)'.taken[b] <= Claim(r).hold[b]
          /\ \A q \in Requests \ {r} : Claim(q)' = Claim(q)
          /\ UNCHANGED hard_limit
      BY <1>0, <1>5, SettleClaims
    <2>2. OthersKept(r)
      BY <1>2, <2>1
    <2>3. AnyClaim(r) = Claim(r) /\ AnyClaim(r)' = Claim(r)'
      BY ClaimsOfRows, ClaimsOfRowsAfter
    <2> QED BY <2>1, <2>2, <2>3, SettleMeans
  <1>6. ASSUME NEW r \in Requests, Dispatch(r) \/ MarkUncertain(r)
        PROVE  UNCHANGED T!vars
    <2>1. UNCHANGED hard_limit
      BY <1>6 DEF Dispatch, MarkUncertain, Transition, controls
    <2>2. \A q \in Requests : Claim(q)' = Claim(q)
      BY <1>0, <1>6, ClaimsUntouched
    <2> QED BY <1>3, <2>1, <2>2, NothingMeans
  <1>7. ASSUME UNCHANGED books PROVE [T!Next]_(T!vars)
    <2>1. \A q \in Requests : Claim(q)' = Claim(q)
      BY <1>0, <1>7, ClaimsUntouched
    <2>2. \A y \in Requests \cup Contracts : AnyClaim(y)' = AnyClaim(y)
      BY <1>3, <2>1
    <2>3. ASSUME NEW b \in Budgets, NEW l \in Nat,
                 hard_limit' = [hard_limit EXCEPT ![b] = l]
          PROVE  T!SetLimit(b)
      BY <1>0, <2>2, <2>3
      DEF T!SetLimit, T!Amounts, Sound, TypeOK, AnyClaim
    <2>4. UNCHANGED hard_limit => UNCHANGED T!vars
      BY <2>2, NothingMeans
    <2> QED BY <1>0, <2>3, <2>4, LimitsMove DEF T!Next
  <1> QED BY <1>0, <1>4, <1>5, <1>6, <1>7, WhoMoves DEF T!Next

(* Creation takes a contract's claim. *)
LEMMA CreateMeans ==
    ASSUME Contained, Contained', FundsBalance, NEW c \in Contracts,
           NEW dm \in Recent, NEW dd \in Recent, CreateContract(c, dm, dd)
    PROVE  T!Hold(c)
  <1> DEFINE charged == Charged(KeyApp[ContractKey[c]], dm, dd)
             amount == [b \in Budgets |->
                          IF b \in charged THEN Envelope[c][Unit(b)] ELSE 0]
  <1>0. ContractTypeOK /\ ContractKnown(c) /\ FundsMove(c)
    BY CreateMovesFunds DEF Contained, ContractsKnown
  <1>1. /\ contract[c] = "absent"
        /\ \A b \in charged : Fits(b, amount[b])
        /\ escrow' = [escrow EXCEPT ![c] = amount]
        /\ contract' = [contract EXCEPT ![c] = "active"]
        /\ UNCHANGED <<closed, hard_limit, state, reservation, ledger>>
    BY DEF CreateContract, controls
  <1>2. /\ amount \in [Budgets -> Nat]
        /\ \A b \in Budgets : b \notin charged => amount[b] = 0
    BY EnvelopeAmounts
  <1> HIDE DEF amount, charged
  <1>3. /\ ~closed[c] /\ escrow[c] = NoCharge
        /\ \A b \in Budgets : ClosedCharge(c, b) = 0
    BY <1>0, <1>1 DEF ContractKnown, ContractTypeOK, NoCharge, ClosedCharge
  <1>4. /\ contract'[c] = "active" /\ escrow'[c] = amount
        /\ \A d \in Contracts \ {c} : /\ contract'[d] = contract[d]
                                      /\ escrow'[d] = escrow[d]
    BY <1>0, <1>1 DEF ContractTypeOK
  <1>5. ASSUME NEW b \in Budgets PROVE ClosedCharge(c, b)' = 0
    <2>1. ContractKnown(c)'
      BY DEF Contained, ContractsKnown
    <2> QED BY <1>1, <1>3, <2>1 DEF ContractKnown, ClosedCharge
  <1>6. ContractClaim(c) = [phase |-> "absent", hold |-> NoCharge,
                            taken |-> NoCharge]
    BY <1>1, <1>3 DEF ContractClaim, NoCharge
  <1>7. /\ ContractClaim(c)'.phase = "held" /\ ContractClaim(c)'.hold = amount
        /\ ContractClaim(c)'.taken = NoCharge
    BY <1>1, <1>3, <1>4, <1>5 DEF ContractClaim, NoCharge
  <1>8. ASSUME NEW b \in Budgets, amount[b] > 0
        PROVE  Committed(b) + amount[b] <= hard_limit[b]
    BY <1>1, <1>2, <1>8 DEF Fits
  <1>9. \A d \in Contracts \ {c} : ContractClaim(d)' = ContractClaim(d)
    <2>1. \A d \in Contracts \ {c}, b \in Budgets :
             ClosedCharge(d, b)' = ClosedCharge(d, b)
      BY <1>0 DEF FundsMove
    <2> QED BY <1>1, <1>4, <2>1 DEF ContractClaim
  <1>10. \A r \in Requests : Claim(r)' = Claim(r)
    BY <1>1 DEF Claim, ChargedAmount
  <1>11. OthersKept(c)
    BY <1>9, <1>10, ClaimsOfRows, ClaimsOfRowsAfter DEF OthersKept
  <1>12. AnyClaim(c) = ContractClaim(c) /\ AnyClaim(c)' = ContractClaim(c)'
    BY ClaimsOfRows, ClaimsOfRowsAfter
  <1> QED BY <1>1, <1>2, <1>6, <1>7, <1>8, <1>11, <1>12, HoldMeans

(* Closing settles it, within what it held. *)
LEMMA CloseMeans ==
    ASSUME Contained, NEW c \in Contracts, Close(c)
    PROVE  T!Settle(c)
  <1>0. ContractTypeOK /\ FundsMove(c)
    BY CloseMovesFunds DEF Contained
  <1>1. /\ contract[c] # "absent" /\ ~closed[c]
        /\ contract' = [contract EXCEPT ![c] =
                          IF @ = "revoked" THEN @ ELSE "completed"]
        /\ closed' = [closed EXCEPT ![c] = TRUE]
        /\ UNCHANGED <<escrow, hard_limit, state, reservation, ledger>>
    BY DEF Close, controls
  <1>2. /\ contract'[c] # "absent" /\ closed'[c]
        /\ \A d \in Contracts \ {c} : /\ contract'[d] = contract[d]
                                      /\ closed'[d] = closed[d]
    BY <1>0, <1>1 DEF ContractTypeOK
  <1>3. /\ ContractClaim(c).phase = "held" /\ ContractClaim(c)'.phase = "settled"
        /\ ContractClaim(c).hold = escrow[c]
        /\ ContractClaim(c)'.hold = escrow[c]
        /\ ContractClaim(c)'.taken = [b \in Budgets |-> ClosedCharge(c, b)']
    BY <1>1, <1>2 DEF ContractClaim
  <1>4. \A b \in Budgets : /\ ClosedCharge(c, b)' \in Nat
                           /\ ClosedCharge(c, b)' <= escrow[c][b]
    BY CloseMovesFunds, CloseEntries
  <1>5. \A d \in Contracts \ {c} : ContractClaim(d)' = ContractClaim(d)
    <2>1. \A d \in Contracts \ {c}, b \in Budgets :
             ClosedCharge(d, b)' = ClosedCharge(d, b)
      BY <1>0 DEF FundsMove
    <2> QED BY <1>1, <1>2, <2>1 DEF ContractClaim
  <1>6. \A r \in Requests : Claim(r)' = Claim(r)
    BY <1>1 DEF Claim, ChargedAmount
  <1>7. OthersKept(c)
    BY <1>5, <1>6, ClaimsOfRows, ClaimsOfRowsAfter DEF OthersKept
  <1>8. AnyClaim(c) = ContractClaim(c) /\ AnyClaim(c)' = ContractClaim(c)'
    BY ClaimsOfRows, ClaimsOfRowsAfter
  <1> QED BY <1>1, <1>3, <1>4, <1>7, <1>8, SettleMeans

(* A step's claim holds nothing on the budgets and consumes nothing. *)
LEMMA AdmitStepMeans ==
    ASSUME Contained, Contained', FundsBalance, NEW r \in Requests,
           NEW c \in Contracts, NEW v \in Versions, NEW i \in Idems,
           NEW p \in Payloads, NEW dm \in Recent, AdmitStep(r, c, v, i, p, dm)
    PROVE  T!Hold(r)
  <1>0. Sound /\ TypeOK
    BY DEF Contained, Sound
  <1>1. /\ state[r] = "absent"
        /\ state' = [state EXCEPT ![r] = "reserved"]
        /\ UNCHANGED <<hard_limit, reservation, ledger, contract, closed,
                       escrow, c_ledger>>
    BY DEF AdmitStep, controls, c_books
  <1>2. /\ state'[r] = "reserved"
        /\ \A q \in Requests \ {r} : state'[q] = state[q]
    BY <1>0, <1>1 DEF TypeOK
  <1>3. /\ reservation[r] = NoCharge
        /\ \A b \in Budgets : ChargedAmount(r, b) = 0
    BY <1>0, <1>1, AbsentHoldsNothing
    DEF TypeOK, NoCharge, ChargedAmount, NoPostings
  <1>4. Claim(r) = [phase |-> "absent", hold |-> NoCharge, taken |-> NoCharge]
    BY <1>0, <1>1, AbsentClaim
  <1>5. /\ Claim(r)'.phase = "held" /\ Claim(r)'.hold = NoCharge
        /\ Claim(r)'.taken = NoCharge
    <2>1. \A b \in Budgets : ChargedAmount(r, b)' = 0
      BY <1>1, <1>3 DEF ChargedAmount
    <2> QED BY <1>1, <1>2, <1>3, <2>1 DEF Claim, Final, NoCharge
  <1>6. \A q \in Requests \ {r} : Claim(q)' = Claim(q)
    BY <1>1, <1>2 DEF Claim, ChargedAmount
  <1>7. \A d \in Contracts : ContractClaim(d)' = ContractClaim(d)
    BY <1>1, ContractClaimKept
  <1>8. OthersKept(r)
    BY <1>6, <1>7, ClaimsOfRows, ClaimsOfRowsAfter DEF OthersKept
  <1>9. AnyClaim(r) = Claim(r) /\ AnyClaim(r)' = Claim(r)'
    BY ClaimsOfRows, ClaimsOfRowsAfter
  <1>10. NoCharge \in [Budgets -> Nat] /\ \A b \in Budgets : NoCharge[b] = 0
    BY DEF NoCharge
  <1> QED BY <1>1, <1>4, <1>5, <1>8, <1>9, <1>10, HoldMeans

(* The first settlement settles it; another one finds it settled. *)
LEMMA SettleStepMeans ==
    ASSUME Contained, NEW r \in Requests, Step(r), NEW to \in Final,
           NEW money \in Nat, NEW toks \in Nat, SettleStep(r, to, money, toks)
    PROVE  T!Settle(r) \/ UNCHANGED T!vars
  <1>0. Sound /\ TypeOK /\ StepsKnown
    BY DEF Contained, Sound
  <1>1. /\ state' = [state EXCEPT ![r] = to]
        /\ UNCHANGED <<hard_limit, reservation, ledger, contract, closed,
                       escrow, c_ledger>>
    BY DEF SettleStep, controls, c_books
  <1>2. /\ state'[r] = to /\ state[r] # "absent"
        /\ to # "absent" /\ to \in Final
        /\ \A q \in Requests \ {r} : state'[q] = state[q]
    BY <1>0, <1>1 DEF TypeOK, StepsKnown, Final
  <1>3. \A b \in Budgets : ChargedAmount(r, b) = 0
    <2>1. \A b \in Budgets : EntriesFollow(r, b) /\ reservation[r][b] = 0
      BY <1>0 DEF Sound, EntriesKnown, StepsKnown
    <2> QED BY <2>1 DEF EntriesFollow, ChargedAmount, NoPostings
  <1>4. \A q \in Requests \ {r} : Claim(q)' = Claim(q)
    BY <1>1, <1>2 DEF Claim, ChargedAmount
  <1>5. \A d \in Contracts : ContractClaim(d)' = ContractClaim(d)
    BY <1>1, ContractClaimKept
  <1>6. OthersKept(r)
    BY <1>4, <1>5, ClaimsOfRows, ClaimsOfRowsAfter DEF OthersKept
  <1>7. AnyClaim(r) = Claim(r) /\ AnyClaim(r)' = Claim(r)'
    BY ClaimsOfRows, ClaimsOfRowsAfter
  <1>8. /\ Claim(r)'.phase = "settled" /\ Claim(r)'.hold = Claim(r).hold
        /\ Claim(r)'.taken = NoCharge /\ Claim(r).hold = reservation[r]
    BY <1>1, <1>2, <1>3 DEF Claim, ChargedAmount, NoCharge
  <1>9. CASE state[r] \in Final
    <2>1. Claim(r)' = Claim(r)
      BY <1>1, <1>2, <1>9 DEF Claim, ChargedAmount
    <2> QED BY <1>1, <1>6, <1>7, <2>1, NothingMeans DEF OthersKept
  <1>10. CASE state[r] \notin Final
    <2>1. Claim(r).phase = "held"
      BY <1>2, <1>10 DEF Claim
    <2>2. /\ NoCharge \in [Budgets -> Nat]
          /\ \A b \in Budgets : NoCharge[b] = 0 /\ reservation[r][b] = 0
      BY <1>0 DEF NoCharge, StepsKnown
    <2> QED BY <1>1, <1>6, <1>7, <1>8, <2>1, <2>2, SettleMeans
  <1> QED BY <1>9, <1>10

(* The tenant's budgets are one escrow of requests and contracts: whatever *)
(* the envelopes, no hold is granted that does not fit, each is consumed   *)
(* once and within itself, and steps take nothing beside their contract.   *)
THEOREM TenantIsEscrow == ContractSpec => BudgetsAreEscrow
  <1>1. Init /\ ContractInit => T!Init
    <2> SUFFICES ASSUME Init, ContractInit PROVE T!Init
      OBVIOUS
    <2>1. Sound /\ \A r \in Requests : state[r] = "absent"
      BY SoundInitially DEF Init
    <2>2. \A r \in Requests :
             Claim(r) = [phase |-> "absent", hold |-> NoCharge,
                         taken |-> NoCharge]
      BY <2>1, AbsentClaim
    <2>3. \A c \in Contracts :
             ContractClaim(c) = [phase |-> "absent", hold |-> NoCharge,
                                 taken |-> NoCharge]
      BY DEF ContractInit, ContractClaim, ClosedCharge, NoPostings, NoCharge
    <2>4. hard_limit \in [Budgets -> Nat]
      BY <2>1 DEF Sound, TypeOK
    <2> QED BY <2>2, <2>3, <2>4
         DEF T!Init, T!Amounts, T!Absent, T!Nothing, NoCharge
  <1>2. ASSUME Contained, FundsBalance, [OrdinaryNext \/ ContractNext]_allvars
        PROVE  [T!Next]_(T!vars)
    <2>0. Contained'
      BY <1>2, ContainedStays
    <2>1. ASSUME Filed PROVE UNCHANGED T!vars
      <3>1. \A c \in Contracts : ContractClaim(c)' = ContractClaim(c)
        BY <2>1, ContractClaimKept DEF Filed
      <3>2. \A r \in Requests : Claim(r)' = Claim(r)
        BY <2>1 DEF Filed, vars, Claim, ChargedAmount
      <3>3. UNCHANGED hard_limit
        BY <2>1 DEF Filed, vars
      <3> QED BY <3>1, <3>2, <3>3, NothingMeans, ClaimsOfRows,
                 ClaimsOfRowsAfter
    <2>2. ASSUME NEW r \in Requests, NEW c \in Contracts, NEW v \in Versions,
                 NEW i \in Idems, NEW p \in Payloads, NEW dm \in Recent,
                 AdmitStep(r, c, v, i, p, dm)
          PROVE  T!Hold(r)
      BY <1>2, <2>0, <2>2, AdmitStepMeans
    <2>3. ASSUME NEW r \in Requests, Step(r), NEW to \in Final,
                 NEW money \in Nat, NEW toks \in Nat,
                 SettleStep(r, to, money, toks)
          PROVE  T!Settle(r) \/ UNCHANGED T!vars
      BY <1>2, <2>3, SettleStepMeans
    <2>4. ASSUME NEW c \in Contracts, NEW dm \in Recent, NEW dd \in Recent,
                 CreateContract(c, dm, dd)
          PROVE  T!Hold(c)
      BY <1>2, <2>0, <2>4, CreateMeans
    <2>5. ASSUME NEW c \in Contracts, Close(c) PROVE T!Settle(c)
      BY <1>2, <2>5, CloseMeans
    <2>6. ASSUME OrdinaryNext PROVE [T!Next]_(T!vars)
      BY <1>2, <2>0, <2>6, OrdinaryMeans
    <2> QED BY <1>2, <2>1, <2>2, <2>3, <2>4, <2>5, <2>6, ContractMoves
         DEF T!Next
  <1> QED BY <1>1, <1>2, FundsAlways, PTL
       DEF BudgetsAreEscrow, T!Spec, ContractSpec
=============================================================================
