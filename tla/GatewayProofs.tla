---------------------------- MODULE GatewayProofs ----------------------------
(***************************************************************************)
(* Proofs about Gateway, for every number of calls, threads that outlive   *)
(* them and faults: that its steps are steps of Accounting, that the       *)
(* provider works only under a hold and once, and that books, provider and *)
(* client agree.                                                           *)
(*                                                                         *)
(* The heart of the inductive invariant is Served, a table of where an     *)
(* admitted call can be, which of its threads are left, and what its       *)
(* request then looks like.  Every thread, failure and cancellation leads  *)
(* from a row of the table to a row of the table.                          *)
(***************************************************************************)
EXTENDS Gateway, AccountingProofs

(* What the stage of an admitted call, the threads it has left and the     *)
(* state, provider calls, usage and cost of its request are together.      *)
Served(s, left, st, n, u, k) ==
    \/ s \in {"counting", "ended"} /\ left = {"quota"} /\ st = "reserved"
    \/ s \in {"releasing", "ended"} /\ left = {"release"} /\ st = "reserved"
    \/ s \in {"dispatching", "ended"} /\ left = {"dispatch"} /\ st = "reserved"
    \/ s = "ready" /\ left = {} /\ st = "dispatched" /\ n = 0
    \/ s = "calling" /\ left = {} /\ st = "dispatched" /\ n = 1
    \/ /\ s = "settling" /\ left = {"settle"}
       /\ st = "dispatched" /\ n = 1 /\ u # NoAnswer
    \/ /\ s = "replying" /\ left = {}
       /\ st = "completed" /\ n = 1 /\ u # NoAnswer /\ k = u
    \/ /\ s \in {"marking", "ended"} /\ left = {"uncertain"}
       /\ st \in {"dispatched", "completed"} /\ n = 1
    \/ /\ s \in {"marking", "ended"} /\ left = {"settle", "uncertain"}
       /\ st \in {"dispatched", "completed"} /\ n = 1 /\ u # NoAnswer
    \/ /\ s = "ended" /\ left = {"settle"}
       /\ st \in {"dispatched", "uncertain", "completed"}
       /\ n = 1 /\ u # NoAnswer
    \/ s = "ended" /\ left = {} /\ st # "absent"

(* The same of a call that was not admitted, or not yet. *)
Waiting(s, left, a, told) ==
    \/ s = "new" /\ left = {} /\ told = NoAnswer
    \/ s \in {"admitting", "ended"} /\ left = {"admit"} /\ a # Nobody
    \/ s = "ended" /\ left = {}

Asks(a, p) == p.key = a.key /\ p.idem = a.idem /\ p.payload = a.payload

CallKnown(c) ==
    IF row[c] = NoRow
      THEN Waiting(stage[c], work[c], asked[c], answer[c])
      ELSE /\ asked[c] # Nobody /\ request[row[c]] # Nobody
           /\ Asks(asked[c], request[row[c]])
           /\ Served(stage[c], work[c], state[row[c]], called[row[c]],
                     used[row[c]], cost[row[c]])

(* A request belongs to one call. *)
OneCallEach ==
    \A c, d \in Calls : row[c] # NoRow /\ row[d] = row[c] => c = d

(* What was sent, what was answered and what was booked of a request. *)
RequestKnown(r) ==
    /\ called[r] \in {0, 1}
    /\ state[r] \in {"absent", "reserved", "released"} => called[r] = 0
    /\ state[r] \in {"uncertain", "completed"} => called[r] = 1
    /\ state[r] = "completed" => cost[r] \in {used[r], MoneyBound(r)}
    /\ response[r] # NoAnswer => state[r] = "completed" /\ cost[r] = response[r]
    /\ state[r] # "absent" => reservation[r][First] = MoneyBound(r)

(* A key has at most one request for each idempotency key. *)
OneRowEach ==
    \A q, r \in Requests :
        /\ request[q] # Nobody /\ request[r] # Nobody
        /\ request[q].key = request[r].key
        /\ request[q].idem = request[r].idem
        => q = r

ReconcilersKnown ==
    \A x \in Admins : reconciling[x] # Idle =>
        state[reconciling[x]] \in {"uncertain", "completed"}

Columns ==
    /\ stage \in [Calls -> Stages]
    /\ work \in [Calls -> SUBSET Works]
    /\ asked \in [Calls -> [key : Keys, idem : Idems, payload : Payloads]
                             \cup {Nobody}]
    /\ row \in [Calls -> Requests \cup {NoRow}]
    /\ answer \in [Calls -> Usages \cup {NoAnswer}]
    /\ called \in [Requests -> Nat]
    /\ used \in [Requests -> Usages \cup {NoAnswer}]
    /\ response \in [Requests -> Usages \cup {NoAnswer}]
    /\ count \in Nat /\ expiring \in BOOLEAN
    /\ faults \in 0..MaxFaults /\ disturbed \in BOOLEAN

(* The inductive invariant.  The gateway's clock stands still, so that     *)
(* every request is held against the first root budget.                    *)
GInv ==
    /\ Sound /\ Columns
    /\ day = 0 /\ First \in rows
    /\ \A c \in Calls : CallKnown(c)
    /\ OneCallEach
    /\ \A r \in Requests : RequestKnown(r)
    /\ OneRowEach
    /\ ReconcilersKnown
    /\ ToldIsCharged

-----------------------------------------------------------------------------
(* Stages and threads *)

(* The threads there are, and the stage each is awaited in. *)
LEMMA WorksAre ==
    /\ Works = {"admit", "quota", "release", "dispatch", "settle", "uncertain"}
    /\ StageOf["admit"] = "admitting" /\ StageOf["quota"] = "counting"
    /\ StageOf["release"] = "releasing" /\ StageOf["dispatch"] = "dispatching"
    /\ StageOf["settle"] = "settling" /\ StageOf["uncertain"] = "marking"
  BY DEF Works, StageOf

(* The work a stage hands out. *)
LEMMA WorkOfStages ==
    /\ WorkOf("admitting") = {"admit"} /\ WorkOf("counting") = {"quota"}
    /\ WorkOf("releasing") = {"release"}
    /\ WorkOf("dispatching") = {"dispatch"}
    /\ WorkOf("settling") = {"settle"} /\ WorkOf("marking") = {"uncertain"}
    /\ WorkOf("ready") = {} /\ WorkOf("calling") = {}
    /\ WorkOf("replying") = {} /\ WorkOf("ended") = {}
  BY WorksAre DEF WorkOf

LEMMA StagesAre ==
    Stages = {"new", "admitting", "counting", "releasing", "dispatching",
              "ready", "calling", "settling", "replying", "marking", "ended"}
  BY WorksAre DEF Stages

(* Where a coroutine that awaits w goes when w returns. *)
Onward(w, s) ==
    \/ w = "admit" /\ s = "counting"
    \/ w = "quota" /\ s \in {"releasing", "dispatching"}
    \/ w = "release" /\ s = "ended"
    \/ w = "dispatch" /\ s \in {"ready", "calling"}
    \/ w = "settle" /\ s = "replying"
    \/ w = "uncertain" /\ s = "ended"

(* Where it goes when w raises an exception. *)
Thrown(w, s) ==
    \/ w = "quota" /\ s = "releasing"
    \/ w = "settle" /\ s = "marking"
    \/ w \in {"admit", "release", "dispatch", "uncertain"} /\ s = "ended"

LEMMA WhereReturned ==
    ASSUME NEW c, NEW w \in Works, NEW s \in Returned(c, w)
    PROVE  IF stage[c] = StageOf[w] THEN Onward(w, s) ELSE s = stage[c]
  <1>1. CASE stage[c] # StageOf[w]
    BY <1>1 DEF Returned, Awaits
  <1>2. CASE stage[c] = StageOf[w]
    <2>1. s \in [admit |-> {"counting"},
                 quota |-> {"releasing"} \cup Admissible,
                 release |-> {"ended"},
                 dispatch |-> {IF Streams(c) THEN "ready" ELSE "calling"},
                 settle |-> {"replying"},
                 uncertain |-> {"ended"}][w]
      BY <1>2 DEF Returned, Awaits
    <2> QED BY <1>2, <2>1, WorksAre DEF Onward, Admissible
  <1> QED BY <1>1, <1>2

LEMMA WhereRaised ==
    ASSUME NEW c, NEW w \in Works
    PROVE  IF stage[c] = StageOf[w] THEN Thrown(w, Raised(c, w))
                                    ELSE Raised(c, w) = stage[c]
  BY WorksAre DEF Raised, Awaits, Thrown

-----------------------------------------------------------------------------
(* The table *)

(* What thread w does to its request's state, cost, usage and response. *)
Moved(w, st, st1, k, k1, u) ==
    \/ st1 = st /\ k1 = k /\ (w = "quota" \/ st \in Final)
    \/ w = "release" /\ st = "reserved" /\ st1 = "released"
    \/ w = "dispatch" /\ st = "reserved" /\ st1 = "dispatched"
    \/ w = "settle" /\ st \notin Final /\ st1 = "completed" /\ k1 = u
    \/ w = "uncertain" /\ st = "dispatched" /\ st1 = "uncertain"

(* What is left of left, and of the provider's calls, on entering s1. *)
LeftOn(s, s1, left) == left \cup (IF s1 = s THEN {} ELSE WorkOf(s1))
CallsOn(s, s1, n) == IF s1 = "calling" /\ s1 # s THEN n + 1 ELSE n

(* A thread that commits leads from the table to the table. *)
LEMMA ReturnServes ==
    ASSUME NEW s, NEW left, NEW st \in States, NEW n, NEW u, NEW k,
           Served(s, left, st, n, u, k), NEW w \in left,
           st = "reserved" => n = 0,
           NEW st1, NEW k1, Moved(w, st, st1, k, k1, u),
           NEW s1, IF s = StageOf[w] THEN Onward(w, s1) ELSE s1 = s
    PROVE  Served(s1, LeftOn(s, s1, left \ {w}), st1, CallsOn(s, s1, n), u, k1)
  BY WorksAre, WorkOfStages
  DEF Served, Moved, Onward, LeftOn, CallsOn, Final, States

(* So does one that raises an exception, committed or not. *)
LEMMA RaiseServes ==
    ASSUME NEW s, NEW left, NEW st \in States, NEW n, NEW u, NEW k,
           Served(s, left, st, n, u, k), NEW w \in left,
           st = "reserved" => n = 0,
           NEW st1, NEW k1,
           Moved(w, st, st1, k, k1, u) \/ (st1 = st /\ k1 = k),
           NEW s1, IF s = StageOf[w] THEN Thrown(w, s1) ELSE s1 = s
    PROVE  Served(s1, LeftOn(s, s1, left \ {w}), st1, CallsOn(s, s1, n), u, k1)
  BY WorksAre, WorkOfStages
  DEF Served, Moved, Thrown, LeftOn, CallsOn, Final, States
(* The request of a call that a thread moves keeps what is known of it. *)
NumbersFit(st, n) ==
    /\ n \in {0, 1}
    /\ st \in {"absent", "reserved", "released"} => n = 0
    /\ st \in {"uncertain", "completed"} => n = 1

LEMMA ReturnFits ==
    ASSUME NEW s, NEW left, NEW st \in States, NEW n, NEW u, NEW k,
           Served(s, left, st, n, u, k), NEW w \in left, NumbersFit(st, n),
           NEW st1, NEW k1, Moved(w, st, st1, k, k1, u),
           NEW s1, IF s = StageOf[w] THEN Onward(w, s1) ELSE s1 = s
    PROVE  NumbersFit(st1, CallsOn(s, s1, n))
  BY WorksAre DEF Served, Moved, Onward, CallsOn, Final, States, NumbersFit

LEMMA RaiseFits ==
    ASSUME NEW s, NEW left, NEW st \in States, NEW n, NEW u, NEW k,
           Served(s, left, st, n, u, k), NEW w \in left, NumbersFit(st, n),
           NEW st1, NEW k1,
           Moved(w, st, st1, k, k1, u) \/ (st1 = st /\ k1 = k),
           NEW s1, IF s = StageOf[w] THEN Thrown(w, s1) ELSE s1 = s
    PROVE  NumbersFit(st1, CallsOn(s, s1, n))
  BY WorksAre DEF Served, Moved, Thrown, CallsOn, Final, States, NumbersFit

(* A call with other threads than its admission was admitted. *)
LEMMA WorkersHaveRows ==
    ASSUME Columns, NEW c \in Calls, CallKnown(c),
           NEW w \in work[c], w # "admit"
    PROVE  /\ w \in Works /\ row[c] \in Requests
           /\ Served(stage[c], work[c], state[row[c]], called[row[c]],
                     used[row[c]], cost[row[c]])
  BY DEF Columns, CallKnown, Waiting

(* One that is still to be admitted was not. *)
LEMMA AdmissionsHaveNone ==
    ASSUME Columns, NEW c \in Calls, CallKnown(c), "admit" \in work[c]
    PROVE  /\ row[c] = NoRow /\ work[c] = {"admit"} /\ asked[c] # Nobody
           /\ stage[c] \in {"admitting", "ended"}
  BY DEF Columns, CallKnown, Waiting, Served

-----------------------------------------------------------------------------
(* What a step changes *)

(* Nothing of request q, and nothing of the calls other than c, changes. *)
Stays(q) ==
    /\ request'[q] = request[q] /\ state'[q] = state[q] /\ cost'[q] = cost[q]
    /\ reservation'[q] = reservation[q] /\ called'[q] = called[q]
    /\ used'[q] = used[q] /\ response'[q] = response[q]

OthersStay(c) ==
    \A d \in Calls \ {c} :
        /\ stage'[d] = stage[d] /\ work'[d] = work[d] /\ row'[d] = row[d]
        /\ asked'[d] = asked[d] /\ answer'[d] = answer[d]

Told(c) ==
    answer[c] # NoAnswer =>
        \E r \in Earlier(asked[c]) :
            /\ request[r].payload = asked[c].payload
            /\ state[r] = "completed" /\ cost[r] = answer[c]

(* What is completed stays so, at its cost. *)
CompletedStay ==
    \A r \in Requests : state[r] = "completed" =>
        /\ state'[r] = "completed" /\ cost'[r] = cost[r]
        /\ request'[r] = request[r]

LEMMA CallStays ==
    ASSUME NEW c \in Calls, CallKnown(c), row'[c] = row[c],
           stage'[c] = stage[c], work'[c] = work[c],
           asked'[c] = asked[c], answer'[c] = answer[c],
           row[c] # NoRow => Stays(row[c])
    PROVE  CallKnown(c)'
  BY DEF CallKnown, Stays

LEMMA ToldStays ==
    ASSUME NEW c \in Calls, Told(c), CompletedStay,
           asked'[c] = asked[c], answer'[c] = answer[c]
    PROVE  Told(c)'
  BY DEF Told, CompletedStay, Earlier

LEMMA RequestStays ==
    ASSUME NEW r \in Requests, RequestKnown(r), Stays(r)
    PROVE  RequestKnown(r)'
  BY DEF RequestKnown, Stays, MoneyBound

(* A step of one call and of its request, if it has one.                   *)
CallMoves(c) ==
    /\ OthersStay(c)
    /\ UNCHANGED <<day, rows, row, request, reconciling>>
    /\ \A q \in Requests : q # row[c] => Stays(q)
    /\ CompletedStay
    /\ \A r \in Requests :
         state[r] \in {"uncertain", "completed"} =>
            state'[r] \in {"uncertain", "completed"}

LEMMA OneCallMoves ==
    ASSUME GInv, Sound', Columns', NEW c \in Calls, CallMoves(c),
           CallKnown(c)', Told(c)',
           \A r \in Requests : r = row[c] => RequestKnown(r)'
    PROVE  GInv'
  <1>1. ASSUME NEW d \in Calls PROVE CallKnown(d)'
    <2>1. CASE d = c
      BY <2>1
    <2>2. CASE d # c
      <3>1. row[d] # NoRow => row[d] \in Requests /\ row[d] # row[c]
        BY <2>2 DEF GInv, OneCallEach, Columns
      <3> QED BY <2>2, <3>1, CallStays DEF GInv, CallMoves, OthersStay
    <2> QED BY <2>1, <2>2
  <1>2. ASSUME NEW d \in Calls PROVE Told(d)'
    <2>1. Told(d)
      BY DEF GInv, ToldIsCharged, Told
    <2> QED BY <2>1, ToldStays DEF CallMoves, OthersStay
  <1>3. ASSUME NEW r \in Requests PROVE RequestKnown(r)'
    <2>1. CASE r = row[c]
      BY <2>1
    <2>2. CASE r # row[c]
      BY <2>2, RequestStays DEF GInv, CallMoves
    <2> QED BY <2>1, <2>2
  <1>4. ToldIsCharged'
    BY <1>2 DEF ToldIsCharged, Told
  <1>5. OneCallEach' /\ OneRowEach'
    BY DEF GInv, CallMoves, OneCallEach, OneRowEach
  <1>6. ReconcilersKnown'
    BY DEF GInv, CallMoves, ReconcilersKnown, Sound, TypeOK
  <1>7. day' = 0 /\ First \in rows'
    BY DEF GInv, CallMoves
  <1> QED BY <1>1, <1>3, <1>4, <1>5, <1>6, <1>7 DEF GInv
(* What entering a stage changes. *)
Entered(c, s, left) ==
    /\ stage' \in [Calls -> Stages] /\ work' \in [Calls -> SUBSET Works]
    /\ called' \in [Requests -> Nat]
    /\ stage'[c] = s /\ work'[c] = LeftOn(stage[c], s, left)
    /\ \A d \in Calls \ {c} : stage'[d] = stage[d] /\ work'[d] = work[d]
    /\ \A r \in Requests :
         called'[r] = IF r = row[c] THEN CallsOn(stage[c], s, called[r])
                                    ELSE called[r]

LEMMA EnterMoves ==
    ASSUME Columns, NEW c \in Calls, NEW s \in Stages, NEW left \in SUBSET Works,
           Enter(c, s, left)
    PROVE  Entered(c, s, left)
  <1>1. stage' = [stage EXCEPT ![c] = s] /\ stage \in [Calls -> Stages]
    BY DEF Enter, Columns
  <1>2. /\ work' = [work EXCEPT ![c] = LeftOn(stage[c], s, left)]
        /\ work \in [Calls -> SUBSET Works]
        /\ LeftOn(stage[c], s, left) \in SUBSET Works
    BY DEF Enter, LeftOn, WorkOf, Columns
  <1>3. /\ called \in [Requests -> Nat]
        /\ called' = IF s = "calling" /\ s # stage[c]
                       THEN [called EXCEPT ![row[c]] = @ + 1] ELSE called
    BY DEF Enter, Columns
  <1>4. called' \in [Requests -> Nat]
    <2>1. CASE row[c] \in Requests
      BY <1>3, <2>1
    <2>2. CASE row[c] \notin Requests
      <3>1. [called EXCEPT ![row[c]] = @ + 1] = called
        BY <1>3, <2>2
      <3> QED BY <1>3, <3>1
    <2> QED BY <2>1, <2>2
  <1>5. ASSUME NEW r \in Requests
        PROVE  called'[r] = IF r = row[c] THEN CallsOn(stage[c], s, called[r])
                                          ELSE called[r]
    BY <1>3 DEF CallsOn
  <1> QED BY <1>1, <1>2, <1>4, <1>5 DEF Entered

(* What it can do to the cost and the response of request r. *)
Charges(r) ==
    \/ /\ state'[r] = state[r] /\ cost'[r] = cost[r]
       /\ response'[r] = response[r]
    \/ /\ state[r] \in {"reserved", "dispatched"} /\ state'[r] # "completed"
       /\ response'[r] = response[r]
    \/ /\ state[r] \in {"dispatched", "uncertain"} /\ state'[r] = "completed"
       /\ cost'[r] = used[r] /\ response'[r] = used[r]

(* What a thread can do to the database, once its call is admitted. *)
Touches(c) ==
    /\ UNCHANGED <<day, rows, row, request, reservation, reconciling>>
    /\ response' \in [Requests -> Usages \cup {NoAnswer}]
    /\ count' \in Nat /\ expiring' \in BOOLEAN
    /\ \A q \in Requests \ {row[c]} :
         state'[q] = state[q] /\ cost'[q] = cost[q] /\ response'[q] = response[q]
    /\ Charges(row[c])

(* What thread w does to it. *)
Effects(c, w) ==
    /\ Touches(c)
    /\ Moved(w, state[row[c]], state'[row[c]], cost[row[c]], cost'[row[c]],
             used[row[c]])

LEMMA SettleMoves ==
    ASSUME GInv, NEW c \in Calls, "settle" \in work[c], Settles(row[c]),
           UNCHANGED <<row, redis>>
    PROVE  Effects(c, "settle") /\ [Next]_vars
  <1> DEFINE r == row[c]
  <1>0. TypeOK /\ Columns /\ CallKnown(c)
    BY DEF GInv, Sound
  <1>1. /\ r \in Requests
        /\ Served(stage[c], work[c], state[r], called[r], used[r], cost[r])
    BY <1>0, WorkersHaveRows
  <1>2. /\ used[r] \in Usages /\ used[r] # NoAnswer
        /\ state[r] \in {"dispatched", "uncertain"} \cup Final
    BY <1>0, <1>1 DEF Served, Columns, Final
  <1>3. CASE state[r] \in Final
    BY <1>0, <1>3
    DEF Settles, Effects, Touches, Charges, Moved, Columns, vars, redis
  <1>4. CASE state[r] \notin Final
    <2>1. /\ Settle(r, "completed", used[r], Usage(r, used[r], used[r]))
          /\ response' = [response EXCEPT ![r] = used[r]]
          /\ UNCHANGED reconciling
      BY <1>4 DEF Settles
    <2>2. Complete(r, used[r], used[r])
      BY <1>2, <1>4, <2>1 DEF Complete
    <2>3. Next
      BY <1>1, <1>2, <2>2 DEF Next
    <2>4. /\ state' = [state EXCEPT ![r] = "completed"]
          /\ cost' = [cost EXCEPT ![r] = used[r]]
          /\ UNCHANGED <<day, rows, request, reservation>>
      BY <2>1 DEF Settle, controls
    <2>5. /\ state'[r] = "completed" /\ cost'[r] = used[r]
          /\ response'[r] = used[r]
          /\ response' \in [Requests -> Usages \cup {NoAnswer}]
          /\ \A q \in Requests \ {r} :
               state'[q] = state[q] /\ cost'[q] = cost[q]
                 /\ response'[q] = response[q]
      BY <1>0, <1>1, <1>2, <2>1, <2>4 DEF TypeOK, Columns
    <2>6. Charges(r) /\ Moved("settle", state[r], state'[r], cost[r], cost'[r],
                              used[r])
      BY <1>2, <1>4, <2>5 DEF Charges, Moved
    <2> QED BY <1>0, <2>1, <2>3, <2>4, <2>5, <2>6
            DEF Effects, Touches, Columns, redis
  <1> QED BY <1>3, <1>4

LEMMA ReleaseMoves ==
    ASSUME GInv, NEW c \in Calls, "release" \in work[c], Release(row[c]),
           UNCHANGED <<row, response, redis>>
    PROVE  Effects(c, "release") /\ [Next]_vars
  <1> DEFINE r == row[c]
  <1>0. TypeOK /\ Columns /\ CallKnown(c)
    BY DEF GInv, Sound
  <1>1. r \in Requests
    BY <1>0, WorkersHaveRows
  <1>2. /\ state[r] = "reserved"
        /\ state' = [state EXCEPT ![r] = "released"]
        /\ cost' = [cost EXCEPT ![r] = 0]
        /\ UNCHANGED <<day, rows, request, reservation, reconciling>>
    BY DEF Release, Settle, controls
  <1>3. /\ state'[r] = "released"
        /\ \A q \in Requests \ {r} : state'[q] = state[q] /\ cost'[q] = cost[q]
    BY <1>0, <1>1, <1>2 DEF TypeOK
  <1>4. Charges(r) /\ Moved("release", state[r], state'[r], cost[r], cost'[r],
                            used[r])
    BY <1>2, <1>3 DEF Charges, Moved, Final
  <1> QED BY <1>0, <1>1, <1>2, <1>3, <1>4
          DEF Effects, Touches, Columns, redis, Next

LEMMA TransitionMoves ==
    ASSUME GInv, NEW c \in Calls, NEW w \in work[c],
           \/ w = "dispatch" /\ Dispatch(row[c])
           \/ w = "uncertain" /\ Marks(row[c]),
           UNCHANGED <<row, response, redis>>
    PROVE  Effects(c, w) /\ [Next]_vars
  <1> DEFINE r == row[c]
  <1>0. TypeOK /\ Columns /\ CallKnown(c)
    BY DEF GInv, Sound
  <1>1. r \in Requests
    BY <1>0, WorkersHaveRows
  <1>2. CASE w = "uncertain" /\ state[r] \in Final
    BY <1>0, <1>2
    DEF Marks, Dispatch, Effects, Touches, Charges, Moved, Columns, vars, redis
  <1>3. ASSUME NEW from \in {"reserved", "dispatched"},
               NEW to \in {"dispatched", "uncertain"}, Transition(r, from, to),
               \/ w = "dispatch" /\ from = "reserved" /\ to = "dispatched"
               \/ w = "uncertain" /\ from = "dispatched" /\ to = "uncertain"
        PROVE  Effects(c, w)
    <2>1. /\ state[r] = from /\ state' = [state EXCEPT ![r] = to]
          /\ UNCHANGED <<day, rows, request, reservation, reconciling, cost>>
      BY <1>3 DEF Transition, controls
    <2>2. state'[r] = to /\ \A q \in Requests \ {r} : state'[q] = state[q]
      BY <1>0, <1>1, <2>1 DEF TypeOK
    <2>3. Charges(r) /\ Moved(w, state[r], state'[r], cost[r], cost'[r],
                              used[r])
      BY <1>3, <2>1, <2>2 DEF Charges, Moved, Final
    <2> QED BY <1>0, <2>1, <2>2, <2>3 DEF Effects, Touches, Columns, redis
  <1>4. CASE w = "dispatch" /\ Dispatch(r)
    <2>1. Effects(c, w)
      BY <1>3, <1>4 DEF Dispatch
    <2> QED BY <1>1, <1>4, <2>1 DEF Next
  <1>5. CASE w = "uncertain" /\ state[r] \notin Final
    <2>1. MarkUncertain(r)
      BY <1>5 DEF Marks
    <2>2. Effects(c, w)
      BY <1>3, <1>5, <2>1 DEF MarkUncertain
    <2> QED BY <1>1, <2>1, <2>2 DEF Next
  <1> QED BY <1>2, <1>4, <1>5 DEF Marks
LEMMA QuotaMoves ==
    ASSUME GInv, NEW c \in Calls, "quota" \in work[c], Count,
           UNCHANGED <<vars, row, response>>
    PROVE  Effects(c, "quota") /\ [Next]_vars
  <1>1. count' \in Nat /\ expiring' \in BOOLEAN
    BY DEF GInv, Columns, Count
  <1> QED BY <1>1 DEF Effects, Touches, Charges, Moved, GInv, Columns, vars

LEMMA EffectMoves ==
    ASSUME GInv, NEW c \in Calls, NEW w \in work[c], w # "admit", Effect(c, w)
    PROVE  Effects(c, w) /\ [Next]_vars
  BY QuotaMoves, ReleaseMoves, TransitionMoves, SettleMoves DEF Effect

LEMMA NothingTouches ==
    ASSUME GInv, NEW c \in Calls, Nothing
    PROVE  /\ Touches(c) /\ [Next]_vars
           /\ state'[row[c]] = state[row[c]] /\ cost'[row[c]] = cost[row[c]]
  BY DEF Nothing, Touches, Charges, GInv, Columns, vars, redis

(* A step that leaves a call and its request in the table keeps the        *)
(* invariant.                                                              *)
LEMMA TouchedKnown ==
    ASSUME GInv, Sound', NEW c \in Calls, row[c] \in Requests,
           NEW s, NEW left, Entered(c, s, left), Touches(c),
           UNCHANGED <<asked, answer, used>>,
           faults' \in 0..MaxFaults, disturbed' \in BOOLEAN,
           state[row[c]] # "absent",
           Served(s, LeftOn(stage[c], s, left), state'[row[c]],
                  CallsOn(stage[c], s, called[row[c]]), used[row[c]],
                  cost'[row[c]]),
           NumbersFit(state'[row[c]], CallsOn(stage[c], s, called[row[c]]))
    PROVE  GInv'
  <1> DEFINE r == row[c]
  <1>0. /\ Columns /\ CallKnown(c) /\ RequestKnown(r)
        /\ Told(c)
    BY DEF GInv, ToldIsCharged, Told
  <1>1. r # NoRow
    BY GatewayAssumption
  <1>2. Columns'
    BY <1>0 DEF Columns, Entered, Touches
  <1>3. /\ stage'[c] = s /\ work'[c] = LeftOn(stage[c], s, left)
        /\ called'[r] = CallsOn(stage[c], s, called[r])
        /\ row' = row /\ request' = request /\ used' = used
    BY DEF Entered, Touches
  <1>4. CallKnown(c)'
    BY <1>0, <1>1, <1>3 DEF CallKnown
  <1>5. CompletedStay /\ \A q \in Requests :
          state[q] \in {"uncertain", "completed"} =>
             state'[q] \in {"uncertain", "completed"}
    <2>1. ASSUME NEW q \in Requests
          PROVE  state[q] = "completed" => state'[q] = "completed"
                                             /\ cost'[q] = cost[q]
      BY DEF Touches, Charges
    <2>2. ASSUME NEW q \in Requests
          PROVE  state[q] = "uncertain" => state'[q] \in {"uncertain", "completed"}
      BY DEF Touches, Charges
    <2> QED BY <1>3, <2>1, <2>2 DEF CompletedStay
  <1>6. Told(c)'
    BY <1>0, <1>5, ToldStays
  <1>7. RequestKnown(r)'
    <2>1. NumbersFit(state[r], called[r])
      BY <1>0 DEF RequestKnown, NumbersFit
    <2>2. reservation' = reservation /\ MoneyBound(r)' = MoneyBound(r)
      BY <1>3 DEF MoneyBound, Touches
    <2>3. Charges(r)
      BY DEF Touches
    <2>4. state'[r] = "completed" => cost'[r] \in {used'[r], MoneyBound(r)'}
      BY <1>0, <1>3, <2>2, <2>3 DEF RequestKnown, Charges
    <2>5. response'[r] # NoAnswer =>
            state'[r] = "completed" /\ cost'[r] = response'[r]
      BY <1>0, <2>3 DEF RequestKnown, Charges
    <2>6. reservation'[r][First] = MoneyBound(r)'
      BY <1>0, <2>2 DEF RequestKnown
    <2>7. NumbersFit(state'[r], called'[r])
      BY <1>3
    <2> QED BY <1>3, <2>4, <2>5, <2>6, <2>7 DEF RequestKnown, NumbersFit
  <1>8. CallMoves(c)
    <2>1. OthersStay(c)
      BY <1>3 DEF OthersStay, Entered
    <2>2. ASSUME NEW q \in Requests, q # r PROVE Stays(q)
      BY <1>3, <2>2 DEF Stays, Touches, Entered
    <2> QED BY <1>5, <2>1, <2>2 DEF CallMoves, Touches
  <1>9. \A q \in Requests : q = r => RequestKnown(q)'
    BY <1>3, <1>7
  <1> QED BY <1>2, <1>4, <1>6, <1>8, <1>9, OneCallMoves
-----------------------------------------------------------------------------
(* Threads *)

LEMMA SoundStays ==
    ASSUME GInv, [Next]_vars
    PROVE  Sound'
  <1> HIDE DEF BooksMove
  <1> QED BY StepSound DEF GInv

(* A thread of an admitted call commits. *)
LEMMA ThreadKept ==
    ASSUME GInv, NEW c \in Calls, NEW w \in Works, w # "admit", Thread(c, w)
    PROVE  GInv' /\ [Next]_vars
  <1> DEFINE r == row[c]
  <1>0. Columns /\ CallKnown(c) /\ w \in work[c]
    BY DEF GInv, Thread
  <1>1. /\ r \in Requests
        /\ Served(stage[c], work[c], state[r], called[r], used[r], cost[r])
    BY <1>0, WorkersHaveRows
  <1>2. Effects(c, w) /\ [Next]_vars
    BY <1>0, EffectMoves DEF Thread
  <1>3. PICK s \in Returned(c, w) : Enter(c, s, work[c] \ {w})
    BY DEF Thread
  <1>4. IF stage[c] = StageOf[w] THEN Onward(w, s) ELSE s = stage[c]
    BY WhereReturned
  <1>5. s \in Stages /\ work[c] \ {w} \in SUBSET Works
    BY <1>0, <1>4, StagesAre DEF Onward, Columns
  <1>6. Entered(c, s, work[c] \ {w})
    BY <1>0, <1>3, <1>5, EnterMoves
  <1>7. state[r] \in States /\ NumbersFit(state[r], called[r])
    BY <1>1 DEF GInv, Sound, TypeOK, RequestKnown, NumbersFit
  <1>8. Moved(w, state[r], state'[r], cost[r], cost'[r], used[r])
    BY <1>2 DEF Effects
  <1>9. Served(s, LeftOn(stage[c], s, work[c] \ {w}), state'[r],
               CallsOn(stage[c], s, called[r]), used[r], cost'[r])
    <2>1. state[r] = "reserved" => called[r] = 0
      BY <1>7 DEF NumbersFit
    <2> QED BY <1>0, <1>1, <1>4, <1>7, <1>8, <2>1, ReturnServes
  <1>10. NumbersFit(state'[r], CallsOn(stage[c], s, called[r]))
    BY <1>0, <1>1, <1>4, <1>7, <1>8, ReturnFits
  <1>11. state[r] # "absent"
    BY <1>1 DEF Served
  <1>12. /\ UNCHANGED <<asked, answer, used>>
         /\ faults' \in 0..MaxFaults /\ disturbed' \in BOOLEAN
    BY <1>0 DEF Thread, Columns, troubles
  <1>13. Touches(c)
    BY <1>2 DEF Effects
  <1> QED BY <1>1, <1>2, <1>6, <1>9, <1>10, <1>11, <1>12, <1>13, SoundStays,
             TouchedKnown

(* Faults keep the counters' ranges. *)
LEMMA FaultCounted ==
    ASSUME Columns, NEW f, Fault(f)
    PROVE  faults' \in 0..MaxFaults /\ disturbed' \in BOOLEAN
  BY GatewayAssumption DEF Columns, Fault

(* A thread of an admitted call raises an exception, committed or not. *)
LEMMA FailureKept ==
    ASSUME GInv, NEW c \in Calls, NEW w \in Works, w # "admit",
           ThreadFails(c, w)
    PROVE  GInv' /\ [Next]_vars
  <1> DEFINE r == row[c]
             s == Raised(c, w)
  <1>0. Columns /\ CallKnown(c) /\ w \in work[c]
    BY DEF GInv, ThreadFails
  <1>1. /\ r \in Requests
        /\ Served(stage[c], work[c], state[r], called[r], used[r], cost[r])
    BY <1>0, WorkersHaveRows
  <1>2. /\ Touches(c) /\ [Next]_vars
        /\ \/ Moved(w, state[r], state'[r], cost[r], cost'[r], used[r])
           \/ state'[r] = state[r] /\ cost'[r] = cost[r]
    BY <1>0, EffectMoves, NothingTouches DEF ThreadFails, Effects
  <1>3. Enter(c, s, work[c] \ {w})
    BY DEF ThreadFails
  <1>4. IF stage[c] = StageOf[w] THEN Thrown(w, s) ELSE s = stage[c]
    BY WhereRaised
  <1> HIDE DEF s
  <1>5. s \in Stages /\ work[c] \ {w} \in SUBSET Works
    BY <1>0, <1>4, StagesAre DEF Thrown, Columns
  <1>6. Entered(c, s, work[c] \ {w})
    BY <1>0, <1>3, <1>5, EnterMoves
  <1>7. state[r] \in States /\ NumbersFit(state[r], called[r])
    BY <1>1 DEF GInv, Sound, TypeOK, RequestKnown, NumbersFit
  <1>8. Served(s, LeftOn(stage[c], s, work[c] \ {w}), state'[r],
               CallsOn(stage[c], s, called[r]), used[r], cost'[r])
    <2>1. state[r] = "reserved" => called[r] = 0
      BY <1>7 DEF NumbersFit
    <2> QED BY <1>0, <1>1, <1>2, <1>4, <1>7, <2>1, RaiseServes
  <1>9. NumbersFit(state'[r], CallsOn(stage[c], s, called[r]))
    BY <1>0, <1>1, <1>2, <1>4, <1>7, RaiseFits
  <1>10. state[r] # "absent"
    BY <1>1 DEF Served
  <1>11. /\ UNCHANGED <<asked, answer, used>>
         /\ faults' \in 0..MaxFaults /\ disturbed' \in BOOLEAN
    BY <1>0, FaultCounted DEF ThreadFails
  <1> QED BY <1>1, <1>2, <1>6, <1>8, <1>9, <1>10, <1>11, SoundStays,
             TouchedKnown
-----------------------------------------------------------------------------
(* Admission *)

(* Whoever is admitted is charged to the first root budget. *)
LEMMA RootIsCharged ==
    ASSUME TypeOK, day = 0, First \in rows, NEW k \in Keys,
           NEW dm \in Recent, NEW dd \in Recent
    PROVE  First \in Charged(KeyApp[k], dm, dd) /\ Unit(First) = "money"
  <1>1. First[1] = RootCap /\ First[2] = MonthOf[0]
    BY DEF First, Root
  <1>2. dm = 0
    BY ClockAssumption DEF Recent, Days
  <1>3. KeyApp[k] \in Apps
    BY PathAssumption
  <1>4. First \in History(KeyApp[k])
    BY <1>1, <1>3, PathAssumption DEF History
  <1>5. Period(First[1], dm, dd) = MonthOf[0]
    BY <1>1, <1>2, CapsAssumption DEF Period
  <1> QED BY <1>1, <1>4, <1>5, CapsAssumption DEF Charged, Unit

(* What an admission writes, in the gateway's terms. *)
Admitted(c, r) ==
    /\ state[r] = "absent" /\ state' = [state EXCEPT ![r] = "reserved"]
    /\ row' = [row EXCEPT ![c] = r]
    /\ request'[r] # Nobody /\ Asks(asked[c], request'[r])
    /\ reservation'[r][First] = Bound[request'[r].payload]["money"]
    /\ \A q \in Requests \ {r} :
         request'[q] = request[q] /\ reservation'[q] = reservation[q]
    /\ \A q \in Requests \ {r} : request[q] # Nobody =>
         ~(request[q].key = asked[c].key /\ request[q].idem = asked[c].idem)
    /\ UNCHANGED <<day, rows, cost, reconciling>>

LEMMA AdmitsWhat ==
    ASSUME GInv, NEW c \in Calls, asked[c] # Nobody, Admits(c)
    PROVE  [Next]_vars /\ \E r \in Requests : Admitted(c, r)
  <1> DEFINE a == asked[c]
  <1>0. TypeOK /\ Columns
    BY DEF GInv, Sound
  <1>1. a.key \in Keys /\ a.idem \in Idems /\ a.payload \in Payloads
    BY <1>0 DEF Columns
  <1>2. PICK r \in Requests : \E dm, dd \in Recent :
           Admit(r, a.key, a.idem, a.payload, dm, dd)
             /\ row' = [row EXCEPT ![c] = r]
    BY DEF Admits
  <1>3. PICK dm \in Recent, dd \in Recent :
           Admit(r, a.key, a.idem, a.payload, dm, dd)
             /\ row' = [row EXCEPT ![c] = r]
    BY <1>2
  <1>4. Next
    BY <1>1, <1>3 DEF Next
  <1> DEFINE fresh == [key |-> a.key, idem |-> a.idem, payload |-> a.payload,
                       month |-> MonthOf[dm]]
             charged == Charged(KeyApp[a.key], dm, dd)
             amount == [b \in Budgets |->
                          IF b \in charged THEN Bound[a.payload][Unit(b)] ELSE 0]
  <1>5. /\ state[r] = "absent" /\ state' = [state EXCEPT ![r] = "reserved"]
        /\ request' = [request EXCEPT ![r] = fresh]
        /\ reservation' = [reservation EXCEPT ![r] = amount]
        /\ ~Taken(a.key, a.idem)
        /\ UNCHANGED <<day, rows, cost, reconciling>>
    BY <1>3 DEF Admit, Reserve, controls
  <1>6. request'[r] = fresh /\ reservation'[r] = amount
    BY <1>0, <1>5 DEF TypeOK
  <1>7. First \in charged /\ Unit(First) = "money" /\ First \in Budgets
    <2>1. First \in charged /\ Unit(First) = "money"
      BY <1>0, <1>1, RootIsCharged DEF GInv
    <2>2. charged \subseteq rows
      BY DEF Charged, History
    <2> QED BY <1>0, <2>1, <2>2 DEF TypeOK
  <1>8. reservation'[r][First] = Bound[a.payload]["money"]
    BY <1>6, <1>7
  <1>9. request'[r] # Nobody
    <2>1. Sound'
      BY <1>4, SoundStays
    <2>2. state'[r] # "absent"
      BY <1>0, <1>5 DEF TypeOK
    <2> QED BY <2>1, <2>2 DEF Sound, RowsKnown
  <1>10. Asks(asked[c], request'[r]) /\ request'[r].payload = a.payload
    BY <1>6 DEF Asks
  <1>11. \A q \in Requests \ {r} :
           request'[q] = request[q] /\ reservation'[q] = reservation[q]
    BY <1>0, <1>5 DEF TypeOK
  <1>12. \A q \in Requests \ {r} : request[q] # Nobody =>
           ~(request[q].key = asked[c].key /\ request[q].idem = asked[c].idem)
    BY <1>5 DEF Taken
  <1>13. Admitted(c, r)
    BY <1>3, <1>5, <1>8, <1>9, <1>10, <1>11, <1>12 DEF Admitted
  <1> QED BY <1>4, <1>13

LEMMA AdmissionKept ==
    ASSUME GInv, Sound', NEW c \in Calls, "admit" \in work[c],
           NEW r \in Requests, Admitted(c, r),
           UNCHANGED <<asked, answer, used, response, redis>>,
           faults' \in 0..MaxFaults, disturbed' \in BOOLEAN,
           NEW s, Entered(c, s, {}),
           (s = "counting" /\ stage[c] = "admitting") \/ s = "ended"
    PROVE  GInv'
  <1>0. TypeOK /\ Columns /\ CallKnown(c) /\ RequestKnown(r)
    BY DEF GInv, Sound
  <1>1. row[c] = NoRow /\ asked[c] # Nobody /\ stage[c] \in {"admitting", "ended"}
    BY <1>0, AdmissionsHaveNone
  <1>2. r # NoRow
    BY GatewayAssumption
  <1>3. /\ row'[c] = r /\ state'[r] = "reserved" /\ called' = called
        /\ \A d \in Calls \ {c} : row'[d] = row[d]
        /\ \A q \in Requests \ {r} : state'[q] = state[q]
    <2>1. \A q \in Requests : called'[q] = called[q]
      BY <1>1, <1>2, GatewayAssumption DEF Entered
    <2>2. called' = called
      BY <1>0, <2>1 DEF Entered, Columns
    <2> QED BY <1>0, <2>2 DEF Admitted, TypeOK, Columns
  <1>4. Columns'
    BY <1>0, <1>3 DEF Columns, Entered, Admitted, redis
  <1>5. ASSUME NEW d \in Calls, row[d] # NoRow
        PROVE  row[d] \in Requests \ {r} /\ d # c
    <2>1. row[d] \in Requests /\ state[row[d]] # "absent"
      BY <1>0, <1>5 DEF GInv, CallKnown, Served, Columns
    <2> QED BY <1>1, <1>5, <2>1 DEF Admitted
  <1>6. ASSUME NEW q \in Requests \ {r} PROVE Stays(q)
    BY <1>3 DEF Stays, Admitted
  <1>7. ASSUME NEW d \in Calls PROVE CallKnown(d)'
    <2>1. CASE d # c
      <3>1. /\ stage'[d] = stage[d] /\ work'[d] = work[d]
            /\ asked'[d] = asked[d] /\ answer'[d] = answer[d]
            /\ row'[d] = row[d] /\ CallKnown(d)
        BY <1>3, <2>1 DEF Entered, GInv
      <3> QED BY <1>5, <1>6, <3>1, CallStays
    <2>2. CASE d = c
      <3>1. /\ stage'[c] = s
            /\ work'[c] = IF s = "counting" THEN {"quota"} ELSE {}
        BY <1>1, WorkOfStages DEF Entered, LeftOn
      <3>2. Served(stage'[c], work'[c], "reserved", called'[r], used'[r],
                   cost'[r])
        BY <3>1 DEF Served
      <3> QED BY <1>1, <1>2, <1>3, <2>2, <3>2 DEF CallKnown, Admitted
    <2> QED BY <2>1, <2>2
  <1>8. OneCallEach'
    BY <1>3, <1>5 DEF GInv, OneCallEach
  <1>9. ASSUME NEW q \in Requests PROVE RequestKnown(q)'
    <2>1. CASE q # r
      BY <1>6, <2>1, RequestStays DEF GInv
    <2>2. CASE q = r
      BY <1>0, <1>3, <2>2 DEF RequestKnown, Admitted, MoneyBound
    <2> QED BY <2>1, <2>2
  <1>10. OneRowEach'
    <2>1. \A q \in Requests \ {r} : request'[q] = request[q]
      BY DEF Admitted
    <2> QED BY <2>1 DEF GInv, OneRowEach, Admitted, Asks
  <1>11. ReconcilersKnown'
    BY <1>0, <1>3 DEF GInv, ReconcilersKnown, Admitted, TypeOK
  <1>12. ToldIsCharged'
    <2>1. CompletedStay
      BY <1>3 DEF CompletedStay, Admitted
    <2>2. ASSUME NEW d \in Calls PROVE Told(d)'
      <3>1. Told(d)
        BY DEF GInv, ToldIsCharged, Told
      <3> QED BY <2>1, <3>1, ToldStays
    <2> QED BY <2>2 DEF ToldIsCharged, Told
  <1>13. day' = 0 /\ First \in rows'
    BY DEF GInv, Admitted
  <1> QED BY <1>4, <1>7, <1>8, <1>9, <1>10, <1>11, <1>12, <1>13 DEF GInv
(* An admission commits, its call still waiting for it or not. *)
LEMMA AdmissionReturns ==
    ASSUME GInv, NEW c \in Calls, Thread(c, "admit")
    PROVE  GInv' /\ [Next]_vars
  <1>0. Columns /\ CallKnown(c) /\ "admit" \in work[c]
    BY DEF GInv, Thread
  <1>1. /\ work[c] = {"admit"} /\ asked[c] # Nobody
        /\ stage[c] \in {"admitting", "ended"}
    BY <1>0, AdmissionsHaveNone
  <1>2. Admits(c) /\ UNCHANGED <<response, redis>>
    BY DEF Thread, Effect
  <1>3. [Next]_vars
    BY <1>1, <1>2, AdmitsWhat
  <1>4. PICK r \in Requests : Admitted(c, r)
    BY <1>1, <1>2, AdmitsWhat
  <1>5. PICK s \in Returned(c, "admit") : Enter(c, s, work[c] \ {"admit"})
    BY DEF Thread
  <1>6. IF stage[c] = "admitting" THEN s = "counting" ELSE s = "ended"
    BY <1>1, WhereReturned, WorksAre DEF Onward
  <1>7. Entered(c, s, {})
    <2>1. s \in Stages /\ work[c] \ {"admit"} = {}
      BY <1>1, <1>6, StagesAre
    <2> QED BY <1>0, <1>5, <2>1, EnterMoves
  <1>8. faults' \in 0..MaxFaults /\ disturbed' \in BOOLEAN
    BY <1>0 DEF Thread, Columns, troubles
  <1>9. UNCHANGED <<asked, answer, used>>
    BY DEF Thread
  <1> QED BY <1>0, <1>2, <1>3, <1>4, <1>6, <1>7, <1>8, <1>9, SoundStays,
             AdmissionKept

-----------------------------------------------------------------------------
(* Steps of coroutines *)

(* A step that changes nothing in the database but the provider's part of  *)
(* one request.                                                            *)
LEMMA AloneKept ==
    ASSUME GInv, NEW c \in Calls, UNCHANGED <<vars, row, response>>, Columns',
           NEW s, NEW left, Entered(c, s, left),
           \A d \in Calls \ {c} : asked'[d] = asked[d] /\ answer'[d] = answer[d],
           \A r \in Requests : r # row[c] => used'[r] = used[r],
           \A r \in Requests : r = row[c] =>
              /\ used'[r] = used[r] \/ state[r] = "dispatched"
              /\ NumbersFit(state[r], CallsOn(stage[c], s, called[r])),
           CallKnown(c)', Told(c)'
    PROVE  GInv' /\ [Next]_vars
  <1>1. Sound' /\ [Next]_vars
    BY SoundStays
  <1>2. OthersStay(c)
    BY DEF OthersStay, Entered
  <1>3. ASSUME NEW q \in Requests, q # row[c] PROVE Stays(q)
    BY <1>3 DEF Stays, Entered, vars
  <1>4. CallMoves(c)
    BY <1>2, <1>3 DEF CallMoves, CompletedStay, vars
  <1>5. ASSUME NEW r \in Requests, r = row[c] PROVE RequestKnown(r)'
    <2>1. called'[r] = CallsOn(stage[c], s, called[r])
      BY <1>5 DEF Entered
    <2>2. RequestKnown(r) /\ MoneyBound(r)' = MoneyBound(r)
      BY DEF GInv, MoneyBound, vars
    <2> QED BY <1>5, <2>1, <2>2 DEF RequestKnown, NumbersFit, vars
  <1> QED BY <1>1, <1>4, <1>5, OneCallMoves

LEMMA ArriveKept ==
    ASSUME GInv, NEW c \in Calls, NEW k \in Keys, NEW i \in Idems,
           NEW p \in Payloads, Arrive(c, k, i, p)
    PROVE  GInv' /\ [Next]_vars
  <1>0. Columns /\ CallKnown(c) /\ Told(c)
    BY DEF GInv, ToldIsCharged, Told
  <1>1. /\ stage[c] = "new" /\ row[c] = NoRow /\ answer[c] = NoAnswer
        /\ work[c] = {}
    BY <1>0 DEF Arrive, CallKnown, Served, Waiting
  <1>2. Entered(c, "admitting", {})
    BY <1>0, StagesAre, EnterMoves DEF Arrive
  <1> DEFINE a == [key |-> k, idem |-> i, payload |-> p]
  <1>3. /\ asked' = [asked EXCEPT ![c] = a] /\ a # Nobody
        /\ UNCHANGED <<vars, row, answer, used, response, redis, troubles>>
    BY DEF Arrive, Nobody
  <1>4. Columns'
    BY <1>0, <1>2, <1>3 DEF Columns, Entered, redis, troubles
  <1>5. stage'[c] = "admitting" /\ work'[c] = {"admit"} /\ asked'[c] # Nobody
    BY <1>0, <1>1, <1>2, <1>3, WorkOfStages DEF Entered, LeftOn, Columns
  <1>6. CallKnown(c)'
    BY <1>1, <1>3, <1>5 DEF CallKnown, Waiting
  <1>7. Told(c)'
    BY <1>1, <1>3 DEF Told
  <1>8. \A d \in Calls \ {c} : asked'[d] = asked[d] /\ answer'[d] = answer[d]
    BY <1>0, <1>3 DEF Columns
  <1>9. row[c] \notin Requests
    BY <1>1, GatewayAssumption
  <1> QED BY <1>2, <1>3, <1>4, <1>6, <1>7, <1>8, <1>9, AloneKept

(* The admission of a call ends without a row for it. *)
LEMMA TurnedAway ==
    ASSUME GInv, NEW c \in Calls, "admit" \in work[c],
           Enter(c, "ended", work[c] \ {"admit"}),
           UNCHANGED <<vars, asked, row, used, response, redis>>,
           faults' \in 0..MaxFaults, disturbed' \in BOOLEAN,
           answer' \in [Calls -> Usages \cup {NoAnswer}],
           \A d \in Calls \ {c} : answer'[d] = answer[d],
           Told(c)'
    PROVE  GInv' /\ [Next]_vars
  <1>0. Columns /\ CallKnown(c)
    BY DEF GInv
  <1>1. work[c] \ {"admit"} = {} /\ row[c] = NoRow
    BY <1>0, AdmissionsHaveNone
  <1>2. Entered(c, "ended", {})
    BY <1>0, <1>1, StagesAre, EnterMoves
  <1>3. Columns'
    BY <1>0, <1>2 DEF Columns, Entered, redis
  <1>4. CallKnown(c)'
    <2>1. stage'[c] = "ended" /\ work'[c] = {}
      BY <1>2, WorkOfStages DEF Entered, LeftOn
    <2> QED BY <1>1, <2>1 DEF CallKnown, Waiting
  <1>5. row[c] \notin Requests
    BY <1>1, GatewayAssumption
  <1> QED BY <1>2, <1>3, <1>4, <1>5, AloneKept

LEMMA ReplayKept ==
    ASSUME GInv, NEW c \in Calls, Replay(c)
    PROVE  GInv' /\ [Next]_vars
  <1>0. Columns /\ Told(c)
    BY DEF GInv, ToldIsCharged, Told
  <1>1. PICK r \in Replayable(asked[c]) :
          answer' = IF Awaits(c, "admit")
                      THEN [answer EXCEPT ![c] = response[r]] ELSE answer
    BY DEF Replay
  <1>2. /\ r \in Earlier(asked[c]) /\ r \in Requests
        /\ request[r].payload = asked[c].payload
        /\ state[r] = "completed" /\ response[r] # NoAnswer
    BY DEF Replayable, Earlier
  <1>3. cost[r] = response[r]
    BY <1>2 DEF GInv, RequestKnown
  <1>4. UNCHANGED <<vars, asked>> /\ response[r] \in Usages \cup {NoAnswer}
    BY <1>0, <1>2 DEF Replay, Columns
  <1>5. answer' \in [Calls -> Usages \cup {NoAnswer}]
    BY <1>0, <1>1, <1>4 DEF Columns
  <1>6. /\ \A d \in Calls \ {c} : answer'[d] = answer[d]
        /\ answer'[c] = answer[c] \/ answer'[c] = response[r]
    BY <1>0, <1>1 DEF Columns
  <1>7. Told(c)'
    <2>1. Earlier(asked[c])' = Earlier(asked[c])
      BY <1>4 DEF Earlier, vars
    <2>2. UNCHANGED <<request, state, cost>>
      BY <1>4 DEF vars
    <2> QED BY <1>0, <1>2, <1>3, <1>4, <1>6, <2>1, <2>2 DEF Told
  <1>8. faults' \in 0..MaxFaults /\ disturbed' \in BOOLEAN
    BY <1>0 DEF Replay, Columns, troubles
  <1> QED BY <1>5, <1>6, <1>7, <1>8, TurnedAway DEF Replay

(* Nothing the client was told changes. *)
LEMMA ToldUnchanged ==
    ASSUME GInv, NEW c \in Calls, UNCHANGED <<vars, asked, answer>>
    PROVE  Told(c)'
  <1>1. Told(c)
    BY DEF GInv, ToldIsCharged, Told
  <1>2. CompletedStay
    BY DEF CompletedStay, vars
  <1> QED BY <1>1, <1>2, ToldStays

LEMMA RefuseKept ==
    ASSUME GInv, NEW c \in Calls, Refuse(c)
    PROVE  GInv' /\ [Next]_vars
  <1>1. Columns
    BY DEF GInv
  <1>2. Told(c)'
    BY ToldUnchanged DEF Refuse
  <1>3. faults' \in 0..MaxFaults /\ disturbed' \in BOOLEAN
    BY <1>1 DEF Refuse, Columns, troubles
  <1> QED BY <1>1, <1>2, <1>3, TurnedAway DEF Refuse, Columns

(* An admission raises an exception, committed or not. *)
LEMMA AdmissionFails ==
    ASSUME GInv, NEW c \in Calls, ThreadFails(c, "admit")
    PROVE  GInv' /\ [Next]_vars
  <1>0. Columns /\ CallKnown(c) /\ "admit" \in work[c]
    BY DEF GInv, ThreadFails
  <1>1. /\ work[c] = {"admit"} /\ asked[c] # Nobody
        /\ stage[c] \in {"admitting", "ended"}
    BY <1>0, AdmissionsHaveNone
  <1>2. Raised(c, "admit") = "ended"
    BY <1>1 DEF Raised, Awaits, StageOf
  <1>3. Enter(c, "ended", work[c] \ {"admit"})
    BY <1>2 DEF ThreadFails
  <1>4. /\ UNCHANGED <<asked, answer, used>>
        /\ faults' \in 0..MaxFaults /\ disturbed' \in BOOLEAN
    BY <1>0, FaultCounted DEF ThreadFails
  <1>5. CASE Nothing
    <2>1. Told(c)'
      BY <1>4, <1>5, ToldUnchanged DEF Nothing
    <2> QED BY <1>0, <1>3, <1>4, <1>5, <2>1, TurnedAway DEF Nothing, Columns
  <1>6. CASE Effect(c, "admit")
    <2>1. Admits(c) /\ UNCHANGED <<response, redis>>
      BY <1>6 DEF Effect
    <2>2. [Next]_vars
      BY <1>1, <2>1, AdmitsWhat
    <2>3. PICK r \in Requests : Admitted(c, r)
      BY <1>1, <2>1, AdmitsWhat
    <2>4. work[c] \ {"admit"} = {}
      BY <1>1
    <2>5. Entered(c, "ended", {})
      BY <1>0, <1>3, <2>4, StagesAre, EnterMoves
    <2> QED BY <1>0, <1>4, <2>1, <2>2, <2>3, <2>5, SoundStays, AdmissionKept
  <1> QED BY <1>5, <1>6 DEF ThreadFails
(* An admitted call goes on to another row of the table. *)
LEMMA GoesOnKept ==
    ASSUME GInv, NEW c \in Calls, row[c] \in Requests,
           UNCHANGED <<vars, row, response, asked, redis>>,
           faults' \in 0..MaxFaults, disturbed' \in BOOLEAN,
           NEW s \in Stages, NEW left \in SUBSET Works, Enter(c, s, left),
           used' \in [Requests -> Usages \cup {NoAnswer}],
           \A r \in Requests : r # row[c] => used'[r] = used[r],
           used'[row[c]] = used[row[c]] \/ state[row[c]] = "dispatched",
           answer' \in [Calls -> Usages \cup {NoAnswer}],
           \A d \in Calls \ {c} : answer'[d] = answer[d],
           Told(c)',
           Served(s, LeftOn(stage[c], s, left), state[row[c]],
                  CallsOn(stage[c], s, called[row[c]]), used'[row[c]],
                  cost[row[c]]),
           NumbersFit(state[row[c]], CallsOn(stage[c], s, called[row[c]]))
    PROVE  GInv' /\ [Next]_vars
  <1>0. Columns /\ CallKnown(c) /\ row[c] # NoRow
    BY GatewayAssumption DEF GInv
  <1>1. Entered(c, s, left)
    BY <1>0, EnterMoves
  <1>2. Columns'
    BY <1>0, <1>1 DEF Columns, Entered, redis
  <1>3. CallKnown(c)'
    <2>1. /\ stage'[c] = s /\ work'[c] = LeftOn(stage[c], s, left)
          /\ called'[row[c]] = CallsOn(stage[c], s, called[row[c]])
      BY <1>1 DEF Entered
    <2>2. UNCHANGED <<row, request, state, cost, asked>>
      BY DEF vars
    <2> QED BY <1>0, <2>1, <2>2 DEF CallKnown
  <1> QED BY <1>1, <1>2, <1>3, AloneKept

(* The row of the table that a stage beyond the admission belongs to. *)
LEMMA StageTells ==
    ASSUME GInv, NEW c \in Calls,
           stage[c] \in {"ready", "calling", "settling", "replying", "marking"}
    PROVE  /\ row[c] \in Requests /\ row[c] # NoRow
           /\ work[c] \in SUBSET Works
           /\ state[row[c]] \in States
           /\ request[row[c]] # Nobody /\ Asks(asked[c], request[row[c]])
           /\ NumbersFit(state[row[c]], called[row[c]])
           /\ Served(stage[c], work[c], state[row[c]], called[row[c]],
                     used[row[c]], cost[row[c]])
  <1>1. Columns /\ CallKnown(c) /\ TypeOK
    BY DEF GInv, Sound
  <1>2. row[c] # NoRow
    BY <1>1 DEF CallKnown, Waiting
  <1>3. row[c] \in Requests /\ RequestKnown(row[c])
    BY <1>1, <1>2 DEF Columns, GInv
  <1> QED BY <1>1, <1>2, <1>3
          DEF CallKnown, Columns, TypeOK, RequestKnown, NumbersFit

LEMMA StartKept ==
    ASSUME GInv, NEW c \in Calls, StartStream(c)
    PROVE  GInv' /\ [Next]_vars
  <1> DEFINE r == row[c]
  <1>0. Columns
    BY DEF GInv
  <1>1. stage[c] = "ready" /\ Enter(c, "calling", work[c]) /\ "calling" \in Stages
    BY StagesAre DEF StartStream
  <1>2. /\ r \in Requests /\ work[c] = {} /\ state[r] = "dispatched"
        /\ called[r] = 0
    BY <1>1, StageTells DEF Served
  <1>3. /\ LeftOn(stage[c], "calling", work[c]) = {}
        /\ CallsOn(stage[c], "calling", called[r]) = 1
    BY <1>1, <1>2, WorkOfStages DEF LeftOn, CallsOn
  <1>4. /\ Served("calling", {}, state[r], 1, used[r], cost[r])
        /\ NumbersFit(state[r], 1)
    BY <1>2 DEF Served, NumbersFit
  <1>5. UNCHANGED <<vars, asked, row, answer, used, response, redis, troubles>>
    BY DEF StartStream
  <1>6. /\ faults' \in 0..MaxFaults /\ disturbed' \in BOOLEAN
        /\ used' \in [Requests -> Usages \cup {NoAnswer}]
        /\ answer' \in [Calls -> Usages \cup {NoAnswer}]
        /\ Told(c)'
    BY <1>0, <1>5, ToldUnchanged DEF Columns, troubles
  <1>7. work[c] \in SUBSET Works
    BY <1>2
  <1> HIDE DEF r
  <1> QED BY <1>1, <1>2, <1>3, <1>4, <1>5, <1>6, <1>7, GoesOnKept DEF r

LEMMA AnswerKept ==
    ASSUME GInv, NEW c \in Calls, NEW u \in Usages, ProviderAnswers(c, u)
    PROVE  GInv' /\ [Next]_vars
  <1> DEFINE r == row[c]
  <1>0. Columns
    BY DEF GInv
  <1>1. /\ stage[c] = "calling" /\ Enter(c, "settling", work[c])
        /\ "settling" \in Stages
    BY StagesAre DEF ProviderAnswers
  <1>2. /\ r \in Requests /\ work[c] = {} /\ state[r] = "dispatched"
        /\ called[r] = 1
    BY <1>1, StageTells DEF Served
  <1>3. /\ LeftOn(stage[c], "settling", work[c]) = {"settle"}
        /\ CallsOn(stage[c], "settling", called[r]) = 1
    BY <1>1, <1>2, WorkOfStages DEF LeftOn, CallsOn
  <1>4. /\ used' = [used EXCEPT ![r] = u]
        /\ UNCHANGED <<vars, asked, row, answer, response, redis, troubles>>
    BY DEF ProviderAnswers
  <1>5. /\ used'[r] = u /\ \A q \in Requests : q # r => used'[q] = used[q]
        /\ used' \in [Requests -> Usages \cup {NoAnswer}]
    BY <1>0, <1>2, <1>4 DEF Columns
  <1>6. u # NoAnswer
    BY NumbersAssumption DEF NoAnswer
  <1>7. /\ Served("settling", {"settle"}, state[r], 1, used'[r], cost[r])
        /\ NumbersFit(state[r], 1)
    BY <1>2, <1>5, <1>6 DEF Served, NumbersFit
  <1>8. /\ faults' \in 0..MaxFaults /\ disturbed' \in BOOLEAN
        /\ answer' \in [Calls -> Usages \cup {NoAnswer}]
        /\ Told(c)'
    BY <1>0, <1>4, ToldUnchanged DEF Columns, troubles
  <1>9. work[c] \in SUBSET Works
    BY <1>2
  <1>10. /\ UNCHANGED <<vars, row, response, asked, redis>>
         /\ \A d \in Calls \ {c} : answer'[d] = answer[d]
    BY <1>4
  <1>11. /\ Served("settling", LeftOn(stage[c], "settling", work[c]), state[r],
                   CallsOn(stage[c], "settling", called[r]), used'[r], cost[r])
         /\ NumbersFit(state[r], CallsOn(stage[c], "settling", called[r]))
    BY <1>3, <1>7
  <1> QED BY <1>1, <1>2, <1>5, <1>8, <1>9, <1>10, <1>11, GoesOnKept

LEMMA ProviderFailureKept ==
    ASSUME GInv, NEW c \in Calls, ProviderFails(c)
    PROVE  GInv' /\ [Next]_vars
  <1> DEFINE r == row[c]
  <1>0. Columns
    BY DEF GInv
  <1>1. /\ stage[c] = "calling" /\ Enter(c, "marking", work[c])
        /\ "marking" \in Stages
    BY StagesAre DEF ProviderFails
  <1>2. /\ r \in Requests /\ work[c] = {} /\ state[r] = "dispatched"
        /\ called[r] = 1
    BY <1>1, StageTells DEF Served
  <1>3. /\ LeftOn(stage[c], "marking", work[c]) = {"uncertain"}
        /\ CallsOn(stage[c], "marking", called[r]) = 1
    BY <1>1, <1>2, WorkOfStages DEF LeftOn, CallsOn
  <1>4. /\ Served("marking", {"uncertain"}, state[r], 1, used[r], cost[r])
        /\ NumbersFit(state[r], 1)
    BY <1>2 DEF Served, NumbersFit
  <1>5. UNCHANGED <<vars, asked, row, answer, used, response, redis, troubles>>
    BY DEF ProviderFails
  <1>6. /\ faults' \in 0..MaxFaults /\ disturbed' \in BOOLEAN
        /\ used' \in [Requests -> Usages \cup {NoAnswer}]
        /\ answer' \in [Calls -> Usages \cup {NoAnswer}]
        /\ Told(c)'
    BY <1>0, <1>5, ToldUnchanged DEF Columns, troubles
  <1>7. work[c] \in SUBSET Works
    BY <1>2
  <1> HIDE DEF r
  <1> QED BY <1>1, <1>2, <1>3, <1>4, <1>5, <1>6, <1>7, GoesOnKept DEF r

(* The client is told what its request was charged. *)
LEMMA ReplyKept ==
    ASSUME GInv, NEW c \in Calls, Reply(c)
    PROVE  GInv' /\ [Next]_vars
  <1> DEFINE r == row[c]
             s == IF Streams(c) THEN "ended" ELSE "marking"
             left == IF Streams(c) THEN {} ELSE {"uncertain"}
  <1>0. Columns
    BY DEF GInv
  <1>1. stage[c] = "replying" /\ Enter(c, s, work[c]) /\ s \in Stages
    BY StagesAre DEF Reply
  <1>2. /\ r \in Requests /\ work[c] = {} /\ state[r] = "completed"
        /\ called[r] = 1 /\ used[r] # NoAnswer /\ cost[r] = used[r]
        /\ request[r] # Nobody /\ Asks(asked[c], request[r])
    BY <1>1, StageTells DEF Served
  <1>3. /\ LeftOn(stage[c], s, work[c]) = left
        /\ CallsOn(stage[c], s, called[r]) = 1
    BY <1>1, <1>2, WorkOfStages DEF LeftOn, CallsOn
  <1>4. /\ Served(s, left, state[r], 1, used[r], cost[r])
        /\ NumbersFit(state[r], 1)
    BY <1>2 DEF Served, NumbersFit
  <1>5. /\ answer' = [answer EXCEPT ![c] = used[r]]
        /\ UNCHANGED <<vars, asked, row, used, response, redis, troubles>>
    BY DEF Reply
  <1>6. /\ answer'[c] = used[r]
        /\ \A d \in Calls \ {c} : answer'[d] = answer[d]
        /\ answer' \in [Calls -> Usages \cup {NoAnswer}]
    BY <1>0, <1>2, <1>5 DEF Columns
  <1>7. Told(c)'
    <2>1. r \in Earlier(asked[c])' /\ request[r].payload = asked[c].payload
      BY <1>2, <1>5 DEF Earlier, Asks, vars
    <2>2. UNCHANGED <<request, state, cost, asked>>
      BY <1>5 DEF vars
    <2> QED BY <1>2, <1>6, <2>1, <2>2 DEF Told
  <1>8. /\ faults' \in 0..MaxFaults /\ disturbed' \in BOOLEAN
        /\ used' \in [Requests -> Usages \cup {NoAnswer}]
    BY <1>0, <1>5 DEF Columns, troubles
  <1>9. work[c] \in SUBSET Works
    BY <1>2
  <1> HIDE DEF r, s, left
  <1> QED BY <1>1, <1>2, <1>3, <1>4, <1>5, <1>6, <1>7, <1>8, <1>9, GoesOnKept
          DEF r
-----------------------------------------------------------------------------
(* Cancellation, shutdown and crash *)

(* Where a coroutine goes that is cancelled in stage s. *)
Gone(s) ==
    IF s \in {"calling", "settling", "replying"} THEN "marking" ELSE "ended"
Flying(s) == s \notin {"new", "ended"}
Regained(s) == IF Flying(s) /\ s # "marking" THEN WorkOf(Gone(s)) ELSE {}
Stopped(s) == IF Flying(s) THEN Gone(s) ELSE s

LEMMA FewSubsets ==
    ASSUME NEW a, NEW b, NEW t
    PROVE  /\ t \subseteq {} => t = {}
           /\ t \subseteq {a} => t \in {{}, {a}}
           /\ t \subseteq {a, b} => t \in {{}, {a}, {b}, {a, b}}
  OBVIOUS

(* A cancelled call, whatever of its threads' work was withdrawn, is in    *)
(* the table.                                                              *)
LEMMA StopServes ==
    ASSUME NEW s, NEW left, NEW st, NEW n, NEW u, NEW k,
           Served(s, left, st, n, u, k), NEW kept, kept \subseteq left
    PROVE  Served(Stopped(s), kept \cup Regained(s), st, n, u, k)
  <1>1. CASE s \in {"counting", "releasing", "dispatching", "ready"}
    <2>1. Stopped(s) = "ended" /\ Regained(s) = {} /\ st # "absent"
      BY <1>1, WorkOfStages DEF Stopped, Regained, Flying, Gone, Served
    <2>2. kept = {} \/ kept = left
      BY <1>1, FewSubsets DEF Served
    <2>3. left \in {{"quota"}, {"release"}, {"dispatch"}} => st = "reserved"
      BY <1>1 DEF Served
    <2> QED BY <1>1, <2>1, <2>2 DEF Served
  <1>2. CASE s \in {"calling", "settling", "replying"}
    <2>1. Stopped(s) = "marking" /\ Regained(s) = {"uncertain"}
      BY <1>2, WorkOfStages DEF Stopped, Regained, Flying, Gone
    <2>2. /\ st \in {"dispatched", "completed"} /\ n = 1
          /\ kept = {} \/ (kept = {"settle"} /\ u # NoAnswer)
      BY <1>2, FewSubsets DEF Served
    <2>3. kept \cup Regained(s) \in {{"uncertain"}, {"settle", "uncertain"}}
      BY <2>1, <2>2
    <2>4. kept \cup Regained(s) = {"settle", "uncertain"} => u # NoAnswer
      BY <2>1, <2>2
    <2> QED BY <2>1, <2>2, <2>3, <2>4 DEF Served
  <1>3. CASE s \in {"marking", "ended"}
    <2>1. /\ Stopped(s) = "ended" /\ Regained(s) = {}
          /\ kept \cup Regained(s) = kept
      BY <1>3 DEF Stopped, Regained, Flying, Gone
    <2>2. st # "absent"
      BY <1>3 DEF Served
    <2>3. kept \in {{}, left, {"settle"}, {"uncertain"}}
      BY <1>3, FewSubsets DEF Served
    <2>4. kept # {} /\ kept # left =>
            /\ left = {"settle", "uncertain"}
            /\ st \in {"dispatched", "completed"} /\ n = 1 /\ u # NoAnswer
      BY <1>3, FewSubsets DEF Served
    <2>5. CASE kept = {}
      BY <2>1, <2>2, <2>5 DEF Served
    <2>6. CASE kept = left
      BY <1>3, <2>1, <2>6 DEF Served
    <2>7. CASE kept # {} /\ kept # left
      BY <2>1, <2>3, <2>4, <2>7 DEF Served
    <2> QED BY <2>5, <2>6, <2>7
  <1> QED BY <1>1, <1>2, <1>3 DEF Served

LEMMA StopWaits ==
    ASSUME NEW s, NEW left, NEW a, NEW told, Waiting(s, left, a, told),
           NEW kept, kept \subseteq left
    PROVE  Waiting(Stopped(s), kept \cup Regained(s), a, told)
  <1>1. s \in {"new", "admitting", "ended"}
    BY DEF Waiting
  <1>2. Regained(s) = {} /\ Stopped(s) = IF s = "new" THEN "new" ELSE "ended"
    BY <1>1, WorkOfStages DEF Regained, Stopped, Flying, Gone
  <1>3. kept = {} \/ kept = left
    BY FewSubsets DEF Waiting
  <1> QED BY <1>1, <1>2, <1>3 DEF Waiting

(* Every call may be stopped at once. *)
LEMMA AllStopped ==
    ASSUME GInv, Columns',
           UNCHANGED <<vars, asked, row, answer, called, used, response>>,
           \A c \in Calls : CallKnown(c)'
    PROVE  GInv' /\ [Next]_vars
  <1>1. Sound' /\ [Next]_vars
    BY SoundStays
  <1>2. OneCallEach' /\ OneRowEach' /\ ReconcilersKnown'
    BY DEF GInv, OneCallEach, OneRowEach, ReconcilersKnown, vars
  <1>3. \A r \in Requests : RequestKnown(r)'
    BY DEF GInv, RequestKnown, MoneyBound, vars
  <1>4. ToldIsCharged'
    BY DEF GInv, ToldIsCharged, Earlier, vars
  <1>5. day' = 0 /\ First \in rows'
    BY DEF GInv, vars
  <1> QED BY <1>1, <1>2, <1>3, <1>4, <1>5 DEF GInv

LEMMA StoppedKnown ==
    ASSUME GInv, UNCHANGED <<vars, asked, row, answer, called, used>>,
           NEW c \in Calls, NEW kept, kept \subseteq work[c],
           stage'[c] = Stopped(stage[c]),
           work'[c] = kept \cup Regained(stage[c])
    PROVE  CallKnown(c)'
  <1>1. CallKnown(c)
    BY DEF GInv
  <1>2. UNCHANGED <<request, state, cost>>
    BY DEF vars
  <1>3. CASE row[c] = NoRow
    BY <1>1, <1>2, <1>3, StopWaits DEF CallKnown
  <1>4. CASE row[c] # NoRow
    <2>1. Served(stage[c], work[c], state[row[c]], called[row[c]],
                 used[row[c]], cost[row[c]])
      BY <1>1, <1>4 DEF CallKnown
    <2>2. Served(stage'[c], work'[c], state[row[c]], called[row[c]],
                 used[row[c]], cost[row[c]])
      BY <2>1, StopServes
    <2> QED BY <1>1, <1>2, <1>4, <2>2 DEF CallKnown
  <1> QED BY <1>3, <1>4

LEMMA CancelledStops ==
    ASSUME NEW c
    PROVE  /\ Cancelled(c) = Gone(stage[c])
           /\ InFlight(c) <=> Flying(stage[c])
  BY DEF Cancelled, Gone, InFlight, Flying

LEMMA StoppedIsStage ==
    ASSUME NEW s \in Stages
    PROVE  Stopped(s) \in Stages /\ Regained(s) \in SUBSET Works
  BY StagesAre, WorksAre, WorkOfStages DEF Stopped, Regained, Gone

LEMMA ShutdownKept ==
    ASSUME GInv, Shutdown
    PROVE  GInv' /\ [Next]_vars
  <1>0. Columns
    BY DEF GInv
  <1>1. PICK kept \in SUBSET {t \in Calls \X Works : t[2] \in work[t[1]]} :
           work' = [c \in Calls |->
                      {w \in Works : <<c, w>> \in kept}
                        \cup (IF InFlight(c) /\ stage[c] # "marking"
                                THEN WorkOf(Cancelled(c)) ELSE {})]
    BY DEF Shutdown
  <1>2. /\ stage' = [c \in Calls |-> IF InFlight(c) THEN Cancelled(c)
                                      ELSE stage[c]]
        /\ UNCHANGED <<vars, asked, row, answer, provider, response, redis>>
    BY DEF Shutdown
  <1> DEFINE K(c) == {w \in Works : <<c, w>> \in kept}
  <1>3. ASSUME NEW c \in Calls
        PROVE  /\ K(c) \subseteq work[c] /\ K(c) \in SUBSET Works
               /\ stage'[c] = Stopped(stage[c])
               /\ work'[c] = K(c) \cup Regained(stage[c])
    BY <1>1, <1>2, CancelledStops DEF Stopped, Regained
  <1> HIDE DEF K
  <1>4. UNCHANGED <<vars, asked, row, answer, called, used, response>>
    BY <1>2 DEF provider
  <1>5. \A c \in Calls : CallKnown(c)'
    BY <1>3, <1>4, StoppedKnown
  <1>6. stage' \in [Calls -> Stages] /\ work' \in [Calls -> SUBSET Works]
    <2>1. ASSUME NEW c \in Calls
          PROVE  stage'[c] \in Stages /\ work'[c] \in SUBSET Works
      <3>1. stage[c] \in Stages
        BY <1>0 DEF Columns
      <3> QED BY <1>3, <3>1, StoppedIsStage
    <2>2. stage' = [c \in Calls |-> stage'[c]]
      BY <1>2
    <2>3. work' = [c \in Calls |-> work'[c]]
      BY <1>1
    <2> QED BY <2>1, <2>2, <2>3
  <1>7. faults' \in 0..MaxFaults /\ disturbed' \in BOOLEAN
    BY <1>0, FaultCounted DEF Shutdown
  <1>8. Columns'
    BY <1>0, <1>2, <1>4, <1>6, <1>7 DEF Columns, redis
  <1> QED BY <1>4, <1>5, <1>8, AllStopped

LEMMA CrashKept ==
    ASSUME GInv, Crash
    PROVE  GInv' /\ [Next]_vars
  <1>0. Columns
    BY DEF GInv
  <1>1. /\ stage' = [c \in Calls |-> IF InFlight(c) THEN "ended" ELSE stage[c]]
        /\ work' = [c \in Calls |-> {}]
        /\ UNCHANGED <<vars, asked, row, answer, provider, response, redis>>
    BY DEF Crash
  <1>2. UNCHANGED <<vars, asked, row, answer, called, used, response>>
    BY <1>1 DEF provider
  <1>3. ASSUME NEW c \in Calls PROVE CallKnown(c)'
    <2>1. CallKnown(c)
      BY DEF GInv
    <2>2. /\ stage'[c] = IF Flying(stage[c]) THEN "ended" ELSE stage[c]
          /\ work'[c] = {}
      BY <1>1, CancelledStops
    <2>3. UNCHANGED <<request, state, cost>>
      BY <1>2 DEF vars
    <2>4. CASE row[c] = NoRow
      BY <1>2, <2>1, <2>2, <2>3, <2>4 DEF CallKnown, Waiting, Flying
    <2>5. CASE row[c] # NoRow
      <3>1. stage'[c] = "ended" /\ state[row[c]] # "absent"
        BY <2>1, <2>2, <2>5 DEF CallKnown, Served, Flying
      <3> QED BY <1>2, <2>1, <2>2, <2>3, <2>5, <3>1 DEF CallKnown, Served
    <2> QED BY <2>4, <2>5
  <1>4. faults' \in 0..MaxFaults /\ disturbed' \in BOOLEAN
    BY <1>0, FaultCounted DEF Crash
  <1>5. Columns'
    BY <1>0, <1>1, <1>2, <1>4, StagesAre DEF Columns, redis
  <1> QED BY <1>2, <1>3, <1>5, AllStopped

LEMMA DisconnectKept ==
    ASSUME GInv, NEW c \in Calls, Disconnect(c)
    PROVE  GInv' /\ [Next]_vars
  <1> DEFINE r == row[c]
             s == Gone(stage[c])
  <1>0. Columns
    BY DEF GInv
  <1>1. stage[c] \in {"ready", "calling", "settling", "replying", "marking"}
    BY DEF Disconnect
  <1>2. PICK left \in SUBSET work[c] : Enter(c, s, left)
    BY CancelledStops DEF Disconnect
  <1>3. /\ r \in Requests /\ work[c] \in SUBSET Works /\ state[r] \in States
        /\ NumbersFit(state[r], called[r])
        /\ Served(stage[c], work[c], state[r], called[r], used[r], cost[r])
    BY <1>1, StageTells
  <1>4. /\ s = Stopped(stage[c]) /\ s # "calling" /\ s \in Stages
        /\ LeftOn(stage[c], s, left) = left \cup Regained(stage[c])
    BY <1>1, WorkOfStages, StagesAre
    DEF Gone, Stopped, Flying, LeftOn, Regained
  <1>5. Served(s, LeftOn(stage[c], s, left), state[r], called[r], used[r],
               cost[r])
    BY <1>3, <1>4, StopServes
  <1>6. CallsOn(stage[c], s, called[r]) = called[r]
    BY <1>4 DEF CallsOn
  <1>7. UNCHANGED <<vars, asked, row, answer, used, response, redis>>
    BY DEF Disconnect
  <1>8. /\ faults' \in 0..MaxFaults /\ disturbed' \in BOOLEAN
        /\ used' \in [Requests -> Usages \cup {NoAnswer}]
        /\ answer' \in [Calls -> Usages \cup {NoAnswer}]
        /\ Told(c)'
    BY <1>0, <1>7, FaultCounted, ToldUnchanged DEF Disconnect, Columns
  <1>9. left \in SUBSET Works
    BY <1>3
  <1> HIDE DEF r, s
  <1> QED BY <1>2, <1>3, <1>4, <1>5, <1>6, <1>7, <1>8, <1>9, GoesOnKept DEF r
LEMMA WindowKept ==
    ASSUME GInv, WindowEnds
    PROVE  GInv' /\ [Next]_vars
  <1>1. UNCHANGED <<vars, stage, work, asked, row, answer, called, used,
                    response>>
    BY DEF WindowEnds, provider
  <1>2. Columns'
    BY <1>1 DEF GInv, Columns, WindowEnds, troubles
  <1>3. ASSUME NEW c \in Calls PROVE CallKnown(c)'
    BY <1>1 DEF GInv, CallKnown, vars
  <1> QED BY <1>1, <1>2, <1>3, AllStopped

-----------------------------------------------------------------------------
(* Reconciliation *)

(* An operator may settle a request behind its call's back: the table      *)
(* knows, where the request may be uncertain, that it may be completed.    *)
LEMMA ReconcilesKept ==
    ASSUME GInv, Reconciles
    PROVE  GInv' /\ [Next]_vars
  <1>0. TypeOK /\ Columns
    BY DEF GInv, Sound
  <1>1. /\ [Next]_vars /\ Sound' /\ UNCHANGED callvars
        /\ UNCHANGED <<stage, work, asked, row, answer, called, used, response,
                       count, expiring, faults, disturbed>>
    <2>1. [Next]_vars
      BY DEF Reconciles, Next
    <2> QED BY <2>1, SoundStays
            DEF Reconciles, callvars, provider, redis, troubles
  <1>2. Columns'
    BY <1>0, <1>1 DEF Columns
  <1>3. ASSUME NEW x \in Admins, NEW r \in Requests, ReconcileCheck(x, r)
        PROVE  GInv'
    <2>1. /\ UNCHANGED <<day, rows, state, cost, request, reservation>>
          /\ reconciling' = [reconciling EXCEPT ![x] = r]
          /\ state[r] \in {"uncertain", "completed"}
      BY <1>3 DEF ReconcileCheck, controls, books
    <2>2. \A c \in Calls : CallKnown(c)'
      BY <1>1, <2>1 DEF GInv, CallKnown
    <2>3. \A q \in Requests : RequestKnown(q)'
      BY <1>1, <2>1 DEF GInv, RequestKnown, MoneyBound
    <2>4. OneCallEach' /\ OneRowEach' /\ ToldIsCharged'
      BY <1>1, <2>1 DEF GInv, OneCallEach, OneRowEach, ToldIsCharged, Earlier
    <2>5. ReconcilersKnown'
      BY <1>0, <2>1 DEF GInv, ReconcilersKnown, TypeOK
    <2>6. day' = 0 /\ First \in rows'
      BY <2>1 DEF GInv
    <2> QED BY <1>1, <1>2, <2>2, <2>3, <2>4, <2>5, <2>6 DEF GInv
  <1>4. ASSUME NEW x \in Admins, ReconcileSettle(x)
        PROVE  GInv'
    <2> DEFINE r == reconciling[x]
    <2>1. /\ r # Idle /\ r \in Requests
          /\ state[r] \in {"uncertain", "completed"}
          /\ reconciling' = [reconciling EXCEPT ![x] = Idle]
      BY <1>0, <1>4 DEF ReconcileSettle, TypeOK, GInv, ReconcilersKnown
    <2>2. /\ UNCHANGED <<day, rows, request, reservation>>
          /\ \A q \in Requests \ {r} : state'[q] = state[q] /\ cost'[q] = cost[q]
          /\ \/ state'[r] = state[r] /\ cost'[r] = cost[r]
             \/ /\ state[r] = "uncertain" /\ state'[r] = "completed"
                /\ cost'[r] = MoneyBound(r)
      <3>1. ASSUME UNCHANGED books, UNCHANGED <<day, controls>>
            PROVE  UNCHANGED <<day, rows, request, reservation, state, cost>>
        BY <3>1 DEF books, controls
      <3>2. ASSUME Settle(r, "completed", MoneyBound(r), reservation[r])
            PROVE  /\ state' = [state EXCEPT ![r] = "completed"]
                   /\ cost' = [cost EXCEPT ![r] = MoneyBound(r)]
                   /\ state[r] = "uncertain"
                   /\ UNCHANGED <<day, rows, request, reservation>>
        BY <2>1, <3>2 DEF Settle, MaySettle, Final, controls
      <3>3. CASE UNCHANGED books /\ UNCHANGED <<day, controls>>
        BY <3>1, <3>3
      <3>4. CASE Settle(r, "completed", MoneyBound(r), reservation[r])
        BY <1>0, <2>1, <3>2, <3>4 DEF TypeOK
      <3> QED BY <1>4, <3>3, <3>4 DEF ReconcileSettle
    <2> HIDE DEF r
    <2>3. ASSUME NEW c \in Calls PROVE CallKnown(c)'
      <3>1. CallKnown(c) /\ (row[c] # NoRow => row[c] \in Requests)
        BY <1>0 DEF GInv, Columns
      <3>2. CASE row[c] = NoRow
        BY <1>1, <3>1, <3>2 DEF CallKnown
      <3>3. CASE row[c] # NoRow /\ state'[row[c]] = state[row[c]]
                   /\ cost'[row[c]] = cost[row[c]]
        BY <1>1, <2>2, <3>1, <3>3 DEF CallKnown
      <3>4. CASE row[c] = r /\ state[r] = "uncertain" /\ state'[r] = "completed"
        <4>1. Served(stage[c], work[c], "uncertain", called[r], used[r],
                     cost[r])
          BY <2>1, <3>1, <3>4, GatewayAssumption DEF CallKnown
        <4>2. Served(stage[c], work[c], "completed", called[r], used[r],
                     cost'[r])
          BY <4>1 DEF Served
        <4> QED BY <1>1, <2>1, <2>2, <3>1, <3>4, <4>2, GatewayAssumption
                DEF CallKnown
      <3> QED BY <2>2, <3>1, <3>2, <3>3, <3>4
    <2>4. ASSUME NEW q \in Requests PROVE RequestKnown(q)'
      <3>1. RequestKnown(q) /\ MoneyBound(q)' = MoneyBound(q)
        BY <2>2 DEF GInv, MoneyBound
      <3> QED BY <1>1, <2>1, <2>2, <3>1 DEF RequestKnown
    <2>5. OneCallEach' /\ OneRowEach'
      BY <1>1, <2>2 DEF GInv, OneCallEach, OneRowEach
    <2>6. ReconcilersKnown'
      BY <1>0, <2>1, <2>2 DEF GInv, ReconcilersKnown, TypeOK
    <2>7. ToldIsCharged'
      <3>1. CompletedStay
        BY <2>2 DEF CompletedStay
      <3>2. ASSUME NEW c \in Calls PROVE Told(c)'
        <4>1. Told(c)
          BY DEF GInv, ToldIsCharged, Told
        <4> QED BY <1>1, <3>1, <4>1, ToldStays
      <3> QED BY <3>2 DEF ToldIsCharged, Told
    <2>8. day' = 0 /\ First \in rows'
      BY <2>2 DEF GInv
    <2> QED BY <1>1, <1>2, <2>3, <2>4, <2>5, <2>6, <2>7, <2>8 DEF GInv
  <1> QED BY <1>1, <1>3, <1>4 DEF Reconciles
-----------------------------------------------------------------------------
(* The invariant *)

LEMMA CallsInitially == CallsInit => GInv
  <1> SUFFICES ASSUME CallsInit PROVE GInv
    OBVIOUS
  <1> USE DEF CallsInit
  <1>1. Sound
    BY SoundInitially
  <1>2. Columns
    <2>1. stage \in [Calls -> Stages] /\ work \in [Calls -> SUBSET Works]
      BY StagesAre
    <2>2. /\ asked \in [Calls -> [key : Keys, idem : Idems, payload : Payloads]
                                 \cup {Nobody}]
          /\ row \in [Calls -> Requests \cup {NoRow}]
          /\ answer \in [Calls -> Usages \cup {NoAnswer}]
      OBVIOUS
    <2>3. /\ called \in [Requests -> Nat]
          /\ used \in [Requests -> Usages \cup {NoAnswer}]
          /\ response \in [Requests -> Usages \cup {NoAnswer}]
      OBVIOUS
    <2>4. count \in Nat /\ faults \in 0..MaxFaults
      BY GatewayAssumption
    <2>5. expiring \in BOOLEAN /\ disturbed \in BOOLEAN
      BY Zenon
    <2> QED BY <2>1, <2>2, <2>3, <2>4, <2>5 DEF Columns
  <1>3. \A c \in Calls : CallKnown(c)
    BY DEF CallKnown, Waiting
  <1>4. \A r \in Requests : RequestKnown(r)
    BY DEF RequestKnown, Init
  <1>5. OneCallEach /\ OneRowEach /\ ReconcilersKnown /\ ToldIsCharged
    BY DEF OneCallEach, OneRowEach, ReconcilersKnown, ToldIsCharged, Init
  <1>6. day = 0 /\ First \in rows
    BY DEF Init
  <1> QED BY <1>1, <1>2, <1>3, <1>4, <1>5, <1>6 DEF GInv

(* Every step of the gateway keeps the invariant and is a step of          *)
(* Accounting, or none.                                                    *)
LEMMA CallsStep ==
    ASSUME GInv, [CallsNext]_allvars
    PROVE  GInv' /\ [Next]_vars
  <1>1. ASSUME NEW c \in Calls, Runs(c)
        PROVE  GInv' /\ [Next]_vars
    <2>1. ASSUME NEW w \in Works, Thread(c, w)
          PROVE  GInv' /\ [Next]_vars
      BY <2>1, ThreadKept, AdmissionReturns
    <2> QED BY <1>1, <2>1, ReplayKept, RefuseKept, StartKept, AnswerKept,
               ProviderFailureKept, ReplyKept DEF Runs
  <1>2. ASSUME NEW c \in Calls, NEW w \in Works, ThreadFails(c, w)
        PROVE  GInv' /\ [Next]_vars
    BY <1>2, FailureKept, AdmissionFails
  <1>3. CASE UNCHANGED allvars
    <2>1. UNCHANGED <<vars, stage, work, asked, row, answer, called, used,
                      response, count, expiring, faults, disturbed>>
      BY <1>3 DEF allvars, callvars, provider, redis, troubles
    <2>2. Columns'
      BY <2>1 DEF GInv, Columns
    <2>3. ASSUME NEW c \in Calls PROVE CallKnown(c)'
      BY <2>1 DEF GInv, CallKnown, vars
    <2> QED BY <2>1, <2>2, <2>3, AllStopped
  <1> QED BY <1>1, <1>2, <1>3, ArriveKept, WindowKept, ReconcilesKept,
             DisconnectKept, ShutdownKept, CrashKept DEF CallsNext

(* Served, and what comes with it, holds of every reachable state. *)
THEOREM CallsInvariance == CallsSpec => []GInv
  <1>1. GInv /\ [CallsNext]_allvars => GInv'
    BY CallsStep
  <1> QED BY <1>1, CallsInitially, PTL DEF CallsSpec

-----------------------------------------------------------------------------
(* Theorems *)

(* Whatever coroutines, threads, failures and cancellations do, they do    *)
(* what Accounting allows: settle, transition and release never meet a     *)
(* request in a state their guards forbid, so that everything proved of    *)
(* Accounting holds of the gateway's books.                                *)
THEOREM CallsAreAccounted == CallsSpec => GatewayIsAccounting
  <1>1. CallsInit => Init
    BY DEF CallsInit
  <1>2. GInv /\ [CallsNext]_allvars => [Next]_vars
    BY CallsStep
  <1> QED BY <1>1, <1>2, CallsInvariance, PTL
          DEF CallsSpec, GatewayIsAccounting, Spec

(* Every column keeps its range, and a call that waits for a thread has    *)
(* one: no coroutine waits for work that nobody does.                      *)
THEOREM CallsTyped == CallsSpec => []CallsTypeOK
  <1>1. GInv => CallsTypeOK
    <2> SUFFICES ASSUME GInv PROVE CallsTypeOK
      OBVIOUS
    <2>1. TypeOK /\ Columns
      BY DEF GInv, Sound
    <2>2. ASSUME NEW c \in Calls
          PROVE  /\ \A w \in Works : stage[c] = StageOf[w] => w \in work[c]
                 /\ work[c] \ {"admit"} # {} => row[c] # NoRow
      <3>1. CallKnown(c)
        BY DEF GInv
      <3>2. CASE row[c] = NoRow
        BY <3>1, <3>2, WorksAre DEF CallKnown, Waiting
      <3>3. CASE row[c] # NoRow
        BY <3>1, <3>3, WorksAre DEF CallKnown, Served
      <3> QED BY <3>2, <3>3
    <2> QED BY <2>1, <2>2 DEF CallsTypeOK, Columns
  <1> QED BY <1>1, CallsInvariance, PTL

(* Threads that outlive their call, in whatever number and however late,   *)
(* find its request in a state they can handle.                            *)
THEOREM ThreadsAreFit == CallsSpec => []ThreadsFit
  <1>1. GInv => ThreadsFit
    <2> SUFFICES ASSUME GInv, NEW c \in Calls
                 PROVE  /\ work[c] \cap {"release", "dispatch"} # {} =>
                             state[row[c]] = "reserved"
                        /\ work[c] \cap {"settle", "uncertain"} # {} =>
                             state[row[c]] \notin
                               {"absent", "reserved", "released"}
                        /\ "uncertain" \in work[c] =>
                             state[row[c]] # "uncertain"
      BY DEF ThreadsFit
    <2>1. CallKnown(c)
      BY DEF GInv
    <2>2. CASE row[c] = NoRow
      BY <2>1, <2>2 DEF CallKnown, Waiting
    <2>3. CASE row[c] # NoRow
      BY <2>1, <2>3 DEF CallKnown, Served
    <2> QED BY <2>2, <2>3
  <1> QED BY <1>1, CallsInvariance, PTL

(* What is booked of a request is what the provider did for it, or its     *)
(* bound, and what was sent is never given back free.                      *)
THEOREM BooksFollowProvider == CallsSpec => []BooksMatchProvider
  <1>1. GInv => BooksMatchProvider
    BY DEF GInv, RequestKnown, BooksMatchProvider
  <1> QED BY <1>1, CallsInvariance, PTL

(* A client that was told a cost is charged that cost: by the call that    *)
(* told it, or by the one it replayed.                                     *)
THEOREM ToldAreCharged == CallsSpec => []ToldIsCharged
  <1>1. GInv => ToldIsCharged
    BY DEF GInv
  <1> QED BY <1>1, CallsInvariance, PTL

(* The calls of the provider made for one idempotency key are those of one *)
(* request, and it is called once.                                         *)
LEMMA CalledOnce ==
    ASSUME GInv, NEW k \in Keys, NEW i \in Idems
    PROVE  SumFunction([r \in Requests |->
              IF request[r] # Nobody /\ request[r].key = k
                   /\ request[r].idem = i THEN called[r] ELSE 0]) <= 1
  <1> DEFINE Mine(r) == request[r] # Nobody /\ request[r].key = k
                          /\ request[r].idem = i
             f == [r \in Requests |-> IF Mine(r) THEN called[r] ELSE 0]
  <1>1. /\ IsFiniteSet(Requests) /\ f \in [Requests -> Nat]
        /\ \A r \in Requests : f[r] \in {0, 1} /\ (~Mine(r) => f[r] = 0)
        /\ \A q, r \in Requests : Mine(q) /\ Mine(r) => q = r
    BY RequestsAssumption DEF GInv, Columns, RequestKnown, OneRowEach
  <1> HIDE DEF f, Mine
  <1>2. CASE \A r \in Requests : ~Mine(r)
    <2>1. SumFunction(f) = 0
      BY <1>1, <1>2, SumZero
    <2> QED BY <2>1 DEF f, Mine
  <1>3. ASSUME NEW r \in Requests, Mine(r) PROVE SumFunction(f) <= 1
    <2>1. \A q \in Requests \ {r} : f[q] = 0
      BY <1>1, <1>3
    <2>2. SumFunction(f) = f[r] /\ f[r] \in {0, 1}
      BY <1>1, <2>1, SumOfOne
    <2> QED BY <2>2
  <1>4. SumFunction(f) <= 1
    BY <1>2, <1>3, <1>1, SumZero
  <1> QED BY <1>4 DEF f, Mine

(* The provider works only under a hold of the whole bound, and once for   *)
(* an idempotency key, however many calls ask with it.                     *)
THEOREM ProviderCovered == CallsSpec => []ProviderIsCovered
  <1>1. ASSUME GInv, NEW c \in Calls, stage[c] = "calling"
        PROVE  /\ state[row[c]] = "dispatched"
               /\ reservation[row[c]][First] = MoneyBound(row[c])
    <2>1. row[c] \in Requests /\ state[row[c]] = "dispatched"
      BY <1>1, StageTells DEF Served
    <2> QED BY <1>1, <2>1 DEF GInv, RequestKnown
  <1>2. GInv => ProviderIsCovered
    BY <1>1, CalledOnce DEF ProviderIsCovered
  <1> QED BY <1>2, CallsInvariance, PTL

(* So what is proved of every behaviour of Accounting holds of the books   *)
(* that the gateway's calls keep, threads, faults and cancellations        *)
(* included.                                                               *)
THEOREM CallsKeepTheBooks ==
    CallsSpec => /\ []BooksBalance /\ []PostingsFollowState
                 /\ []RootCoversScopes /\ []NoSilentCrossing
                 /\ SettledOnce /\ NeverOvercommits
                 /\ RenewalFailsClosed /\ ImplementsEscrow
  <1>1. CallsSpec => Spec
    BY CallsAreAccounted DEF GatewayIsAccounting
  <1> QED BY <1>1, BooksAreBalanced, PostingsAreLives, RootCovers,
             CrossingsAreTold, FinalIsFinal, LimitsAreHard, NoCapLapses,
             AccountingIsEscrow
=============================================================================
