------------------------------- MODULE Gateway -------------------------------
(***************************************************************************)
(* Chat calls in the gateway, from admission to the answer:                *)
(* services/gateway/main.py over the transactions of Accounting.           *)
(*                                                                         *)
(* A call is a coroutine that hands its transactions to threads and awaits *)
(* them.  It can be interrupted at every await, by a client that leaves a  *)
(* stream or by a shutdown; a thread that has begun goes on without it.    *)
(* A transaction may also fail, or commit and fail to say so, and the      *)
(* process may die.  A client may ask again with its idempotency key: that *)
(* is another call.  Steps of spend contracts are left out.                *)
(***************************************************************************)
EXTENDS Accounting

CONSTANTS
    Calls,
    Streamed,      \* payloads with stream = true
    Quota,         \* calls in a window of the upstream's capacity (600)
    Faults,        \* what may go wrong, of AllFaults
    MaxFaults      \* bound: how often, altogether

AllFaults == {"redis", "database", "disconnect", "shutdown", "crash"}

NoRow == "none"

ASSUME GatewayAssumption ==
    /\ Streamed \subseteq Payloads
    /\ Quota \in Nat \ {0}
    /\ Faults \subseteq AllFaults /\ MaxFaults \in Nat
    /\ NoRow \notin Requests

VARIABLES
    stage,     \* where each call's coroutine is
    work,      \* its threads: what they have not yet committed
    asked,     \* key, idempotency key and payload of a call, or Nobody
    row,       \* the request a call was admitted as, or NoRow
    answer,    \* the cost its client was told, or NoAnswer
    called,    \* how often the provider was called for a request
    used,      \* what it reported, or NoAnswer
    response,  \* requests: the stored response (its cost), or NoAnswer
    count,     \* Redis: calls of this window ...
    expiring,  \* ... and whether the counter has a time to live
    faults,    \* how many faults have come so far ...
    disturbed  \* ... and whether any befell the process or the database

provider == <<called, used>>
redis == <<count, expiring>>
troubles == <<faults, disturbed>>
callvars == <<stage, work, asked, row, answer, provider, response, redis,
              troubles>>
allvars == <<vars, callvars>>

NoAnswer == -1

(* The stage in which a coroutine awaits each kind of thread. *)
StageOf ==
    [admit |-> "admitting", quota |-> "counting", release |-> "releasing",
     dispatch |-> "dispatching", settle |-> "settling",
     uncertain |-> "marking"]
Works == DOMAIN StageOf
Stages == {StageOf[w] : w \in Works}
            \cup {"new", "ready", "calling", "replying", "ended"}

CallsTypeOK ==
    /\ TypeOK
    /\ stage \in [Calls -> Stages]
    /\ work \in [Calls -> SUBSET Works]
    /\ asked \in [Calls -> [key : Keys, idem : Idems, payload : Payloads]
                             \cup {Nobody}]
    /\ row \in [Calls -> Requests \cup {NoRow}]
    /\ answer \in [Calls -> Usages \cup {NoAnswer}]
    /\ called \in [Requests -> Nat]
    /\ used \in [Requests -> Usages \cup {NoAnswer}]
    /\ response \in [Requests -> Usages \cup {NoAnswer}]
    /\ count \in Nat /\ expiring \in BOOLEAN
    /\ faults \in 0..MaxFaults /\ disturbed \in BOOLEAN
    /\ \A c \in Calls :
         /\ \A w \in Works : stage[c] = StageOf[w] => w \in work[c]
         /\ work[c] \ {"admit"} # {} => row[c] # NoRow

CallsInit ==
    /\ Init
    /\ stage = [c \in Calls |-> "new"]
    /\ work = [c \in Calls |-> {}]
    /\ asked = [c \in Calls |-> Nobody]
    /\ row = [c \in Calls |-> NoRow]
    /\ answer = [c \in Calls |-> NoAnswer]
    /\ called = [r \in Requests |-> 0]
    /\ used = [r \in Requests |-> NoAnswer]
    /\ response = [r \in Requests |-> NoAnswer]
    /\ count = 0 /\ expiring = FALSE
    /\ faults = 0 /\ disturbed = FALSE

Streams(c) == asked[c].payload \in Streamed
InFlight(c) == stage[c] \notin {"new", "ended"}

-----------------------------------------------------------------------------
(* Coroutines *)

(* The work that a coroutine hands to a thread on entering stage s. *)
WorkOf(s) == {w \in Works : StageOf[w] = s}

(* c goes to stage s, or stays there, with threads left of those before. *)
Enter(c, s, left) ==
    /\ stage' = [stage EXCEPT ![c] = s]
    /\ work' = [work EXCEPT ![c] =
                  left \cup (IF s = stage[c] THEN {} ELSE WorkOf(s))]
    /\ called' = IF s = "calling" /\ s # stage[c]
                   THEN [called EXCEPT ![row[c]] = @ + 1] ELSE called

Awaits(c, w) == stage[c] = StageOf[w]

(* The window's counter says yes, and no fault before the dispatch. *)
Admissible == IF count < Quota THEN {"dispatching"} ELSE {}

(* Where c goes when its thread w returns, if c still awaits it. *)
Returned(c, w) ==
    IF ~Awaits(c, w) THEN {stage[c]}
    ELSE [admit |-> {"counting"},
          quota |-> {"releasing"} \cup Admissible,
          release |-> {"ended"},
          dispatch |-> {IF Streams(c) THEN "ready" ELSE "calling"},
          settle |-> {"replying"},
          uncertain |-> {"ended"}][w]

(* Where it goes when w raises an exception; going on to the provider,     *)
(* that is, if a failed dispatch were ignored.                             *)
RaisedOn(c, w) ==
    IF ~Awaits(c, w) THEN stage[c]
    ELSE IF w = "quota" THEN "releasing"
    ELSE IF w = "settle" THEN "marking"
    ELSE IF w = "dispatch" THEN "calling"
    ELSE "ended"
Raised(c, w) ==
    IF ~Awaits(c, w) THEN stage[c]
    ELSE IF w = "quota" THEN "releasing"
    ELSE IF w = "settle" THEN "marking"
    ELSE "ended"

(* Where it goes when it is cancelled: only execute, once it has begun,    *)
(* handles that.                                                           *)
CancelledQuietly(c) == "ended"
CancelledReleasing(c) ==
    IF stage[c] \in {"calling", "settling", "replying"} THEN "marking"
    ELSE IF stage[c] \in {"counting", "dispatching"} THEN "releasing"
    ELSE "ended"
Cancelled(c) ==
    IF stage[c] \in {"calling", "settling", "replying"} THEN "marking"
    ELSE "ended"

-----------------------------------------------------------------------------
(* Threads: what each does to the database, or to Redis *)

Admits(c) ==
    LET a == asked[c]
    IN  \E r \in Requests, dm, dd \in Recent :
          /\ Admit(r, a.key, a.idem, a.payload, dm, dd)
          /\ row' = [row EXCEPT ![c] = r]

(* One script: INCR, and EXPIRE for the first call of a window. *)
CountUnarmed == count' = count + 1 /\ expiring' = (expiring \/ count = 1)
Count == count' = count + 1 /\ expiring' = (expiring \/ count = 0)

(* A settlement that misses the last chunk. *)
SettlesPartly(r) ==
    IF state[r] \in Final THEN UNCHANGED <<vars, response>>
    ELSE /\ Settle(r, "completed", used[r] - 1, Usage(r, used[r] - 1, used[r]))
         /\ response' = [response EXCEPT ![r] = used[r]]
         /\ UNCHANGED reconciling

(* Usage is settled as reported, unless somebody has settled already. *)
Settles(r) ==
    IF state[r] \in Final THEN UNCHANGED <<vars, response>>
    ELSE /\ Settle(r, "completed", used[r], Usage(r, used[r], used[r]))
         /\ response' = [response EXCEPT ![r] = used[r]]
         /\ UNCHANGED reconciling

Marks(r) ==
    IF state[r] \in Final THEN UNCHANGED vars ELSE MarkUncertain(r)

Nothing == UNCHANGED <<vars, row, response, redis>>

Effect(c, w) ==
    \/ w = "admit" /\ Admits(c) /\ UNCHANGED <<response, redis>>
    \/ w = "quota" /\ Count /\ UNCHANGED <<vars, row, response>>
    \/ w = "release" /\ Release(row[c]) /\ UNCHANGED <<row, response, redis>>
    \/ w = "dispatch" /\ Dispatch(row[c])
         /\ UNCHANGED <<row, response, redis>>
    \/ w = "settle" /\ Settles(row[c]) /\ UNCHANGED <<row, redis>>
    \/ w = "uncertain" /\ Marks(row[c]) /\ UNCHANGED <<row, response, redis>>

-----------------------------------------------------------------------------
(* A client's call with an idempotency key; its key authenticates. *)
Arrive(c, k, i, p) ==
    /\ stage[c] = "new"
    /\ ~revoked[k]
    /\ asked' = [asked EXCEPT ![c] = [key |-> k, idem |-> i, payload |-> p]]
    /\ Enter(c, "admitting", {})
    /\ UNCHANGED <<vars, row, answer, used, response, redis, troubles>>

(* A thread commits, and its coroutine, if it still waits, goes on. *)
Thread(c, w) ==
    /\ w \in work[c]
    /\ Effect(c, w)
    /\ \E s \in Returned(c, w) : Enter(c, s, work[c] \ {w})
    /\ UNCHANGED <<asked, answer, used, troubles>>

Earlier(a) == {r \in Requests : request[r] # Nobody
                                  /\ request[r].key = a.key
                                  /\ request[r].idem = a.idem}

(* An earlier request of the same key and body that has its response. *)
ReplayableAny(a) == {r \in Earlier(a) : response[r] # NoAnswer}
Replayable(a) ==
    {r \in Earlier(a) : /\ request[r].payload = a.payload
                        /\ state[r] = "completed" /\ response[r] # NoAnswer
                        /\ a.payload \notin Streamed}

Replay(c) ==
    /\ "admit" \in work[c]
    /\ \E r \in Replayable(asked[c]) :
         answer' = IF Awaits(c, "admit")
                     THEN [answer EXCEPT ![c] = response[r]] ELSE answer
    /\ Enter(c, "ended", work[c] \ {"admit"})
    /\ UNCHANGED <<vars, asked, row, used, response, redis, troubles>>

(* admit refuses: the idempotency key is taken, or there is no room. *)
Refuse(c) ==
    LET a == asked[c]
    IN  /\ "admit" \in work[c]
        /\ Replayable(a) = {}
        /\ Earlier(a) = {} =>
             \E b \in Charged(KeyApp[a.key], day, day) :
                 ~Fits(b, Bound[a.payload][Unit(b)])
        /\ Enter(c, "ended", work[c] \ {"admit"})
        /\ UNCHANGED <<vars, asked, row, answer, used, response, redis,
                       troubles>>

(* The server starts to iterate a stream's body. *)
StartStream(c) ==
    /\ stage[c] = "ready"
    /\ Enter(c, "calling", work[c])
    /\ UNCHANGED <<vars, asked, row, answer, used, response, redis, troubles>>

(* The provider is done and has used u, at most the bound (mock.bound). *)
ProviderAnswers(c, u) ==
    /\ stage[c] = "calling"
    /\ u <= MoneyBound(row[c])
    /\ used' = [used EXCEPT ![row[c]] = u]
    /\ Enter(c, "settling", work[c])
    /\ UNCHANGED <<vars, asked, row, answer, response, redis, troubles>>

(* The provider fails, before its answer or in the middle of it. *)
ProviderFails(c) ==
    /\ stage[c] = "calling"
    /\ Enter(c, "marking", work[c])
    /\ UNCHANGED <<vars, asked, row, answer, used, response, redis, troubles>>

(* A stream's last chunks are sent; a plain answer is returned and leaves  *)
(* the generator suspended, whose closing counts as a cancellation.        *)
Reply(c) ==
    /\ stage[c] = "replying"
    /\ answer' = [answer EXCEPT ![c] = used[row[c]]]
    /\ Enter(c, IF Streams(c) THEN "ended" ELSE "marking", work[c])
    /\ UNCHANGED <<vars, asked, row, used, response, redis, troubles>>

WindowEnds ==
    /\ expiring
    /\ count' = 0 /\ expiring' = FALSE
    /\ UNCHANGED <<vars, stage, work, asked, row, answer, provider, response,
                   troubles>>

-----------------------------------------------------------------------------
(* What can go wrong *)

Fault(f) ==
    /\ f \in Faults
    /\ faults < MaxFaults
    /\ faults' = faults + 1
    /\ disturbed' = (disturbed \/ f \in {"database", "shutdown", "crash"})

(* A transaction or the script fails and its thread raises an exception,   *)
(* which does not tell whether the commit took place.                      *)
ThreadFails(c, w) ==
    /\ Fault(IF w = "quota" THEN "redis" ELSE "database")
    /\ w \in work[c]
    /\ Effect(c, w) \/ Nothing
    /\ Enter(c, Raised(c, w), work[c] \ {w})
    /\ UNCHANGED <<asked, answer, used>>

(* The client of a stream is gone.  Work not begun may be withdrawn, the   *)
(* shielded mark excepted.                                                 *)
Disconnect(c) ==
    /\ Fault("disconnect")
    /\ stage[c] \in {"ready", "calling", "settling", "replying", "marking"}
    /\ Streams(c)
    /\ \E left \in SUBSET work[c] :
         /\ "uncertain" \in work[c] => "uncertain" \in left
         /\ Enter(c, Cancelled(c), left)
    /\ UNCHANGED <<vars, asked, row, answer, used, response, redis>>

(* Every call in flight is cancelled, its threads' work begun or not. *)
Shutdown ==
    /\ Fault("shutdown")
    /\ \E kept \in SUBSET {t \in Calls \X Works : t[2] \in work[t[1]]} :
         work' = [c \in Calls |->
                    {w \in Works : <<c, w>> \in kept}
                      \cup (IF InFlight(c) /\ stage[c] # "marking"
                              THEN WorkOf(Cancelled(c)) ELSE {})]
    /\ stage' = [c \in Calls |-> IF InFlight(c) THEN Cancelled(c)
                                  ELSE stage[c]]
    /\ UNCHANGED <<vars, asked, row, answer, provider, response, redis>>

(* The process dies, and what it has not committed with it. *)
Crash ==
    /\ Fault("crash")
    /\ stage' = [c \in Calls |-> IF InFlight(c) THEN "ended" ELSE stage[c]]
    /\ work' = [c \in Calls |-> {}]
    /\ UNCHANGED <<vars, asked, row, answer, provider, response, redis>>

-----------------------------------------------------------------------------
Runs(c) ==
    \/ \E w \in Works : Thread(c, w)
    \/ Replay(c) \/ Refuse(c)
    \/ StartStream(c)
    \/ \E u \in Usages : ProviderAnswers(c, u)
    \/ ProviderFails(c)
    \/ Reply(c)

Reconciles ==
    /\ \/ \E x \in Admins, r \in Requests : ReconcileCheck(x, r)
       \/ \E x \in Admins : ReconcileSettle(x)
    /\ UNCHANGED callvars

CallsNext ==
    \/ \E c \in Calls, k \in Keys, i \in Idems, p \in Payloads :
         Arrive(c, k, i, p)
    \/ \E c \in Calls : Runs(c)
    \/ WindowEnds
    \/ Reconciles
    \/ \E c \in Calls, w \in Works : ThreadFails(c, w)
    \/ \E c \in Calls : Disconnect(c)
    \/ Shutdown
    \/ Crash

CallsSpec == CallsInit /\ [][CallsNext]_allvars

(* Coroutines and threads of a living process go on, and time passes.      *)
(* Nobody is obliged to call, to fail or to reconcile.                     *)
FairCalls ==
    /\ CallsSpec
    /\ \A c \in Calls : WF_allvars(Runs(c))
    /\ WF_allvars(WindowEnds)

-----------------------------------------------------------------------------
(* The provider works only for a call whose whole bound is held: admitted, *)
(* dispatched, neither settled nor released nor marked by anyone, and for  *)
(* each idempotency key it is called once, however often the client asks   *)
(* and whatever was cancelled in between ("duplicate dispatch is refused", *)
(* ReadMe.md:68).                                                          *)
ProviderIsCovered ==
    /\ \A c \in Calls :
         stage[c] = "calling" =>
           LET r == row[c]
           IN  state[r] = "dispatched" /\ reservation[r][First] = MoneyBound(r)
    /\ \A k \in Keys, i \in Idems :
         SumFunction([r \in Requests |->
            IF request[r] # Nobody /\ request[r].key = k
                 /\ request[r].idem = i THEN called[r] ELSE 0]) <= 1

(* Threads that outlive their call find its request in a state they can    *)
(* handle: no release after a dispatch, no usage before one, no mark on a  *)
(* request that was never sent.                                            *)
ThreadsFit ==
    \A c \in Calls :
        /\ work[c] \cap {"release", "dispatch"} # {} =>
             state[row[c]] = "reserved"
        /\ work[c] \cap {"settle", "uncertain"} # {} =>
             state[row[c]] \notin {"absent", "reserved", "released"}
        /\ "uncertain" \in work[c] => state[row[c]] # "uncertain"

(* What is booked of a request fits what the provider did for it: nothing  *)
(* that was sent is given back free, and a completed request costs what    *)
(* the provider reported or, reconciled, its bound.                        *)
BooksMatchProvider ==
    \A r \in Requests :
        /\ state[r] = "released" => called[r] = 0
        /\ state[r] = "completed" =>
             called[r] = 1 /\ cost[r] \in {used[r], MoneyBound(r)}

(* A client that was told a cost, by the call or by a replay of it, is     *)
(* charged that cost, whatever failed, was cancelled or reconciled.        *)
ToldIsCharged ==
    \A c \in Calls :
        answer[c] # NoAnswer =>
            \E r \in Earlier(asked[c]) :
                /\ request[r].payload = asked[c].payload
                /\ state[r] = "completed" /\ cost[r] = answer[c]

Resolved(c) == state[row[c]] \in Final \cup {"uncertain"}
HasRow(c) == row[c] # NoRow

(* The hold of an admitted call is settled, released or made ready for     *)
(* reconciliation in the end, whatever Redis, the provider or the client   *)
(* do; of a stream, if its body was begun.                                 *)
HoldsResolve ==
    \A c \in Calls :
        (HasRow(c) /\ (~Streams(c) \/ stage[c] = "calling"))
            ~> ((HasRow(c) /\ Resolved(c)) \/ disturbed)

(* A window of the capacity that has begun comes to its end.               *)
WindowsEnd == count > 0 ~> count = 0

(* "Timeouts, disconnected streams and ambiguous dispatch retain their     *)
(* child allocation [...] An owner/admin may conservatively reconcile such *)
(* a request" (docs/SPEND_CONTRACTS.md:15; "until reconciliation",         *)
(* ReadMe.md:68): reconcile takes uncertain requests only.                 *)
DisconnectsReconcile ==
    \A c \in Calls :
        (HasRow(c) /\ state[row[c]] = "dispatched")
            ~> (HasRow(c) /\ Resolved(c))

(* Whatever the gateway's coroutines, threads and failures do, they do to  *)
(* the books what Accounting allows: its guards on the state of a request  *)
(* are kept by the order of the calls, not by settle.                      *)
GatewayIsAccounting == Spec
=============================================================================
