------------------------------- MODULE Outbox -------------------------------
(***************************************************************************)
(* The worker that drains the outbox: services/worker/main.py.             *)
(*                                                                         *)
(* Celery's beat enqueues a drain every ten seconds, whether or not one is *)
(* running.  A drain goes through the tenants, one transaction for each: a *)
(* batch of undelivered rows that nobody else has locked, a mail for every *)
(* threshold event in it, all of them marked delivered at the commit.  A   *)
(* mail is out before that commit, and stays out when it fails.            *)
(*                                                                         *)
(* Celery and SMTP are modelled from how the worker configures and calls   *)
(* them: late acknowledgement (a task is redelivered if its worker dies or *)
(* outlives the visibility timeout), retries for OSError alone.            *)
(***************************************************************************)
EXTENDS Naturals, FiniteSets, Functions

CONSTANTS
    Tenants,
    Events, TenantOf,   \* rows of outbox_events, and the tenant of each
    Thresholds,         \* the events of kind budget.threshold
    Workers,
    Limit,              \* rows in a batch (100)
    MaxRetries,         \* retries of a task (5)
    MaxQueued,          \* bound: beat waits while so many tasks do
    MaxFaults           \* bound: what may go wrong, altogether

ASSUME EventsAssumption ==
    /\ TenantOf \in [Events -> Tenants]
    /\ Thresholds \subseteq Events
    /\ Tenants \cap {"none", "idle"} = {}
ASSUME LimitsAssumption ==
    /\ Limit \in Nat \ {0} /\ MaxRetries \in Nat
    /\ MaxQueued \in Nat \ {0} /\ MaxFaults \in Nat

VARIABLES
    row,       \* outbox_events: "absent", "pending" or "delivered"
    mailed,    \* how many mails of an event the sink has accepted
    undone,    \* how many of them a rollback has forgotten
    queue,     \* queue[n]: tasks waiting that have been retried n times
    worker,    \* what each worker is doing
    smtp,      \* the mail sink is "up" or "down"
    faults     \* how much has gone wrong so far

vars == <<row, mailed, undone, queue, worker, smtp, faults>>

NoTenant == "none"
Tries == 0..MaxRetries

(* retries of the task, tenants still to visit, the tenant whose batch is  *)
(* open, the rows locked and those of them that are handled.               *)
Task == [retries : Tries, todo : SUBSET Tenants,
         tenant : Tenants \cup {NoTenant},
         batch : SUBSET Events, handled : SUBSET Events]
Idle == [retries |-> 0, todo |-> {}, tenant |-> "idle",
         batch |-> {}, handled |-> {}]

Running(w) == worker[w] # Idle
Locked == UNION {worker[w].batch : w \in Workers}

TypeOK ==
    /\ row \in [Events -> {"absent", "pending", "delivered"}]
    /\ mailed \in [Events -> Nat]
    /\ undone \in [Events -> Nat]
    /\ queue \in [Tries -> Nat]
    /\ worker \in [Workers -> Task \cup {Idle}]
    /\ \A w \in Workers :
         /\ worker[w].handled \subseteq worker[w].batch
         /\ \A e \in worker[w].batch :
              row[e] = "pending" /\ worker[w].tenant = TenantOf[e]
    /\ smtp \in {"up", "down"}
    /\ faults \in 0..MaxFaults

Init ==
    /\ row = [e \in Events |-> "absent"]
    /\ mailed = [e \in Events |-> 0]
    /\ undone = [e \in Events |-> 0]
    /\ queue = [n \in Tries |-> 0]
    /\ worker = [w \in Workers |-> Idle]
    /\ smtp = "up"
    /\ faults = 0

-----------------------------------------------------------------------------
(* The other services, and beat *)

(* A transaction that writes an event commits. *)
Emit(e) ==
    /\ row[e] = "absent"
    /\ row' = [row EXCEPT ![e] = "pending"]
    /\ UNCHANGED <<mailed, undone, queue, worker, smtp, faults>>

Beat ==
    /\ SumFunction(queue) < MaxQueued
    /\ queue' = [queue EXCEPT ![0] = @ + 1]
    /\ UNCHANGED <<row, mailed, undone, worker, smtp, faults>>

-----------------------------------------------------------------------------
(* drain *)

Take(w, n) ==
    /\ ~Running(w)
    /\ queue[n] > 0
    /\ queue' = [queue EXCEPT ![n] = @ - 1]
    /\ worker' = [worker EXCEPT ![w] =
          [retries |-> n, todo |-> Tenants, tenant |-> NoTenant,
           batch |-> {}, handled |-> {}]]
    /\ UNCHANGED <<row, mailed, undone, smtp, faults>>

(* Undelivered rows of tenant t, with and without FOR UPDATE SKIP LOCKED. *)
UndeliveredAny(t) == {e \in Events : TenantOf[e] = t /\ row[e] = "pending"}
Undelivered(t) ==
    {e \in Events : TenantOf[e] = t /\ row[e] = "pending" /\ e \notin Locked}

Batches(S) ==
    {B \in SUBSET S : \/ Cardinality(B) = Limit
                      \/ B = S /\ Cardinality(B) <= Limit}

Fetch(w, t) ==
    /\ Running(w) /\ worker[w].tenant = NoTenant
    /\ t \in worker[w].todo
    /\ \E B \in Batches(Undelivered(t)) :
         worker' = [worker EXCEPT ![w].tenant = t, ![w].batch = B]
    /\ UNCHANGED <<row, mailed, undone, queue, smtp, faults>>

(* A loop that marks every row and mails none. *)
MailNone(e) == UNCHANGED mailed

(* A row of another kind is marked; a threshold's mail is sent first. *)
Mail(e) ==
    IF e \in Thresholds
      THEN smtp = "up" /\ mailed' = [mailed EXCEPT ![e] = @ + 1]
      ELSE UNCHANGED mailed

Handle(w, e) ==
    /\ e \in worker[w].batch \ worker[w].handled
    /\ Mail(e)
    /\ worker' = [worker EXCEPT ![w].handled = @ \cup {e}]
    /\ UNCHANGED <<row, undone, queue, smtp, faults>>

(* A loop that passes over the rows it does not mail. *)
MarkThresholds(B) ==
    row' = [e \in Events |-> IF e \in B \cap Thresholds THEN "delivered"
                            ELSE row[e]]
Mark(B) == row' = [e \in Events |-> IF e \in B THEN "delivered" ELSE row[e]]

Commit(w) ==
    /\ worker[w].tenant \in Tenants
    /\ worker[w].handled = worker[w].batch
    /\ Mark(worker[w].batch)
    /\ worker' = [worker EXCEPT ![w].tenant = NoTenant, ![w].batch = {},
                    ![w].handled = {}, ![w].todo = @ \ {worker[w].tenant}]
    /\ UNCHANGED <<mailed, undone, queue, smtp, faults>>

Finish(w) ==
    /\ worker[w].tenant = NoTenant
    /\ worker[w].todo = {}
    /\ worker' = [worker EXCEPT ![w] = Idle]
    /\ UNCHANGED <<row, mailed, undone, queue, smtp, faults>>

-----------------------------------------------------------------------------
(* What can go wrong *)

Forgotten(w) == worker[w].handled \cap Thresholds

(* w's transaction rolls back: its rows stay undelivered, its mails stay   *)
(* sent.  lost are the events whose mails nothing will remember.           *)
Rollback(w, lost) ==
    /\ worker' = [worker EXCEPT ![w] = Idle]
    /\ undone' = [e \in Events |-> IF e \in lost THEN undone[e] + 1
                                   ELSE undone[e]]
    /\ UNCHANGED row

Requeue(n) == queue' = [queue EXCEPT ![n] = @ + 1]

(* autoretry_for=(OSError,): a new task while there are retries left. *)
Retry(n) == IF n < MaxRetries THEN Requeue(n + 1) ELSE UNCHANGED queue

(* The sink cannot be reached. *)
Unreachable(w, e) ==
    /\ smtp = "down"
    /\ e \in (worker[w].batch \ worker[w].handled) \cap Thresholds
    /\ Rollback(w, Forgotten(w))
    /\ Retry(worker[w].retries)
    /\ UNCHANGED <<mailed, smtp, faults>>

Fault == faults < MaxFaults /\ faults' = faults + 1

(* The sink times out, and may have accepted the mail nevertheless. *)
MailTimeout(w, e) ==
    /\ Fault
    /\ e \in (worker[w].batch \ worker[w].handled) \cap Thresholds
    /\ \/ Rollback(w, Forgotten(w)) /\ UNCHANGED mailed
       \/ /\ Rollback(w, Forgotten(w) \cup {e})
          /\ mailed' = [mailed EXCEPT ![e] = @ + 1]
    /\ Retry(worker[w].retries)
    /\ UNCHANGED smtp

(* The worker dies: acks_late, reject_on_worker_lost. *)
Crash(w) ==
    /\ Fault
    /\ Running(w)
    /\ Rollback(w, Forgotten(w))
    /\ Requeue(worker[w].retries)
    /\ UNCHANGED <<mailed, smtp>>

(* An error that is not an OSError: the task fails and is not retried. *)
DatabaseError(w) ==
    /\ Fault
    /\ Running(w)
    /\ Rollback(w, Forgotten(w))
    /\ UNCHANGED <<mailed, queue, smtp>>

(* The visibility timeout passes while the task is running. *)
Redeliver(w) ==
    /\ Fault
    /\ Running(w)
    /\ Requeue(worker[w].retries)
    /\ UNCHANGED <<row, mailed, undone, worker, smtp>>

Outage ==
    /\ Fault
    /\ smtp = "up"
    /\ smtp' = "down"
    /\ UNCHANGED <<row, mailed, undone, queue, worker>>

Recover ==
    /\ smtp = "down"
    /\ smtp' = "up"
    /\ UNCHANGED <<row, mailed, undone, queue, worker, faults>>

-----------------------------------------------------------------------------
Work(w) ==
    \/ \E t \in Tenants : Fetch(w, t)
    \/ \E e \in Events : Handle(w, e) \/ Unreachable(w, e)
    \/ Commit(w)
    \/ Finish(w)

Next ==
    \/ \E e \in Events : Emit(e)
    \/ Beat
    \/ \E w \in Workers, n \in Tries : Take(w, n)
    \/ \E w \in Workers : Work(w)
    \/ \E w \in Workers, e \in Events : MailTimeout(w, e)
    \/ \E w \in Workers : Crash(w) \/ DatabaseError(w) \/ Redeliver(w)
    \/ Outage \/ Recover

Spec == Init /\ [][Next]_vars

(* Beat goes on enqueueing, an idle worker takes a task that waits and a   *)
(* running one goes on, and the sink comes back.  Faults are finitely many *)
(* and events too: under an endless stream of either nothing is promised.  *)
FairSpec ==
    /\ Spec
    /\ WF_vars(Beat)
    /\ WF_vars(\E w \in Workers, n \in Tries : Take(w, n))
    /\ \A w \in Workers : WF_vars(Work(w))
    /\ WF_vars(Recover)

-----------------------------------------------------------------------------
(* A threshold event that is marked delivered was mailed: neither a batch  *)
(* that is given up half way, nor a retry, nor a second drain over the     *)
(* same rows marks one that no mail went out for.                          *)
NeverLost ==
    \A e \in Thresholds : row[e] = "delivered" => mailed[e] > 0

(* "Email can duplicate after SMTP success followed by a worker crash"     *)
(* (docs/THREAT_MODEL.md:22), and in no other way: all mails of an event   *)
(* but one belong to batches that were rolled back, whatever drains run    *)
(* side by side or are delivered twice.                                    *)
DuplicatesNeedRollback ==
    \A e \in Events : mailed[e] <= 1 + undone[e]

(* The worker's drains keep what an outbox promises: every event is taken  *)
(* off in the end, a threshold's not before a mail is out.                 *)
A == INSTANCE AtLeastOnce WITH
        Messages <- Events, ToSend <- Thresholds, copies <- mailed,
        status <- [e \in Events |->
                     IF row[e] = "delivered" THEN "done" ELSE row[e]]

ImplementsAtLeastOnce == A!Spec
=============================================================================
