---------------------------- MODULE OutboxProofs ----------------------------
(***************************************************************************)
(* Proofs about Outbox, for any number of workers, events, tenants, faults *)
(* and retries: no threshold event is lost, and duplicates of a mail come  *)
(* from rollbacks alone.                                                   *)
(*                                                                         *)
(* Both follow from an exact account of an event's mails: those undone by  *)
(* rollbacks, and one more if the event is delivered or handled in a batch *)
(* that is open.  That it is one more and not one for each worker needs    *)
(* that no two workers hold the same row.                                  *)
(***************************************************************************)
EXTENDS Outbox, TLAPS

Counted(e) ==
    e \in Thresholds /\ (row[e] = "delivered"
                           \/ \E w \in Workers : e \in worker[w].handled)

MailsAccounted ==
    \A e \in Events : mailed[e] = undone[e] + (IF Counted(e) THEN 1 ELSE 0)

BatchesDisjoint ==
    \A v, w \in Workers : v # w => worker[v].batch \cap worker[w].batch = {}

IInv == TypeOK /\ BatchesDisjoint /\ MailsAccounted

-----------------------------------------------------------------------------
LEMMA InitKeeps == Init => IInv
  BY LimitsAssumption, EventsAssumption
     DEF Init, IInv, TypeOK, BatchesDisjoint, MailsAccounted, Counted, Idle,
         Task, Tries, NoTenant

(* What the type invariant says of a worker. *)
LEMMA WorkerTyped ==
    ASSUME TypeOK, NEW w \in Workers
    PROVE  /\ worker[w] \in Task \cup {Idle}
           /\ worker[w].batch \subseteq Events
           /\ worker[w].handled \subseteq worker[w].batch
           /\ \A e \in worker[w].batch : row[e] = "pending"
           /\ worker[w].tenant \notin Tenants => worker[w].batch = {}
           /\ Running(w) => worker[w] \in Task
           /\ worker[w].batch # {} => worker[w] \in Task
           /\ worker[w].tenant \in Tenants \cup {NoTenant} =>
                worker[w] \in Task
  BY EventsAssumption DEF TypeOK, Task, Idle, Running, NoTenant

(* A retried or redelivered task leaves the queue well typed. *)
LEMMA QueueTyped ==
    ASSUME TypeOK, NEW n \in Tries, Requeue(n) \/ Retry(n)
    PROVE  queue' \in [Tries -> Nat]
  <1>1. ASSUME NEW m \in Tries, Requeue(m)
        PROVE  queue' \in [Tries -> Nat]
    BY <1>1 DEF Requeue, TypeOK
  <1>2. n < MaxRetries => n + 1 \in Tries
    BY LimitsAssumption DEF Tries
  <1> QED BY <1>1, <1>2 DEF Retry, TypeOK

(* A rollback of w's batch, with lost what it forgets: the handled events  *)
(* and those whose mail went out in the same step.                         *)
LEMMA RollbackKeeps ==
    ASSUME IInv, NEW w \in Workers, NEW lost \in SUBSET Events,
           Rollback(w, lost),
           Forgotten(w) \subseteq lost, lost \subseteq Thresholds,
           mailed' \in [Events -> Nat],
           \A e \in Events : mailed'[e] =
               mailed[e] + (IF e \in lost \ Forgotten(w) THEN 1 ELSE 0),
           queue' \in [Tries -> Nat],
           smtp' \in {"up", "down"}, faults' \in 0..MaxFaults
    PROVE  IInv'
  <1> USE DEF IInv
  <1>1. /\ worker' = [worker EXCEPT ![w] = Idle]
        /\ undone' = [e \in Events |-> IF e \in lost THEN undone[e] + 1
                                       ELSE undone[e]]
        /\ row' = row
    BY DEF Rollback
  <1>2. worker'[w] = Idle /\ \A v \in Workers \ {w} : worker'[v] = worker[v]
    BY <1>1 DEF TypeOK
  <1>3. Idle.batch = {} /\ Idle.handled = {} /\ Idle \notin Task
    BY EventsAssumption DEF Idle, Task, NoTenant
  <1>4. undone' \in [Events -> Nat]
    BY <1>1 DEF TypeOK
  <1>5. worker' \in [Workers -> Task \cup {Idle}]
    BY <1>1 DEF TypeOK
  <1>6. \A v \in Workers :
           /\ worker'[v].handled \subseteq worker'[v].batch
           /\ \A e \in worker'[v].batch :
                row'[e] = "pending" /\ worker'[v].tenant = TenantOf[e]
    BY <1>1, <1>2, <1>3 DEF TypeOK
  <1>7. TypeOK'
    BY <1>1, <1>4, <1>5, <1>6 DEF TypeOK
  <1>8. BatchesDisjoint'
    BY <1>2, <1>3 DEF BatchesDisjoint
  <1>9. ASSUME NEW e \in Events
        PROVE  mailed'[e] = undone'[e] + (IF Counted(e)' THEN 1 ELSE 0)
    <2>1. CASE e \in Forgotten(w)
      <3>1. e \in Thresholds /\ e \in worker[w].handled
        BY <2>1 DEF Forgotten
      <3>2. e \in worker[w].batch /\ row[e] = "pending"
        BY <3>1, WorkerTyped
      <3>3. \A v \in Workers \ {w} : e \notin worker[v].handled
        BY <3>2, WorkerTyped DEF BatchesDisjoint
      <3>4. Counted(e) /\ ~Counted(e)'
        BY <1>1, <1>2, <1>3, <3>1, <3>2, <3>3 DEF Counted
      <3>5. undone'[e] = undone[e] + 1 /\ mailed'[e] = mailed[e]
        BY <1>1, <2>1, mailed[e] \in Nat DEF TypeOK
      <3> QED BY <3>4, <3>5 DEF MailsAccounted, TypeOK
    <2>2. CASE e \notin Forgotten(w)
      <3>1. Counted(e)' <=> Counted(e)
        BY <1>1, <1>2, <1>3, <2>2 DEF Counted, Forgotten
      <3>2. /\ mailed[e] \in Nat /\ undone[e] \in Nat
            /\ mailed[e] = undone[e] + (IF Counted(e) THEN 1 ELSE 0)
        BY DEF TypeOK, MailsAccounted
      <3>3. undone'[e] = undone[e] + (IF e \in lost THEN 1 ELSE 0)
        BY <1>1, <3>2
      <3>4. mailed'[e] = mailed[e] + (IF e \in lost THEN 1 ELSE 0)
        BY <2>2
      <3> QED BY <3>1, <3>2, <3>3, <3>4
    <2> QED BY <2>1, <2>2
  <1>10. MailsAccounted'
    BY <1>9 DEF MailsAccounted
  <1> QED BY <1>7, <1>8, <1>10

(* A step that moves neither rows, mails nor batches. *)
LEMMA OthersKeep ==
    ASSUME IInv, UNCHANGED <<row, mailed, undone, worker>>,
           queue' \in [Tries -> Nat],
           smtp' \in {"up", "down"}, faults' \in 0..MaxFaults
    PROVE  IInv'
  BY DEF IInv, TypeOK, BatchesDisjoint, MailsAccounted, Counted

LEMMA EmitKeeps ==
    ASSUME IInv, NEW e \in Events, Emit(e)
    PROVE  IInv'
  <1>1. row[e] = "absent" /\ row' = [row EXCEPT ![e] = "pending"]
    BY DEF Emit
  <1>2. \A d \in Events : row'[d] = "delivered" <=> row[d] = "delivered"
    BY <1>1 DEF IInv, TypeOK
  <1>3. \A d \in Events : row[d] = "pending" => row'[d] = "pending"
    BY <1>1 DEF IInv, TypeOK
  <1>4. TypeOK'
    <2>1. \A w \in Workers : \A d \in worker[w].batch : d \in Events
      BY WorkerTyped DEF IInv
    <2> QED BY <1>1, <1>3, <2>1 DEF Emit, IInv, TypeOK
  <1>5. BatchesDisjoint'
    BY DEF Emit, IInv, BatchesDisjoint
  <1>6. MailsAccounted'
    BY <1>2 DEF Emit, IInv, MailsAccounted, Counted
  <1> QED BY <1>4, <1>5, <1>6 DEF IInv

LEMMA TakeKeeps ==
    ASSUME IInv, NEW w \in Workers, NEW n \in Tries, Take(w, n)
    PROVE  IInv'
  <1> DEFINE Fresh == [retries |-> n, todo |-> Tenants, tenant |-> NoTenant,
                       batch |-> {}, handled |-> {}]
  <1>1. worker[w] = Idle /\ worker' = [worker EXCEPT ![w] = Fresh]
    BY DEF Take, Running
  <1>2. Fresh \in Task /\ Fresh.batch = {} /\ Fresh.handled = {}
    BY DEF Task
  <1>3. worker'[w] = Fresh /\ \A v \in Workers \ {w} : worker'[v] = worker[v]
    BY <1>1 DEF IInv, TypeOK
  <1>4. worker[w].batch = {} /\ worker[w].handled = {}
    BY <1>1 DEF Idle
  <1> HIDE DEF Fresh
  <1>5. queue' \in [Tries -> Nat]
    BY DEF Take, IInv, TypeOK
  <1>6. TypeOK'
    <2>1. worker' \in [Workers -> Task \cup {Idle}]
      BY <1>1, <1>2 DEF IInv, TypeOK
    <2>2. \A v \in Workers :
            /\ worker'[v].handled \subseteq worker'[v].batch
            /\ \A e \in worker'[v].batch :
                 row[e] = "pending" /\ worker'[v].tenant = TenantOf[e]
      BY <1>2, <1>3 DEF IInv, TypeOK
    <2> QED BY <1>5, <2>1, <2>2 DEF Take, IInv, TypeOK
  <1>7. BatchesDisjoint'
    BY <1>2, <1>3 DEF IInv, BatchesDisjoint
  <1>8. MailsAccounted'
    BY <1>2, <1>3, <1>4 DEF Take, IInv, MailsAccounted, Counted
  <1> QED BY <1>6, <1>7, <1>8 DEF IInv

LEMMA FetchKeeps ==
    ASSUME IInv, NEW w \in Workers, NEW t \in Tenants, Fetch(w, t)
    PROVE  IInv'
  <1>1. PICK B \in Batches(Undelivered(t)) :
          worker' = [worker EXCEPT ![w].tenant = t, ![w].batch = B]
    BY DEF Fetch
  <1>2. /\ B \subseteq Events
        /\ \A e \in B : TenantOf[e] = t /\ row[e] = "pending" /\ e \notin Locked
    BY DEF Batches, Undelivered
  <1>3. worker[w] \in Task /\ worker[w].tenant = NoTenant
    BY WorkerTyped DEF Fetch, IInv
  <1>4. worker[w].batch = {} /\ worker[w].handled = {}
    BY <1>3, WorkerTyped, EventsAssumption DEF IInv, NoTenant
  <1>5. /\ worker'[w] = [worker[w] EXCEPT !.tenant = t, !.batch = B]
        /\ \A v \in Workers \ {w} : worker'[v] = worker[v]
    BY <1>1 DEF IInv, TypeOK
  <1>6. /\ worker'[w] \in Task /\ worker'[w].batch = B
        /\ worker'[w].handled = {} /\ worker'[w].tenant = t
    <2>1. worker'[w] = [worker[w] EXCEPT !.tenant = t, !.batch = B]
      BY <1>5
    <2>2. B \in SUBSET Events
      BY <1>2
    <2> QED BY <1>3, <1>4, <2>1, <2>2 DEF Task
  <1>7. TypeOK'
    BY <1>1, <1>2, <1>5, <1>6 DEF Fetch, IInv, TypeOK
  <1>8. BatchesDisjoint'
    <2>1. \A v \in Workers : B \cap worker[v].batch = {}
      BY <1>2 DEF Locked
    <2> QED BY <1>5, <1>6, <2>1 DEF IInv, BatchesDisjoint
  <1>9. MailsAccounted'
    BY <1>4, <1>5, <1>6 DEF Fetch, IInv, MailsAccounted, Counted
  <1> QED BY <1>7, <1>8, <1>9 DEF IInv

LEMMA HandleKeeps ==
    ASSUME IInv, NEW w \in Workers, NEW e \in Events, Handle(w, e)
    PROVE  IInv'
  <1>1. /\ e \in worker[w].batch /\ e \notin worker[w].handled
        /\ worker' = [worker EXCEPT ![w].handled = @ \cup {e}]
    BY DEF Handle
  <1>2. worker[w] \in Task /\ row[e] = "pending"
    BY <1>1, WorkerTyped DEF IInv
  <1>3. /\ worker'[w] = [worker[w] EXCEPT !.handled = @ \cup {e}]
        /\ \A v \in Workers \ {w} : worker'[v] = worker[v]
    BY <1>1 DEF IInv, TypeOK
  <1>4. /\ worker'[w] \in Task /\ worker'[w].batch = worker[w].batch
        /\ worker'[w].handled = worker[w].handled \cup {e}
        /\ worker'[w].tenant = worker[w].tenant
    BY <1>2, <1>3 DEF Task
  <1>5. mailed' \in [Events -> Nat]
    BY DEF Handle, Mail, IInv, TypeOK
  <1>6. TypeOK'
    BY <1>1, <1>3, <1>4, <1>5 DEF Handle, IInv, TypeOK
  <1>7. BatchesDisjoint'
    <2>1. \A v \in Workers : worker'[v].batch = worker[v].batch
      BY <1>3, <1>4
    <2> QED BY <2>1 DEF IInv, BatchesDisjoint
  <1>8. \A v \in Workers \ {w} : e \notin worker[v].handled
    BY <1>1, WorkerTyped DEF IInv, BatchesDisjoint
  <1>9. \A d \in Events \ {e} : /\ Counted(d)' <=> Counted(d)
                                /\ mailed'[d] = mailed[d]
    BY <1>3, <1>4 DEF Handle, Mail, Counted, IInv, TypeOK
  <1>10. mailed'[e] = undone[e] + (IF Counted(e)' THEN 1 ELSE 0)
    <2>1. ~Counted(e)
      BY <1>1, <1>2, <1>8 DEF Counted
    <2>2. mailed[e] = undone[e]
      BY <2>1 DEF IInv, MailsAccounted, TypeOK
    <2>3. Counted(e)' <=> e \in Thresholds
      BY <1>4 DEF Counted
    <2>4. mailed'[e] = mailed[e] + (IF e \in Thresholds THEN 1 ELSE 0)
      BY DEF Handle, Mail, IInv, TypeOK
    <2> QED BY <2>2, <2>3, <2>4
  <1>11. MailsAccounted'
    BY <1>9, <1>10 DEF Handle, IInv, MailsAccounted
  <1> QED BY <1>6, <1>7, <1>11 DEF IInv

LEMMA CommitKeeps ==
    ASSUME IInv, NEW w \in Workers, Commit(w)
    PROVE  IInv'
  <1> DEFINE B == worker[w].batch
  <1>1. /\ worker[w].handled = B /\ worker[w] \in Task
        /\ row' = [e \in Events |-> IF e \in B THEN "delivered" ELSE row[e]]
    BY WorkerTyped DEF Commit, Mark, IInv
  <1>2. /\ worker'[w] = [worker[w] EXCEPT !.tenant = NoTenant, !.batch = {},
                           !.handled = {}, !.todo = @ \ {worker[w].tenant}]
        /\ \A v \in Workers \ {w} : worker'[v] = worker[v]
    BY DEF Commit, IInv, TypeOK
  <1>3. /\ worker'[w] \in Task /\ worker'[w].batch = {}
        /\ worker'[w].handled = {}
    BY <1>1, <1>2 DEF Task
  <1>4. \A v \in Workers \ {w} : \A e \in worker[v].batch :
          e \in Events /\ e \notin B
    BY WorkerTyped DEF IInv, BatchesDisjoint
  <1>5. \A v \in Workers : \A e \in worker'[v].batch :
          row'[e] = "pending" /\ worker'[v].tenant = TenantOf[e]
    <2>1. ASSUME NEW v \in Workers \ {w}, NEW e \in worker[v].batch
          PROVE  row'[e] = "pending" /\ worker[v].tenant = TenantOf[e]
      <3>1. e \in Events /\ e \notin B
        BY <1>4
      <3>2. row'[e] = row[e]
        BY <1>1, <3>1
      <3> QED BY <3>2 DEF IInv, TypeOK
    <2>2. \A v \in Workers \ {w} : \A e \in worker'[v].batch :
             row'[e] = "pending" /\ worker'[v].tenant = TenantOf[e]
      BY <1>2, <2>1
    <2>3. \A e \in worker'[w].batch :
             row'[e] = "pending" /\ worker'[w].tenant = TenantOf[e]
      BY <1>3
    <2> QED BY <2>2, <2>3
  <1>6. worker' \in [Workers -> Task \cup {Idle}]
    BY <1>2, <1>3 DEF Commit, IInv, TypeOK
  <1>7. TypeOK'
    <2>1. row' \in [Events -> {"absent", "pending", "delivered"}]
      BY <1>1 DEF IInv, TypeOK
    <2>2. \A v \in Workers : worker'[v].handled \subseteq worker'[v].batch
      BY <1>2, <1>3 DEF IInv, TypeOK
    <2> QED BY <1>5, <1>6, <2>1, <2>2 DEF Commit, IInv, TypeOK
  <1>8. BatchesDisjoint'
    BY <1>2, <1>3 DEF IInv, BatchesDisjoint
  <1>9. ASSUME NEW e \in Events
        PROVE  Counted(e)' <=> Counted(e)
    <2>1. CASE e \in B
      BY <1>1, <2>1 DEF Counted
    <2>2. CASE e \notin B
      BY <1>1, <1>2, <1>3, <2>2 DEF Counted
    <2> QED BY <2>1, <2>2
  <1>10. MailsAccounted'
    BY <1>9 DEF Commit, IInv, MailsAccounted
  <1> QED BY <1>7, <1>8, <1>10 DEF IInv

LEMMA FinishKeeps ==
    ASSUME IInv, NEW w \in Workers, Finish(w)
    PROVE  IInv'
  <1>1. worker[w].batch = {} /\ worker[w].handled = {}
    BY WorkerTyped, EventsAssumption DEF Finish, IInv, NoTenant
  <1>2. Rollback(w, {})
    BY DEF Finish, Rollback, IInv, TypeOK
  <1>3. Forgotten(w) = {}
    BY <1>1 DEF Forgotten
  <1> QED BY <1>2, <1>3, RollbackKeeps DEF Finish, IInv, TypeOK

-----------------------------------------------------------------------------
(* Rollbacks *)

(* The retries of a task that has a batch, or runs at all. *)
LEMMA RetriesTyped ==
    ASSUME TypeOK, NEW w \in Workers
    PROVE  worker[w].retries \in Tries
  BY LimitsAssumption DEF TypeOK, Task, Idle, Tries

LEMMA FaultTyped ==
    ASSUME TypeOK, Fault
    PROVE  faults' \in 0..MaxFaults
  BY LimitsAssumption DEF Fault, TypeOK

LEMMA PlainRollbackKeeps ==
    ASSUME IInv, NEW w \in Workers, Rollback(w, Forgotten(w)),
           UNCHANGED <<mailed, smtp>>,
           queue' \in [Tries -> Nat], faults' \in 0..MaxFaults
    PROVE  IInv'
  <1>1. /\ Forgotten(w) \in SUBSET Events /\ Forgotten(w) \subseteq Thresholds
    BY EventsAssumption DEF Forgotten
  <1>2. /\ mailed' \in [Events -> Nat] /\ smtp' \in {"up", "down"}
        /\ \A e \in Events : mailed'[e] =
             mailed[e] + (IF e \in Forgotten(w) \ Forgotten(w) THEN 1 ELSE 0)
    BY DEF IInv, TypeOK
  <1> QED BY <1>1, <1>2, RollbackKeeps

LEMMA UnreachableKeeps ==
    ASSUME IInv, NEW w \in Workers, NEW e \in Events, Unreachable(w, e)
    PROVE  IInv'
  <1>1. queue' \in [Tries -> Nat]
    BY QueueTyped, RetriesTyped DEF Unreachable, IInv
  <1> QED BY <1>1, PlainRollbackKeeps DEF Unreachable, IInv, TypeOK

LEMMA MailTimeoutKeeps ==
    ASSUME IInv, NEW w \in Workers, NEW e \in Events, MailTimeout(w, e)
    PROVE  IInv'
  <1>1. queue' \in [Tries -> Nat] /\ faults' \in 0..MaxFaults
    BY QueueTyped, RetriesTyped, FaultTyped DEF MailTimeout, IInv
  <1>2. CASE Rollback(w, Forgotten(w)) /\ UNCHANGED mailed
    BY <1>1, <1>2, PlainRollbackKeeps DEF MailTimeout
  <1>3. CASE /\ Rollback(w, Forgotten(w) \cup {e})
             /\ mailed' = [mailed EXCEPT ![e] = @ + 1]
    <2>1. e \in Thresholds /\ e \notin Forgotten(w)
      BY DEF MailTimeout, Forgotten
    <2>2. /\ Forgotten(w) \cup {e} \in SUBSET Events
          /\ Forgotten(w) \cup {e} \subseteq Thresholds
      BY <2>1, EventsAssumption DEF Forgotten
    <2>3. /\ mailed' \in [Events -> Nat] /\ smtp' \in {"up", "down"}
          /\ \A d \in Events : mailed'[d] = mailed[d] +
               (IF d \in (Forgotten(w) \cup {e}) \ Forgotten(w) THEN 1 ELSE 0)
      BY <1>3, <2>1 DEF MailTimeout, IInv, TypeOK
    <2> QED BY <1>1, <1>3, <2>2, <2>3, RollbackKeeps
  <1> QED BY <1>2, <1>3 DEF MailTimeout

LEMMA CrashKeeps ==
    ASSUME IInv, NEW w \in Workers, Crash(w) \/ DatabaseError(w)
    PROVE  IInv'
  <1>1. faults' \in 0..MaxFaults
    BY FaultTyped DEF Crash, DatabaseError, IInv
  <1>2. queue' \in [Tries -> Nat]
    BY QueueTyped, RetriesTyped DEF Crash, DatabaseError, IInv, TypeOK
  <1> QED BY <1>1, <1>2, PlainRollbackKeeps DEF Crash, DatabaseError

-----------------------------------------------------------------------------
LEMMA StepKeeps == IInv /\ [Next]_vars => IInv'
  <1> SUFFICES ASSUME IInv, [Next]_vars
               PROVE  IInv'
    OBVIOUS
  <1>1. ASSUME NEW e \in Events, Emit(e) PROVE IInv'
    BY <1>1, EmitKeeps
  <1>2. CASE Beat
    <2>1. queue' \in [Tries -> Nat]
      BY <1>2, LimitsAssumption DEF Beat, IInv, TypeOK, Tries
    <2> QED BY <1>2, <2>1, OthersKeep DEF Beat, IInv, TypeOK
  <1>3. ASSUME NEW w \in Workers, NEW n \in Tries, Take(w, n) PROVE IInv'
    BY <1>3, TakeKeeps
  <1>4. ASSUME NEW w \in Workers, Work(w) PROVE IInv'
    BY <1>4, FetchKeeps, HandleKeeps, UnreachableKeeps, CommitKeeps,
       FinishKeeps DEF Work
  <1>5. ASSUME NEW w \in Workers, NEW e \in Events, MailTimeout(w, e)
        PROVE  IInv'
    BY <1>5, MailTimeoutKeeps
  <1>6. ASSUME NEW w \in Workers, Crash(w) \/ DatabaseError(w) PROVE IInv'
    BY <1>6, CrashKeeps
  <1>7. ASSUME NEW w \in Workers, Redeliver(w) PROVE IInv'
    <2>1. queue' \in [Tries -> Nat] /\ faults' \in 0..MaxFaults
      BY <1>7, QueueTyped, RetriesTyped, FaultTyped DEF Redeliver, IInv
    <2> QED BY <1>7, <2>1, OthersKeep DEF Redeliver, IInv, TypeOK
  <1>8. CASE Outage \/ Recover
    <2>1. faults' \in 0..MaxFaults
      BY <1>8, FaultTyped DEF Outage, Recover, IInv, TypeOK
    <2> QED BY <1>8, <2>1, OthersKeep DEF Outage, Recover, IInv, TypeOK
  <1>9. CASE UNCHANGED vars
    BY <1>9, OthersKeep DEF vars, IInv, TypeOK
  <1> QED BY <1>1, <1>2, <1>3, <1>4, <1>5, <1>6, <1>7, <1>8, <1>9 DEF Next

LEMMA AlwaysIInv == Spec => []IInv
  BY InitKeeps, StepKeeps, PTL DEF Spec

(* Drains stay apart: no row is in two workers' batches at once, and a     *)
(* batch holds pending rows of the tenant that is open alone, whatever is  *)
(* rolled back, retried or delivered twice (worker/main.py:20-38).         *)
THEOREM DrainsStayApart == Spec => [](TypeOK /\ BatchesDisjoint)
  <1>1. IInv => TypeOK /\ BatchesDisjoint
    BY DEF IInv
  <1> QED BY <1>1, AlwaysIInv, PTL

(* No drain marks a threshold event delivered that was not mailed          *)
(* (worker/main.py:24-38).                                                 *)
THEOREM NothingLost == Spec => []NeverLost
  <1>1. IInv => NeverLost
    BY EventsAssumption
       DEF IInv, TypeOK, MailsAccounted, Counted, NeverLost
  <1> QED BY <1>1, AlwaysIInv, PTL

(* All mails of an event but one were forgotten by a rollback: skipping    *)
(* locked rows (worker/main.py:22-23) is enough against parallel drains.   *)
THEOREM DuplicatesAreRollbacks == Spec => []DuplicatesNeedRollback
  <1>1. IInv => DuplicatesNeedRollback
    BY DEF IInv, TypeOK, MailsAccounted, DuplicatesNeedRollback
  <1> QED BY <1>1, AlwaysIInv, PTL

-----------------------------------------------------------------------------
(* The drains as an outbox *)

Status == [e \in Events |-> IF row[e] = "delivered" THEN "done" ELSE row[e]]

(* A mail that the sink accepts is a message sent. *)
LEMMA MailSends ==
    ASSUME TypeOK, NEW e \in Thresholds, row[e] = "pending", UNCHANGED row,
           mailed' = [mailed EXCEPT ![e] = @ + 1]
    PROVE  A!Next
  <1>1. e \in Events /\ Status[e] = "pending" /\ UNCHANGED Status
    BY EventsAssumption DEF TypeOK, Status
  <1>2. A!Send(e)
    BY <1>1 DEF A!Send, Status
  <1> QED BY <1>1, <1>2 DEF A!Next

(* A commit takes its batch off: what was to be mailed of it was mailed. *)
LEMMA CommitTakesOff ==
    ASSUME IInv, NEW w \in Workers, Commit(w)
    PROVE  A!Next \/ UNCHANGED <<Status, mailed>>
  <1>0. PICK B \in SUBSET Events : B = worker[w].batch
    BY WorkerTyped DEF IInv
  <1>1. /\ B = worker[w].handled
        /\ \A e \in B : row[e] = "pending"
        /\ row' = [e \in Events |-> IF e \in B THEN "delivered" ELSE row[e]]
        /\ UNCHANGED mailed
    BY <1>0, WorkerTyped DEF Commit, Mark, IInv
  <1>2. CASE B = {}
    <2>1. row' = row
      BY <1>1, <1>2 DEF IInv, TypeOK
    <2> QED BY <1>1, <2>1 DEF Status
  <1>3. CASE B # {}
    <2>1. \A e \in B : Status[e] = "pending"
      BY <1>1 DEF Status
    <2>2. ASSUME NEW e \in B, e \in Thresholds PROVE mailed[e] > 0
      <3>1. Counted(e) /\ e \in Events
        BY <1>1, <2>2 DEF Counted
      <3>2. undone[e] \in Nat /\ mailed[e] = undone[e] + 1
        BY <3>1 DEF IInv, TypeOK, MailsAccounted
      <3> QED BY <3>2
    <2>3. Status' = [e \in Events |-> IF e \in B THEN "done" ELSE Status[e]]
      BY <1>1 DEF Status
    <2>4. A!TakeOff(B)
      BY <1>1, <1>3, <2>1, <2>2, <2>3 DEF A!TakeOff, Status
    <2> QED BY <2>4 DEF A!Next
  <1> QED BY <1>2, <1>3

LEMMA OutboxStep ==
    ASSUME IInv, [Next]_vars
    PROVE  [A!Next]_(A!vars)
  <1> SUFFICES A!Next \/ UNCHANGED <<Status, mailed>>
    BY DEF A!vars, Status
  <1>0. TypeOK
    BY DEF IInv
  <1>1. ASSUME NEW e \in Events, Emit(e) PROVE A!Next
    <2>1. /\ row[e] = "absent" /\ row' = [row EXCEPT ![e] = "pending"]
          /\ UNCHANGED mailed
      BY <1>1 DEF Emit
    <2>2. Status[e] = "absent" /\ Status' = [Status EXCEPT ![e] = "pending"]
      BY <1>0, <2>1 DEF Status, TypeOK
    <2>3. A!Put(e)
      BY <2>1, <2>2 DEF A!Put, Status
    <2> QED BY <2>3 DEF A!Next
  <1>2. ASSUME UNCHANGED <<row, mailed>>
        PROVE  UNCHANGED <<Status, mailed>>
    BY <1>2 DEF Status
  <1>3. ASSUME NEW w \in Workers, NEW e \in Events, Handle(w, e)
        PROVE  A!Next \/ UNCHANGED <<Status, mailed>>
    <2>1. row[e] = "pending" /\ UNCHANGED row /\ Mail(e)
      BY <1>0, <1>3, WorkerTyped DEF Handle
    <2>2. CASE e \in Thresholds
      BY <1>0, <2>1, <2>2, MailSends DEF Mail
    <2>3. CASE e \notin Thresholds
      BY <1>2, <2>1, <2>3 DEF Mail
    <2> QED BY <2>2, <2>3
  <1>4. ASSUME NEW w \in Workers, NEW e \in Events, MailTimeout(w, e)
        PROVE  A!Next \/ UNCHANGED <<Status, mailed>>
    <2>1. row[e] = "pending" /\ UNCHANGED row /\ e \in Thresholds
      BY <1>0, <1>4, WorkerTyped DEF MailTimeout, Rollback
    <2>2. UNCHANGED mailed \/ mailed' = [mailed EXCEPT ![e] = @ + 1]
      BY <1>4 DEF MailTimeout
    <2> QED BY <1>0, <1>2, <2>1, <2>2, MailSends
  <1>5. ASSUME NEW w \in Workers, Commit(w)
        PROVE  A!Next \/ UNCHANGED <<Status, mailed>>
    BY <1>5, CommitTakesOff
  <1>6. ASSUME NEW w \in Workers, NEW e \in Events, Unreachable(w, e)
        PROVE  UNCHANGED <<row, mailed>>
    BY <1>6 DEF Unreachable, Rollback
  <1>7. ASSUME NEW w \in Workers,
               (\E n \in Tries : Take(w, n)) \/ (\E t \in Tenants : Fetch(w, t))
                 \/ Finish(w) \/ Crash(w) \/ DatabaseError(w) \/ Redeliver(w)
        PROVE  UNCHANGED <<row, mailed>>
    BY <1>7 DEF Take, Fetch, Finish, Crash, DatabaseError, Redeliver, Rollback
  <1>8. CASE Beat \/ Outage \/ Recover \/ UNCHANGED vars
    BY <1>2, <1>8 DEF Beat, Outage, Recover, vars
  <1> QED BY <1>1, <1>2, <1>3, <1>4, <1>5, <1>6, <1>7, <1>8 DEF Next, Work

(* The safety part of ImplementsAtLeastOnce: whatever drains run side by   *)
(* side, fail, are retried or delivered twice, rows are put in once, mails *)
(* are sent of pending rows alone, and a row is taken off once, a          *)
(* threshold's after a mail.  That every row is taken off in the end is    *)
(* left to TLC.                                                            *)
THEOREM DrainsAreAnOutbox == Spec => A!Safety
  <1>1. Init => A!Init
    BY DEF Init, A!Init
  <1>2. IInv /\ [Next]_vars => [A!Next]_(A!vars)
    BY OutboxStep
  <1> QED BY <1>1, <1>2, AlwaysIInv, PTL DEF Spec, A!Safety
=============================================================================
