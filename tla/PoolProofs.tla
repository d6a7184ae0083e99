----------------------------- MODULE PoolProofs -----------------------------
(***************************************************************************)
(* Proofs about Pool, for any number of threads and of connections: the    *)
(* type invariant, and that the pool exhausts itself only by as many calls *)
(* of the nesting kind as it has connections.                              *)
(*                                                                         *)
(* Who waits while it keeps a connection is the first to look at: only     *)
(* Nest makes it, so that it keeps one connection and not two, and what it *)
(* serves has a nested transaction in its plan.  That a plan keeps what is *)
(* in it while it shrinks (OnlyPlannedNests) makes this inductive.  In an  *)
(* exhausted pool each connection is then another nesting thread's.        *)
(***************************************************************************)
EXTENDS Pool, FiniteSetTheorems, TLAPS

NestingKinds == {"create_key", "create_contract"}

Transactions == {"nested", "flat"}

(* The types alone. *)
Fields ==
    /\ kind \in [Calls -> Kinds \cup {"none"}]
    /\ left \in [Calls -> Seq(Transactions)]
    /\ have \in [Calls -> 0..2]
    /\ wants \in [Calls -> BOOLEAN]

(* A thread serves a call as long as something is left of its plan.        *)
BusyOrIdle(c) ==
    /\ kind[c] = "none" <=> left[c] = <<>>
    /\ left[c] = <<>> => have[c] = 0 /\ ~wants[c]

(* A nested transaction is left only of a plan that has one.               *)
OnlyPlannedNests(c) ==
    \A i \in 1..Len(left[c]) :
        left[c][i] = "nested" => kind[c] \in NestingKinds

(* Who waits with a connection has one, and waits for authorize's.         *)
OnlyNestersWait(c) ==
    wants[c] /\ have[c] > 0 => have[c] = 1 /\ kind[c] \in NestingKinds

Sound(c) == BusyOrIdle(c) /\ OnlyPlannedNests(c) /\ OnlyNestersWait(c)

IInv == Fields /\ \A c \in Calls : Sound(c)

(* A step of thread c leaves every other one as it is. *)
StepOf(c) ==
    \A d \in Calls \ {c} :
        /\ kind'[d] = kind[d] /\ left'[d] = left[d]
        /\ have'[d] = have[d] /\ wants'[d] = wants[d]

-----------------------------------------------------------------------------
(* Plans *)

(* A plan that is not empty has a first transaction and a rest. *)
LEMMA PlanRest ==
    ASSUME NEW s \in Seq(Transactions), s # <<>>
    PROVE  /\ Len(s) \in Nat \ {0}
           /\ Head(s) = s[1]
           /\ Tail(s) \in Seq(Transactions)
           /\ Len(Tail(s)) = Len(s) - 1
           /\ \A i \in 1..Len(Tail(s)) : Tail(s)[i] = s[i + 1]
  OBVIOUS

(* Authorize's transaction is done: the first one of the plan is flat.     *)
LEMMA PlanFlattened ==
    ASSUME NEW s \in Seq(Transactions), s # <<>>
    PROVE  LET t == [s EXCEPT ![1] = "flat"]
           IN  /\ t \in Seq(Transactions) /\ t # <<>>
               /\ Len(t) = Len(s)
               /\ \A i \in 1..Len(t) : t[i] = "nested" => s[i] = "nested"
  <1> DEFINE t == [s EXCEPT ![1] = "flat"]
             n == Len(s)
  <1>1. n \in Nat \ {0} /\ s \in [1..n -> Transactions]
    BY PlanRest
  <1>2. t \in [1..n -> Transactions]
    BY <1>1 DEF Transactions
  <1>3. t \in Seq(Transactions) /\ Len(t) = n
    BY <1>1, <1>2
  <1>4. t # <<>>
    BY <1>1, <1>3
  <1>5. \A i \in 1..n : t[i] = "nested" => s[i] = "nested"
    BY <1>1
  <1> QED BY <1>3, <1>4, <1>5

(* The plans of the handlers. *)
LEMMA Plans ==
    ASSUME NEW k \in Kinds
    PROVE  /\ k # "none"
           /\ Plan[k] \in Seq(Transactions) /\ Plan[k] # <<>>
           /\ \A i \in 1..Len(Plan[k]) :
                Plan[k][i] = "nested" => k \in NestingKinds
  <1>1. k \in {"create_key", "create_contract", "create_org", "other"}
    BY DEF Kinds, Plan
  <1>2. CASE k = "create_key"
    BY <1>2 DEF Plan, Transactions, NestingKinds
  <1>3. CASE k = "create_contract"
    BY <1>3 DEF Plan, Transactions, NestingKinds
  <1>4. CASE k = "create_org"
    BY <1>4 DEF Plan, Transactions, NestingKinds
  <1>5. CASE k = "other"
    BY <1>5 DEF Plan, Transactions, NestingKinds
  <1> QED BY <1>1, <1>2, <1>3, <1>4, <1>5

-----------------------------------------------------------------------------
(* The invariant *)

LEMMA InvariantTyped == IInv <=> TypeOK /\ \A c \in Calls : Sound(c)
  BY DEF IInv, Fields, TypeOK, Sound, BusyOrIdle, Transactions

(* It is enough to look at the thread that moves. *)
LEMMA OneThreadMoves ==
    ASSUME IInv, NEW c \in Calls, StepOf(c), Fields', Sound(c)'
    PROVE  IInv'
  <1>1. ASSUME NEW d \in Calls \ {c} PROVE Sound(d)'
    BY <1>1 DEF IInv, StepOf, Sound, BusyOrIdle, OnlyPlannedNests,
                OnlyNestersWait
  <1> QED BY <1>1 DEF IInv

LEMMA InitSound == Init => IInv
  <1> SUFFICES ASSUME Init PROVE IInv
    OBVIOUS
  <1>1. <<>> \in Seq(Transactions) /\ Len(<<>>) = 0
    OBVIOUS
  <1>2. Fields
    BY <1>1 DEF Init, Fields
  <1>3. ASSUME NEW c \in Calls PROVE Sound(c)
    BY <1>1 DEF Init, Sound, BusyOrIdle, OnlyPlannedNests, OnlyNestersWait
  <1> QED BY <1>2, <1>3 DEF IInv

LEMMA BeginSound ==
    ASSUME IInv, NEW c \in Calls, NEW k \in Kinds, Begin(c, k)
    PROVE  IInv'
  <1>1. /\ kind'[c] = k /\ left'[c] = Plan[k] /\ wants'[c] = TRUE
        /\ have'[c] = 0
    BY DEF IInv, Fields, Sound, BusyOrIdle, Begin, Serves
  <1>2. StepOf(c)
    BY DEF IInv, Fields, Begin, StepOf
  <1>3. Fields'
    BY Plans DEF IInv, Fields, Begin
  <1>4. Sound(c)'
    BY <1>1, Plans DEF Sound, BusyOrIdle, OnlyPlannedNests, OnlyNestersWait
  <1> QED BY <1>2, <1>3, <1>4, OneThreadMoves

LEMMA CheckOutSound ==
    ASSUME IInv, NEW c \in Calls, CheckOut(c)
    PROVE  IInv'
  <1>1. Sound(c) /\ Fields
    BY DEF IInv
  <1>2. have[c] \in {0, 1} /\ have'[c] = have[c] + 1 /\ ~wants'[c]
    BY <1>1 DEF Fields, Sound, OnlyNestersWait, CheckOut
  <1>3. StepOf(c)
    BY <1>1 DEF Fields, CheckOut, StepOf
  <1>4. Fields'
    BY <1>1, <1>2 DEF Fields, CheckOut
  <1>5. Sound(c)'
    BY <1>1, <1>2 DEF CheckOut, Sound, BusyOrIdle, OnlyPlannedNests, OnlyNestersWait
  <1> QED BY <1>3, <1>4, <1>5, OneThreadMoves

(* The only step that makes a thread wait while it keeps a connection.     *)
LEMMA NestSound ==
    ASSUME IInv, NEW c \in Calls, Nest(c)
    PROVE  IInv'
  <1>1. Sound(c) /\ Fields
    BY DEF IInv
  <1>2. left[c] \in Seq(Transactions) /\ left[c] # <<>> /\ left[c][1] = "nested"
    BY <1>1, PlanRest DEF Fields, Sound, BusyOrIdle, Nest, Serves
  <1>3. kind[c] \in NestingKinds
    BY <1>1, <1>2, PlanRest DEF Sound, OnlyPlannedNests
  <1>4. StepOf(c)
    BY <1>1 DEF Fields, Nest, StepOf
  <1>5. Fields'
    BY <1>1 DEF Fields, Nest
  <1>6. Sound(c)'
    BY <1>1, <1>3, <1>2 DEF Fields, Nest, Sound, BusyOrIdle, OnlyPlannedNests, OnlyNestersWait
  <1> QED BY <1>4, <1>5, <1>6, OneThreadMoves

LEMMA AuthorizedSound ==
    ASSUME IInv, NEW c \in Calls, Authorized(c)
    PROVE  IInv'
  <1>1. Sound(c) /\ Fields
    BY DEF IInv
  <1> DEFINE t == [left[c] EXCEPT ![1] = "flat"]
  <1>2. left[c] \in Seq(Transactions) /\ left[c] # <<>>
    BY <1>1 DEF Fields, Sound, BusyOrIdle, Authorized, Serves
  <1>3. /\ t \in Seq(Transactions) /\ t # <<>>
        /\ Len(t) = Len(left[c])
        /\ \A i \in 1..Len(t) : t[i] = "nested" => left[c][i] = "nested"
    BY <1>2, PlanFlattened
  <1>4. left' = [left EXCEPT ![c] = t] /\ left'[c] = t
    BY <1>1 DEF Fields, Authorized
  <1>5. kind'[c] = kind[c] /\ kind[c] # "none" /\ wants'[c] = wants[c] /\ ~wants[c]
    BY <1>1 DEF Fields, Sound, OnlyNestersWait, Authorized, Serves
  <1> HIDE DEF t
  <1>6. StepOf(c)
    BY <1>1, <1>4 DEF Fields, Authorized, StepOf
  <1>7. Fields'
    BY <1>1, <1>3, <1>4 DEF Fields, Authorized
  <1>8. Sound(c)'
    BY <1>1, <1>3, <1>4, <1>5 DEF Sound, BusyOrIdle, OnlyPlannedNests, OnlyNestersWait
  <1> QED BY <1>6, <1>7, <1>8, OneThreadMoves

LEMMA EndsSound ==
    ASSUME IInv, NEW c \in Calls, Ends(c)
    PROVE  IInv'
  <1>1. Fields
    BY DEF IInv
  <1>2. <<>> \in Seq(Transactions) /\ Len(<<>>) = 0
    OBVIOUS
  <1>3. StepOf(c)
    BY <1>1 DEF Fields, Ends, StepOf
  <1>4. Fields'
    BY <1>1, <1>2 DEF Fields, Ends
  <1>5. kind'[c] = "none" /\ left'[c] = <<>> /\ have'[c] = 0 /\ ~wants'[c]
    BY <1>1 DEF Fields, Ends
  <1>6. Sound(c)'
    BY <1>2, <1>5 DEF Sound, BusyOrIdle, OnlyPlannedNests, OnlyNestersWait
  <1> QED BY <1>3, <1>4, <1>6, OneThreadMoves

LEMMA GoesOnSound ==
    ASSUME IInv, NEW c \in Calls, Serves(c), Len(left[c]) > 1, GoesOn(c)
    PROVE  IInv'
  <1>1. Sound(c) /\ Fields
    BY DEF IInv
  <1> DEFINE t == Tail(left[c])
  <1>2. left[c] \in Seq(Transactions) /\ left[c] # <<>>
    BY <1>1 DEF Fields, Sound, BusyOrIdle, Serves
  <1>3. /\ t \in Seq(Transactions) /\ Len(t) = Len(left[c]) - 1
        /\ Len(left[c]) \in Nat
        /\ \A i \in 1..Len(t) : t[i] = left[c][i + 1]
    BY <1>2, PlanRest
  <1>4. left' = [left EXCEPT ![c] = t] /\ left'[c] = t
    BY <1>1 DEF Fields, GoesOn
  <1> HIDE DEF t
  <1>5. t # <<>>
    BY <1>3
  <1>6. kind'[c] = kind[c] /\ kind[c] # "none" /\ have'[c] = 0
    BY <1>1 DEF Fields, GoesOn, Serves
  <1>7. StepOf(c)
    BY <1>1, <1>4 DEF Fields, GoesOn, StepOf
  <1>8. Fields'
    BY <1>1, <1>3, <1>4 DEF Fields, GoesOn
  <1>9. OnlyPlannedNests(c)'
    <2>1. ASSUME NEW i \in 1..Len(t), t[i] = "nested"
          PROVE  kind[c] \in NestingKinds
      <3>1. i + 1 \in 1..Len(left[c]) /\ left[c][i + 1] = "nested"
        BY <1>3, <2>1
      <3> QED BY <1>1, <3>1 DEF Sound, OnlyPlannedNests
    <2> QED BY <1>4, <1>6, <2>1 DEF OnlyPlannedNests
  <1>10. Sound(c)'
    BY <1>4, <1>5, <1>6, <1>9 DEF Sound, BusyOrIdle, OnlyNestersWait
  <1> QED BY <1>7, <1>8, <1>10, OneThreadMoves

LEMMA NextSound ==
    ASSUME IInv, [Next]_vars
    PROVE  IInv'
  <1>1. ASSUME NEW c \in Calls, Runs(c) PROVE IInv'
    <2>1. CASE CheckOut(c)
      BY <2>1, CheckOutSound
    <2>2. CASE Nest(c)
      BY <2>2, NestSound
    <2>3. CASE Authorized(c)
      BY <2>3, AuthorizedSound
    <2>4. CASE Commit(c)
      BY <2>4, GoesOnSound, EndsSound DEF Commit
    <2>5. CASE Refuse(c) \/ TimeOut(c)
      BY <2>5, EndsSound DEF Refuse, TimeOut
    <2> QED BY <1>1, <2>1, <2>2, <2>3, <2>4, <2>5 DEF Runs
  <1>2. ASSUME NEW c \in Calls, NEW k \in Kinds, Begin(c, k) PROVE IInv'
    BY <1>2, BeginSound
  <1>3. CASE UNCHANGED vars
    BY <1>3 DEF vars, IInv, Fields, Sound, BusyOrIdle, OnlyPlannedNests,
                OnlyNestersWait
  <1> QED BY <1>1, <1>2, <1>3 DEF Next

LEMMA InvariantHolds == Spec => []IInv
  <1> QED BY InitSound, NextSound, PTL DEF Spec

(* A thread keeps two connections at most, serves a call exactly while     *)
(* something is left of its plan, and keeps nothing when idle: db.py's     *)
(* transaction gives back what it took, however a call ends.               *)
THEOREM PoolTyped == Spec => []TypeOK
  <1>1. IInv => TypeOK
    BY InvariantTyped
  <1> QED BY <1>1, InvariantHolds, PTL

-----------------------------------------------------------------------------
(* Exhaustion *)

(* In an exhausted pool every connection is the first of a nesting thread. *)
LEMMA ConnectionsOfNesting ==
    ASSUME IInv, \A c \in Calls : have[c] > 0 => wants[c]
    PROVE  {x \in Calls \X (1..2) : x[2] <= have[x[1]]}
              \subseteq Nesting \X {1}
  <1>1. ASSUME NEW x \in Calls \X (1..2), x[2] <= have[x[1]]
        PROVE  x[1] \in Nesting /\ x[2] = 1
    <2>1. x[1] \in Calls /\ x[2] \in 1..2 /\ have[x[1]] \in 0..2
      BY DEF IInv, Fields
    <2>2. have[x[1]] > 0 /\ wants[x[1]]
      BY <1>1, <2>1
    <2>3. have[x[1]] = 1 /\ kind[x[1]] \in NestingKinds
      BY <2>1, <2>2 DEF IInv, Sound, OnlyNestersWait
    <2> QED BY <1>1, <2>1, <2>3 DEF Nesting, NestingKinds
  <1> QED BY <1>1

LEMMA NestingCounted ==
    IsFiniteSet(Nesting \X {1}) /\ Cardinality(Nesting \X {1}) = Cardinality(Nesting)
  <1>1. IsFiniteSet(Nesting)
    BY SizeAssumption, FS_Subset DEF Nesting
  <1>2. IsFiniteSet({1}) /\ Cardinality({1}) = 1
    BY FS_Singleton
  <1>3. /\ IsFiniteSet(Nesting \X {1})
        /\ Cardinality(Nesting \X {1}) = Cardinality(Nesting) * Cardinality({1})
    BY <1>1, <1>2, FS_Product
  <1>4. Cardinality(Nesting) \in Nat
    BY <1>1, FS_CardinalityType
  <1>5. Cardinality(Nesting) * Cardinality({1}) = Cardinality(Nesting)
    BY <1>2, <1>4
  <1> QED BY <1>3, <1>5

(* When every connection is kept by a thread that waits for another one,   *)
(* at least as many keys and contracts are being created as the pool has   *)
(* connections: one thread of create_key or create_contract for each.      *)
THEOREM OnlyNestingExhausts == Spec => []ExhaustionIsNested
  <1>1. ASSUME IInv, Exhausted PROVE Cardinality(Nesting) >= Size
    <2>1. InUse = Size /\ \A c \in Calls : have[c] > 0 => wants[c]
      BY <1>1 DEF Exhausted
    <2> DEFINE Kept == {x \in Calls \X (1..2) : x[2] <= have[x[1]]}
    <2>2. Kept \subseteq Nesting \X {1}
      BY <1>1, <2>1, ConnectionsOfNesting
    <2>3. Cardinality(Kept) = Size
      BY <2>1 DEF InUse
    <2> HIDE DEF Kept
    <2>4. Cardinality(Kept) <= Cardinality(Nesting \X {1})
      BY <2>2, NestingCounted, FS_Subset
    <2> QED BY <2>3, <2>4, NestingCounted
  <1>2. IInv => ExhaustionIsNested
    BY <1>1 DEF ExhaustionIsNested
  <1> QED BY <1>2, InvariantHolds, PTL

=============================================================================
