--------------------------- MODULE LockOrderProofs ---------------------------
(***************************************************************************)
(* That a set of transactions that waits for itself has a                  *)
(* close_spend_contract in it, for any number of transactions, rows and    *)
(* months.                                                                 *)
(*                                                                         *)
(* What a transaction holds lies before what it still wants, in one order  *)
(* for all kinds but close.  In a standstill without one, take a member    *)
(* that waits for a row as late in the order as any: the member that holds *)
(* the row waits for a later one.                                          *)
(***************************************************************************)
EXTENDS LockOrder, WellFoundedInduction, TLAPS

(* Rows are given up in the order of their places. *)
Ordered ==
    \A t \in Tx : \A h \in held[t], w \in wants[t] :
        Place(kind[t], h) < Place(kind[t], w)

IInv == TypeOK /\ Ordered

(* The last place there is. *)
LastPlace == LastMonth + LastId + 6

-----------------------------------------------------------------------------
(* Rows and places *)

LEMMA RowOfTables ==
    \A i \in Ids : /\ Budget(i) \in Rows /\ Request(i) \in Rows
                   /\ StepRequest(i) \in Rows /\ Contract(i) \in Rows
                   /\ Slot \in Rows /\ Tenant \in Rows
  <1>1. 0 \in Ids
    BY IdsAssumption DEF Ids
  <1> QED BY <1>1 DEF Rows, Tables, Budget, Request, StepRequest, Contract,
                      Slot, Tenant

LEMMA ChargesAreRows == Charges \subseteq SUBSET Rows
  <1>1. SUFFICES ASSUME NEW m \in Months, NEW c \in SUBSET Children[m]
                 PROVE  {RootRow(m)} \cup {Budget(i) : i \in c} \subseteq Rows
    BY DEF Charges
  <1>2. RootOf[m] \in Ids /\ c \subseteq Ids
    BY IdsAssumption
  <1> QED BY <1>2, RowOfTables DEF RootRow

LEMMA FootprintsAreRows ==
    ASSUME NEW k \in Kinds
    PROVE  Footprints[k] \subseteq SUBSET Rows
  <1>1. Charges \subseteq SUBSET Rows
    BY ChargesAreRows
  <1>2. BudgetRows \subseteq Rows
    BY <1>1 DEF BudgetRows
  <1>3. Slot \in Rows /\ Tenant \in Rows
    <2>1. 0 \in Ids
      BY IdsAssumption DEF Ids
    <2> QED BY <2>1, RowOfTables
  <1>4. /\ RequestRows \subseteq Rows /\ StepRows \subseteq Rows
        /\ ContractRows \subseteq Rows
    BY IdsAssumption, RowOfTables DEF RequestRows, StepRows, ContractRows
  <1>5. RootRows \subseteq Rows
    <2>1. \A m \in Months : RootOf[m] \in Ids
      BY IdsAssumption
    <2> QED BY <2>1, RowOfTables DEF RootRows, RootRow
  <1>6. BudgetLocks \subseteq SUBSET Rows
    <2>1. OneRow(BudgetRows) \subseteq SUBSET Rows
      BY <1>2 DEF OneRow
    <2>2. ASSUME NEW m \in Months, NEW r \in Edited(m)
          PROVE  {RootRow(m), r} \in SUBSET Rows
      <3>1. RootRow(m) \in Rows
        BY IdsAssumption, RowOfTables DEF RootRow
      <3>2. \A n \in Months : Children[n] \cup {RootOf[n]} \subseteq Ids
        BY IdsAssumption
      <3>3. r \in Rows
        BY <3>2, RowOfTables DEF Edited
      <3> QED BY <3>1, <3>3
    <2>3. UNION {{{RootRow(m), r} : r \in Edited(m)} : m \in Months}
            \subseteq SUBSET Rows
      BY <2>2
    <2> QED BY <2>1, <2>3 DEF BudgetLocks
  <1>7. /\ \A S \in SUBSET SUBSET Rows : \A r \in Rows :
             Alike(S, r) \subseteq SUBSET Rows
        /\ \A A, B \in SUBSET SUBSET Rows : Together(A, B) \subseteq SUBSET Rows
        /\ \A S \in SUBSET Rows : OneRow(S) \subseteq SUBSET Rows
    BY DEF Alike, Together, OneRow
  <1>8. k \in AllKinds
    BY KindsAssumption
  <1>9. CASE k = "admit"
    BY <1>1, <1>3, <1>7, <1>9 DEF Footprints
  <1>10. CASE k = "settle"
    BY <1>1, <1>3, <1>4, <1>7, <1>10 DEF Footprints
  <1>11. CASE k = "transition"
    BY <1>4, <1>7, <1>11 DEF Footprints
  <1>12. CASE k = "budget"
    BY <1>6, <1>3, <1>7, <1>12 DEF Footprints
  <1>13. CASE k = "create"
    BY <1>1, <1>3, <1>7, <1>13 DEF Footprints
  <1>14. CASE k = "close"
    BY <1>1, <1>3, <1>4, <1>7, <1>14 DEF Footprints
  <1>15. CASE k = "admit_step"
    BY <1>3, <1>4, <1>7, <1>15 DEF Footprints
  <1>16. CASE k = "settle_step"
    BY <1>3, <1>4, <1>7, <1>16 DEF Footprints
  <1>17. CASE k = "edit"
    BY <1>3, <1>4, <1>7, <1>17 DEF Footprints
  <1>18. CASE k = "move"
    <2>1. OneRow(RootRows) \cup {{}} \subseteq SUBSET Rows
      BY <1>5, <1>7
    <2> QED BY <2>1, <1>3, <1>7, <1>18 DEF Footprints
  <1>19. CASE k = "assign" \/ k = "audit"
    BY <1>3, <1>19 DEF Footprints
  <1> QED BY <1>8, <1>9, <1>10, <1>11, <1>12, <1>13, <1>14, <1>15, <1>16,
             <1>17, <1>18, <1>19 DEF AllKinds

(* Every place is a number up to LastPlace. *)
LEMMA PlacesBounded ==
    ASSUME NEW k, NEW r \in Rows
    PROVE  Place(k, r) \in 0..LastPlace
  <1>1. LastMonth \in Nat /\ LastId \in Nat
    BY IdsAssumption
  <1>2. CASE IsRoot(r) /\ k # "close"
    <2>1. PICK m \in Months : r = Budget(RootOf[m])
      BY <1>2 DEF IsRoot
    <2>2. LastMonth - m \in Months /\ LastMonth - (LastMonth - m) = m
      BY <1>1 DEF Months
    <2>3. \E n \in Months : r = Budget(RootOf[LastMonth - n])
      BY <2>1, <2>2
    <2>4. RootPlace(r) \in Months
      BY <2>3 DEF RootPlace
    <2> QED BY <2>4, <1>1, <1>2 DEF Place, Months, LastPlace
  <1>3. CASE ~(IsRoot(r) /\ k # "close")
    <2>1. r[1] \in Tables /\ r[2] \in Nat /\ r[2] <= LastId
      BY <1>1 DEF Rows, Ids
    <2>2. Later(r) \in 0..(LastId + 5)
      BY <2>1, <1>1 DEF Later, Tables
    <2>3. Place(k, r) = LastMonth + 1 + Later(r)
      BY <1>3 DEF Place
    <2> QED BY <2>2, <2>3, <1>1 DEF LastPlace
  <1> QED BY <1>2, <1>3

(* The order is one for all kinds but close. *)
LEMMA OnePlace ==
    ASSUME NEW j, NEW k, j # "close", k # "close", NEW r
    PROVE  Place(j, r) = Place(k, r)
  BY DEF Place

-----------------------------------------------------------------------------
(* The invariant *)

LEMMA InitKeeps == Init => IInv
  BY DEF Init, IInv, TypeOK, Ordered

LEMMA EndKeeps ==
    ASSUME IInv, NEW t \in Tx, End(t)
    PROVE  IInv'
  BY DEF IInv, TypeOK, Ordered, End

LEMMA StepKeeps == IInv /\ [Next]_vars => IInv'
  <1> SUFFICES ASSUME IInv, [Next]_vars
               PROVE  IInv'
    OBVIOUS
  <1>1. ASSUME NEW t \in Tx, NEW k \in Kinds, Begin(t, k)
        PROVE  IInv'
    <2>1. PICK rows \in Footprints[k] :
             wants' = [wants EXCEPT ![t] = rows]
      BY <1>1 DEF Begin
    <2>2. rows \in SUBSET Rows
      BY FootprintsAreRows
    <2>3. TypeOK'
      BY <1>1, <2>1, <2>2 DEF IInv, TypeOK, Begin
    <2>4. held[t] = {}
      BY <1>1 DEF IInv, TypeOK, Begin
    <2>5. Ordered'
      BY <1>1, <2>1, <2>4 DEF IInv, TypeOK, Ordered, Begin
    <2> QED BY <2>3, <2>5 DEF IInv
  <1>2. ASSUME NEW t \in Tx, Acquire(t)
        PROVE  IInv'
    <2>1. PICK r \in wants[t] :
             /\ IsNext(t, r)
             /\ wants' = [wants EXCEPT ![t] = @ \ {r}]
             /\ held' = [held EXCEPT ![t] = @ \cup {r}]
      BY <1>2 DEF Acquire
    <2>2. TypeOK'
      BY <1>2, <2>1 DEF IInv, TypeOK, Acquire
    <2>3. \A h \in held'[t], w \in wants'[t] :
             Place(kind[t], h) < Place(kind[t], w)
      BY <2>1 DEF IInv, TypeOK, Ordered, IsNext
    <2>4. kind' = kind
      BY <1>2 DEF Acquire
    <2>5. Ordered'
      BY <2>1, <2>3, <2>4 DEF IInv, TypeOK, Ordered
    <2> QED BY <2>2, <2>5 DEF IInv
  <1>3. ASSUME NEW t \in Tx, Commit(t) \/ Refuse(t) \/ Detect(t)
        PROVE  IInv'
    BY <1>3, EndKeeps DEF Commit, Refuse, Detect
  <1>4. CASE UNCHANGED vars
    BY <1>4 DEF IInv, TypeOK, Ordered, vars
  <1> QED BY <1>1, <1>2, <1>3, <1>4 DEF Next

-----------------------------------------------------------------------------
(* No standstill *)

(* t waits for row r, which another member of S holds. *)
WaitsAt(t, r, S) ==
    /\ r \in wants[t] /\ IsNext(t, r)
    /\ \E u \in S : Blocks(u, t, r)

LEMMA OrderPreventsStandstill ==
    ASSUME IInv
    PROVE  DeadlocksNeedAClose
  <1> SUFFICES ASSUME NEW S \in SUBSET Tx, Standstill(S),
                      \A t \in S : kind[t] # "close"
               PROVE  FALSE
    BY DEF DeadlocksNeedAClose
  <1>0. LastPlace \in Nat
    BY IdsAssumption DEF LastPlace
  <1>1. \A t \in S : \E r \in wants[t] : WaitsAt(t, r, S)
    BY DEF Standstill, WaitsFor, WaitsAt
  <1>2. \A t \in S : \A r \in wants[t] :
          r \in Rows /\ Place("admit", r) \in 0..LastPlace
    BY PlacesBounded DEF IInv, TypeOK
  <1> DEFINE Left(r) == LastPlace - Place("admit", r)
             Lefts == {n \in Nat : \E t \in S : \E r \in wants[t] :
                                      WaitsAt(t, r, S) /\ n = Left(r)}
  <1>3. Lefts # {}
    <2>1. PICK t \in S : TRUE
      BY DEF Standstill
    <2>2. PICK r \in wants[t] : WaitsAt(t, r, S)
      BY <1>1
    <2>3. Left(r) \in Nat
      BY <1>0, <1>2
    <2> QED BY <2>2, <2>3
  <1>4. PICK n \in Lefts : \A m \in Lefts : ~(<<m, n>> \in OpToRel(<, Nat))
    BY <1>3, WFMin, NatLessThanWellFounded
  <1>5. \A m \in Lefts : ~(m < n)
    BY <1>4 DEF OpToRel
  <1>6. PICK t \in S : \E r \in wants[t] : WaitsAt(t, r, S) /\ n = Left(r)
    OBVIOUS
  <1>6a. PICK r \in wants[t] : WaitsAt(t, r, S) /\ n = Left(r)
    BY <1>6
  <1>7. PICK u \in S : Blocks(u, t, r)
    BY <1>6a DEF WaitsAt
  <1>8. PICK w \in wants[u] : WaitsAt(u, w, S)
    BY <1>1
  <1>10. kind[u] # "close"
    OBVIOUS
  <1>11. Place(kind[u], r) < Place(kind[u], w)
    BY <1>7, u \in Tx DEF IInv, Ordered, Blocks
  <1>12. Place("admit", r) < Place("admit", w)
    BY <1>10, <1>11, OnePlace
  <1>13. Left(w) \in Nat /\ Left(w) < n
    BY <1>0, <1>2, <1>6a, <1>12
  <1> QED BY <1>5, <1>8, <1>13

(* What a transaction holds and what it has yet to lock are the rows of    *)
(* one run of its function, none of them twice.                            *)
FootprintKept ==
    \A t \in Tx : stage[t] = "running" =>
        /\ kind[t] \in Kinds
        /\ held[t] \cup wants[t] \in Footprints[kind[t]]
        /\ held[t] \cap wants[t] = {}

(* A row that two transactions hold is one that both share. *)
LocksExclude ==
    \A t, u \in Tx : t # u =>
        \A r \in held[t] \cap held[u] :
            ~Alone(kind[t], r) /\ ~Alone(kind[u], r)

LockInv == TypeOK /\ FootprintKept /\ LocksExclude

(* Nothing keeps a transaction that does not wait from its next row. *)
LEMMA NextIsFree ==
    ASSUME NEW t \in Tx, ~Waiting(t), NEW r \in wants[t], IsNext(t, r),
           NEW u \in Tx \ {t}, r \in held[u]
    PROVE  ~Alone(kind[t], r) /\ ~Alone(kind[u], r)
  BY DEF Waiting, WaitsFor, Blocks

LEMMA LocksKeep == IInv /\ LockInv /\ [Next]_vars => LockInv'
  <1> SUFFICES ASSUME IInv, LockInv, [Next]_vars
               PROVE  FootprintKept' /\ LocksExclude'
    BY StepKeeps DEF IInv, LockInv
  <1>1. ASSUME NEW t \in Tx, NEW k \in Kinds, Begin(t, k)
        PROVE  FootprintKept' /\ LocksExclude'
    <2>1. PICK rows \in Footprints[k] :
             wants' = [wants EXCEPT ![t] = rows]
      BY <1>1 DEF Begin
    <2>2. held[t] = {} /\ held' = held
      BY <1>1 DEF LockInv, TypeOK, Begin
    <2>3. /\ kind'[t] = k /\ wants'[t] = rows
          /\ \A u \in Tx \ {t} : /\ kind'[u] = kind[u]
                                 /\ stage'[u] = stage[u]
                                 /\ wants'[u] = wants[u]
      BY <1>1, <2>1 DEF LockInv, TypeOK, Begin
    <2>4. FootprintKept'
      <3>1. held'[t] \cup rows = rows /\ held'[t] \cap rows = {}
        BY <2>2
      <3>2. /\ kind'[t] \in Kinds
            /\ held'[t] \cup wants'[t] \in Footprints[kind'[t]]
            /\ held'[t] \cap wants'[t] = {}
        BY <2>3, <3>1
      <3> QED BY <2>2, <2>3, <3>2 DEF LockInv, FootprintKept
    <2>5. LocksExclude'
      BY <2>2, <2>3 DEF LockInv, LocksExclude
    <2> QED BY <2>4, <2>5
  <1>2. ASSUME NEW t \in Tx, Acquire(t)
        PROVE  FootprintKept' /\ LocksExclude'
    <2>1. PICK r \in wants[t] :
             /\ IsNext(t, r)
             /\ wants' = [wants EXCEPT ![t] = @ \ {r}]
             /\ held' = [held EXCEPT ![t] = @ \cup {r}]
      BY <1>2 DEF Acquire
    <2>2. /\ held'[t] = held[t] \cup {r} /\ wants'[t] = wants[t] \ {r}
          /\ \A u \in Tx \ {t} : held'[u] = held[u] /\ wants'[u] = wants[u]
          /\ kind' = kind /\ stage' = stage
      BY <1>2, <2>1 DEF Acquire, LockInv, TypeOK
    <2>3. FootprintKept'
      <3>1. held'[t] \cup wants'[t] = held[t] \cup wants[t]
        BY <2>2
      <3> QED BY <2>2, <3>1 DEF LockInv, FootprintKept
    <2>4. \A u \in Tx \ {t} : r \in held[u] =>
             ~Alone(kind[t], r) /\ ~Alone(kind[u], r)
      BY <1>2, <2>1, NextIsFree DEF Acquire
    <2>5. LocksExclude'
      BY <2>2, <2>4 DEF LockInv, LocksExclude
    <2> QED BY <2>3, <2>5
  <1>3. ASSUME NEW t \in Tx, Commit(t) \/ Refuse(t) \/ Detect(t)
        PROVE  FootprintKept' /\ LocksExclude'
    <2>1. End(t)
      BY <1>3 DEF Commit, Refuse, Detect
    <2>2. /\ held'[t] = {} /\ stage'[t] = "ended" /\ kind' = kind
          /\ \A u \in Tx \ {t} : /\ held'[u] = held[u]
                                 /\ stage'[u] = stage[u]
                                 /\ wants'[u] = wants[u]
      BY <2>1 DEF End, LockInv, TypeOK
    <2> QED BY <2>2 DEF LockInv, FootprintKept, LocksExclude
  <1>4. CASE UNCHANGED vars
    BY <1>4 DEF LockInv, FootprintKept, LocksExclude, vars
  <1> QED BY <1>1, <1>2, <1>3, <1>4 DEF Next

(* A transaction in flight locks the rows of its function and no others,   *)
(* each once; it holds none before it begins or after it ends              *)
(* (domain/db.py:12-15); and two transactions hold one row together only   *)
(* where both do no more than refer to the tenant's (accounting.py:42,64,   *)
(* control_api/main.py:388,449).                                           *)
THEOREM LocksKeepFootprints ==
    Spec => [](TypeOK /\ FootprintKept /\ LocksExclude)
  <1>1. Init => IInv /\ LockInv
    BY InitKeeps DEF Init, IInv, LockInv, FootprintKept, LocksExclude
  <1>2. IInv /\ LockInv /\ [Next]_vars => IInv' /\ LockInv'
    BY StepKeeps, LocksKeep
  <1>3. LockInv => TypeOK /\ FootprintKept /\ LocksExclude
    BY DEF LockInv
  <1> QED BY <1>1, <1>2, <1>3, PTL DEF Spec

(* Admissions, settlements, budget edits, moves, memberships, contracts    *)
(* and their steps take their row locks in one order: no set of them ever  *)
(* waits for itself without a close (accounting.py:103, main.py:252,445).  *)
THEOREM NoCycleOfWaits == Spec => []DeadlocksNeedAClose
  <1>1. IInv => DeadlocksNeedAClose
    BY OrderPreventsStandstill
  <1> QED BY <1>1, InitKeeps, StepKeeps, PTL DEF Spec
=============================================================================
