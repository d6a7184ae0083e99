-------------------------- MODULE AccountingProofs --------------------------
(***************************************************************************)
(* Proofs about Accounting, for every value of its constants: the type     *)
(* invariant, the balance of the books, the life of a reservation, and     *)
(* what no step may do to a final request or to a limit.                   *)
(*                                                                         *)
(* None of the invariants is inductive by itself.  That the totals balance *)
(* after a settlement needs that nothing of the request was settled or     *)
(* charged before (PostingsFollowState) and, after an admission, that a    *)
(* fresh row has no reservation; that a recorded cost is a number needs    *)
(* that whoever reconciles a request knows an existing one (RowsKnown).    *)
(* IInv is the conjunction.                                                *)
(***************************************************************************)
EXTENDS Accounting, FiniteSetTheorems, TLAPS

-----------------------------------------------------------------------------
(* Sums.  What the proofs need to know of SumFunction over a finite set of *)
(* natural numbers: it is a natural number, it is 0 when every term is, it *)
(* moves by exactly what one term moves, it grows with its terms, zeros    *)
(* may be left out of it, and it splits where its domain does.             *)
(*                                                                         *)
(* SumFunction is defined by recursion over the subsets of its domain.     *)
(* That such a function exists is shown by exhibiting one, the cardinality *)
(* of a set of marks; that it is the only one, by looking at a smallest    *)
(* subset where the two differ.  The rest is counting marks.               *)

Body(f, h, s) ==
    IF s = {} THEN 0
    ELSE LET x == CHOOSE x \in s : TRUE IN f[x] + h[s \ {x}]

(* The sums of f over every subset of S. *)
Partial(f, S) == CHOOSE h : h = [s \in SUBSET S |-> Body(f, h, s)]

(* f[x] marks for every x of s. *)
MarksOf(f, s) == UNION {{x} \X (1..f[x]) : x \in s}

(* SumFunction is the last of the partial sums. *)
LEMMA SumIsPartial ==
    ASSUME NEW f, NEW S, S = DOMAIN f
    PROVE  SumFunction(f) = Partial(f, S)[S]
  BY DEF SumFunction, SumFunctionOnSet, FoldFunctionOnSet, MapThenFoldSet,
         Partial, Body

(* A set of subsets of a finite set has a member with no smaller one. *)
LEMMA SmallestSubset ==
    ASSUME NEW S, IsFiniteSet(S), NEW B, B \subseteq SUBSET S, B # {}
    PROVE  \E m \in B : \A t \in B : t \subseteq m => t = m
  <1>1. IsWellFoundedOn(StrictSubsetOrdering(S), FiniteSubsetsOf(S))
    BY FS_StrictSubsetOrderingWellFounded
  <1>2. B \subseteq FiniteSubsetsOf(S)
    BY FS_FiniteSubsetsOfFinite
  <1>3. PICK m \in B : \A t \in B : ~(<<t, m>> \in StrictSubsetOrdering(S))
    BY <1>1, <1>2, WFMin
  <1>4. \A t \in B : t \subseteq m => t = m
    BY <1>3 DEF StrictSubsetOrdering
  <1> QED BY <1>4

LEMMA MarksStep ==
    ASSUME NEW S, NEW f \in [S -> Nat], NEW s \in SUBSET S, NEW x \in s
    PROVE  /\ MarksOf(f, s) = MarksOf(f, s \ {x}) \cup ({x} \X (1..f[x]))
           /\ MarksOf(f, s \ {x}) \cap ({x} \X (1..f[x])) = {}
  BY DEF MarksOf

LEMMA UpTo ==
    ASSUME NEW n \in Nat
    PROVE  IsFiniteSet(1..n) /\ Cardinality(1..n) = n
  BY FS_Interval

LEMMA SingletonOf ==
    ASSUME NEW x
    PROVE  IsFiniteSet({x}) /\ Cardinality({x}) = 1
  BY FS_Singleton

LEMMA MarksFinite ==
    ASSUME NEW S, IsFiniteSet(S), NEW f \in [S -> Nat], NEW s \in SUBSET S
    PROVE  IsFiniteSet(MarksOf(f, s))
  <1> DEFINE Bad == {t \in SUBSET S : ~IsFiniteSet(MarksOf(f, t))}
  <1>1. Bad = {}
    <2>1. SUFFICES ASSUME Bad # {} PROVE FALSE
      OBVIOUS
    <2>2. PICK m \in Bad : \A t \in Bad : t \subseteq m => t = m
      <3>1. Bad \subseteq SUBSET S
        OBVIOUS
      <3> HIDE DEF Bad
      <3> QED BY <2>1, <3>1, SmallestSubset
    <2>0. m \in SUBSET S
      OBVIOUS
    <2>3. m # {}
      <3>1. MarksOf(f, {}) = {}
        BY DEF MarksOf
      <3> QED BY <3>1, FS_EmptySet
    <2>4. PICK x \in m : TRUE
      BY <2>3
    <2>5. IsFiniteSet(MarksOf(f, m \ {x}))
      BY <2>2, <2>4
    <2>6. IsFiniteSet({x} \X (1..f[x]))
      <3>1. f[x] \in Nat
        BY <2>0, <2>4
      <3>2. IsFiniteSet({x}) /\ IsFiniteSet(1..f[x])
        BY <3>1, SingletonOf, UpTo
      <3> QED BY <3>2, FS_Product
    <2>7. MarksOf(f, m) = MarksOf(f, m \ {x}) \cup ({x} \X (1..f[x]))
      BY <2>0, <2>4, MarksStep
    <2>8. IsFiniteSet(MarksOf(f, m \ {x}) \cup ({x} \X (1..f[x])))
      <3> HIDE DEF Bad
      <3> QED BY <2>5, <2>6, FS_Union
    <2> QED BY <2>7, <2>8
  <1> QED BY <1>1

LEMMA CountMarks ==
    ASSUME NEW S, IsFiniteSet(S), NEW f \in [S -> Nat],
           NEW s \in SUBSET S, NEW x \in s
    PROVE  Cardinality(MarksOf(f, s)) =
             f[x] + Cardinality(MarksOf(f, s \ {x}))
  <1> DEFINE X == {x} \X (1..f[x])
             Rest == MarksOf(f, s \ {x})
  <1>1. IsFiniteSet(X) /\ Cardinality(X) = f[x]
    <2>1. f[x] \in Nat
      OBVIOUS
    <2>2. IsFiniteSet({x}) /\ Cardinality({x}) = 1
      BY SingletonOf
    <2>3. IsFiniteSet(1..f[x]) /\ Cardinality(1..f[x]) = f[x]
      BY <2>1, UpTo
    <2>4. /\ IsFiniteSet({x} \X (1..f[x]))
          /\ Cardinality({x} \X (1..f[x])) = Cardinality({x}) * Cardinality(1..f[x])
      BY <2>2, <2>3, FS_Product
    <2>5. Cardinality({x}) * Cardinality(1..f[x]) = 1 * f[x]
      BY <2>2, <2>3
    <2> QED BY <2>1, <2>4, <2>5
  <1>2. IsFiniteSet(Rest) /\ Cardinality(Rest) \in Nat
    BY MarksFinite, FS_CardinalityType
  <1>3. MarksOf(f, s) = Rest \cup X /\ Rest \cap X = {}
    BY MarksStep
  <1>4. Cardinality(Rest \cap X) = 0
    BY <1>3, FS_EmptySet
  <1>5. Cardinality(MarksOf(f, s)) =
          Cardinality(Rest) + Cardinality(X) - Cardinality(Rest \cap X)
    BY <1>1, <1>2, <1>3, FS_Union
  <1> QED BY <1>1, <1>2, <1>4, <1>5

(* The partial sums satisfy their recursion. *)
LEMMA PartialStep ==
    ASSUME NEW S, IsFiniteSet(S), NEW f \in [S -> Nat]
    PROVE  Partial(f, S) = [s \in SUBSET S |-> Body(f, Partial(f, S), s)]
  <1> DEFINE h == [s \in SUBSET S |-> Cardinality(MarksOf(f, s))]
  <1>1. ASSUME NEW s \in SUBSET S PROVE h[s] = Body(f, h, s)
    <2>1. CASE s = {}
      <3>1. MarksOf(f, {}) = {}
        BY DEF MarksOf
      <3> QED BY <2>1, <3>1, FS_EmptySet DEF Body
    <2>2. CASE s # {}
      <3> DEFINE x == CHOOSE x \in s : TRUE
      <3>1. x \in s
        BY <2>2
      <3>2. s \ {x} \in SUBSET S
        OBVIOUS
      <3>3. Cardinality(MarksOf(f, s)) = f[x] + Cardinality(MarksOf(f, s \ {x}))
        <4> HIDE DEF h, x
        <4> QED BY <3>1, CountMarks
      <3>4. h[s] = f[x] + h[s \ {x}]
        BY <3>2, <3>3
      <3> QED BY <2>2, <3>4 DEF Body
    <2> QED BY <2>1, <2>2
  <1>2. h = [s \in SUBSET S |-> Body(f, h, s)]
    BY <1>1
  <1> QED BY <1>2 DEF Partial

(* One step of it, at any non-empty subset. *)
LEMMA PartialAt ==
    ASSUME NEW S, IsFiniteSet(S), NEW f \in [S -> Nat]
    PROVE  /\ Partial(f, S)[{}] = 0
           /\ \A s \in SUBSET S :
                s # {} =>
                  LET x == CHOOSE x \in s : TRUE
                  IN  Partial(f, S)[s] = f[x] + Partial(f, S)[s \ {x}]
  <1> DEFINE h == Partial(f, S)
  <1>1. h = [s \in SUBSET S |-> Body(f, h, s)]
    BY PartialStep
  <1> HIDE DEF h
  <1>2. \A s \in SUBSET S : h[s] = Body(f, h, s)
    BY <1>1
  <1>3. h[{}] = 0
    BY <1>2 DEF Body
  <1>4. ASSUME NEW s \in SUBSET S, s # {}
        PROVE  LET x == CHOOSE x \in s : TRUE IN h[s] = f[x] + h[s \ {x}]
    BY <1>2, <1>4 DEF Body
  <1> QED BY <1>3, <1>4 DEF h

(* The partial sums count the marks: there is no smallest exception. *)
LEMMA PartialIsCount ==
    ASSUME NEW S, IsFiniteSet(S), NEW f \in [S -> Nat], NEW s \in SUBSET S
    PROVE  Partial(f, S)[s] = Cardinality(MarksOf(f, s))
  <1> DEFINE h == Partial(f, S)
             Bad == {t \in SUBSET S : h[t] # Cardinality(MarksOf(f, t))}
  <1>1. Bad = {}
    <2>1. SUFFICES ASSUME Bad # {} PROVE FALSE
      OBVIOUS
    <2>2. PICK m \in Bad : \A t \in Bad : t \subseteq m => t = m
      <3>1. Bad \subseteq SUBSET S
        OBVIOUS
      <3> HIDE DEF Bad
      <3> QED BY <2>1, <3>1, SmallestSubset
    <2>0. m \in SUBSET S
      OBVIOUS
    <2>3. m # {}
      <3>1. h[{}] = 0
        BY PartialAt
      <3>2. MarksOf(f, {}) = {}
        BY DEF MarksOf
      <3> QED BY <3>1, <3>2, FS_EmptySet
    <2> DEFINE x == CHOOSE x \in m : TRUE
    <2>4. x \in m
      BY <2>3
    <2>5. h[m \ {x}] = Cardinality(MarksOf(f, m \ {x}))
      BY <2>2, <2>4
    <2>6. h[m] = f[x] + h[m \ {x}]
      BY <2>3, PartialAt
    <2>7. Cardinality(MarksOf(f, m)) = f[x] + Cardinality(MarksOf(f, m \ {x}))
      <3> HIDE DEF h, x, Bad
      <3> QED BY <2>0, <2>4, CountMarks
    <2> QED BY <2>5, <2>6, <2>7
  <1> QED BY <1>1

(* A sum is the number of the marks of its terms. *)
LEMMA SumIsCount ==
    ASSUME NEW S, IsFiniteSet(S), NEW f \in [S -> Nat]
    PROVE  /\ IsFiniteSet(MarksOf(f, S))
           /\ SumFunction(f) = Cardinality(MarksOf(f, S))
  <1>1. S \in SUBSET S
    OBVIOUS
  <1> QED BY <1>1, SumIsPartial, PartialIsCount, MarksFinite

(* SumFunction of natural numbers over a finite set is one. *)
LEMMA SumNat ==
    ASSUME NEW S, IsFiniteSet(S), NEW f \in [S -> Nat]
    PROVE  SumFunction(f) \in Nat
  BY SumIsCount, FS_CardinalityType

(* A sum of zeros is zero. *)
LEMMA SumZero ==
    ASSUME NEW S, IsFiniteSet(S), NEW f \in [S -> Nat],
           \A x \in S : f[x] = 0
    PROVE  SumFunction(f) = 0
  <1>1. MarksOf(f, S) = {}
    BY DEF MarksOf
  <1> QED BY <1>1, SumIsCount, FS_EmptySet

(* A term and the marks of all the others. *)
LEMMA SumTerm ==
    ASSUME NEW S, IsFiniteSet(S), NEW f \in [S -> Nat], NEW x \in S
    PROVE  /\ Cardinality(MarksOf(f, S \ {x})) \in Nat
           /\ SumFunction(f) = f[x] + Cardinality(MarksOf(f, S \ {x}))
           /\ f[x] <= SumFunction(f)
  <1>1. S \in SUBSET S /\ S \ {x} \in SUBSET S /\ f[x] \in Nat
    OBVIOUS
  <1>2. Cardinality(MarksOf(f, S \ {x})) \in Nat
    BY <1>1, MarksFinite, FS_CardinalityType
  <1>3. SumFunction(f) = f[x] + Cardinality(MarksOf(f, S \ {x}))
    BY <1>1, SumIsCount, CountMarks
  <1> QED BY <1>1, <1>2, <1>3

(* Two functions that agree but at x have sums that differ as they do.     *)
LEMMA SumUpdate ==
    ASSUME NEW S, IsFiniteSet(S), NEW f \in [S -> Nat], NEW g \in [S -> Nat],
           NEW x \in S, \A y \in S \ {x} : g[y] = f[y]
    PROVE  SumFunction(g) = SumFunction(f) + g[x] - f[x]
  <1>1. MarksOf(g, S \ {x}) = MarksOf(f, S \ {x})
    BY DEF MarksOf
  <1>2. f[x] \in Nat /\ g[x] \in Nat
    OBVIOUS
  <1> QED BY <1>1, <1>2, SumTerm

(* A sum grows with its terms. *)
LEMMA SumMonotone ==
    ASSUME NEW S, IsFiniteSet(S), NEW f \in [S -> Nat], NEW g \in [S -> Nat],
           \A x \in S : f[x] <= g[x]
    PROVE  SumFunction(f) <= SumFunction(g)
  <1>1. \A x \in S : 1..f[x] \subseteq 1..g[x]
    <2> TAKE x \in S
    <2>1. f[x] \in Nat /\ g[x] \in Nat /\ f[x] <= g[x]
      OBVIOUS
    <2> QED BY <2>1
  <1>2. MarksOf(f, S) \subseteq MarksOf(g, S)
    BY <1>1 DEF MarksOf
  <1> QED BY <1>2, SumIsCount, FS_Subset

(* Terms that are zero may be left out of a sum. *)
LEMMA SumRestrict ==
    ASSUME NEW S, IsFiniteSet(S), NEW T \in SUBSET S,
           NEW f \in [T -> Nat], NEW g \in [S -> Nat],
           \A x \in S : g[x] = IF x \in T THEN f[x] ELSE 0
    PROVE  SumFunction(g) = SumFunction(f)
  <1>1. IsFiniteSet(T)
    BY FS_Subset
  <1>2. \A x \in S \ T : 1..g[x] = {}
    OBVIOUS
  <1>3. \A x \in T : 1..g[x] = 1..f[x]
    OBVIOUS
  <1>4. MarksOf(g, S) = MarksOf(f, T)
    BY <1>2, <1>3 DEF MarksOf
  <1> QED BY <1>1, <1>4, SumIsCount

(* A sum over two disjoint sets is the sum over one and over the other.    *)
LEMMA SumSplit ==
    ASSUME NEW S, IsFiniteSet(S), NEW T, IsFiniteSet(T), S \cap T = {},
           NEW f \in [S -> Nat], NEW g \in [T -> Nat],
           NEW h \in [S \cup T -> Nat],
           \A x \in S : h[x] = f[x], \A x \in T : h[x] = g[x]
    PROVE  SumFunction(h) = SumFunction(f) + SumFunction(g)
  <1>1. IsFiniteSet(S \cup T)
    BY FS_Union
  <1>2. MarksOf(h, S \cup T) = MarksOf(f, S) \cup MarksOf(g, T)
    BY DEF MarksOf
  <1>3. MarksOf(f, S) \cap MarksOf(g, T) = {}
    BY DEF MarksOf
  <1>4. /\ IsFiniteSet(MarksOf(f, S)) /\ SumFunction(f) = Cardinality(MarksOf(f, S))
        /\ IsFiniteSet(MarksOf(g, T)) /\ SumFunction(g) = Cardinality(MarksOf(g, T))
        /\ SumFunction(h) = Cardinality(MarksOf(h, S \cup T))
    BY <1>1, SumIsCount
  <1>5. Cardinality(MarksOf(f, S) \cap MarksOf(g, T)) = 0
    BY <1>3, FS_EmptySet
  <1>6. Cardinality(MarksOf(f, S)) \in Nat /\ Cardinality(MarksOf(g, T)) \in Nat
    BY <1>4, FS_CardinalityType
  <1>7. Cardinality(MarksOf(f, S) \cup MarksOf(g, T)) =
          Cardinality(MarksOf(f, S)) + Cardinality(MarksOf(g, T))
            - Cardinality(MarksOf(f, S) \cap MarksOf(g, T))
    BY <1>4, FS_Union
  <1>8. SumFunction(h) = SumFunction(f) + SumFunction(g) - 0
    BY <1>2, <1>4, <1>5, <1>7
  <1>9. SumFunction(f) \in Nat /\ SumFunction(g) \in Nat
    BY <1>4, <1>6
  <1> QED BY <1>8, <1>9

(* The sum of numbers of which all but one are zero is that one. *)
LEMMA SumOfOne ==
    ASSUME NEW S, IsFiniteSet(S), NEW f \in [S -> Nat], NEW x \in S,
           \A y \in S \ {x} : f[y] = 0
    PROVE  SumFunction(f) = f[x]
  <1> DEFINE z == [y \in S |-> 0]
  <1>1. z \in [S -> Nat] /\ z[x] = 0 /\ f[x] \in Nat
    OBVIOUS
  <1>2. \A y \in S \ {x} : f[y] = z[y]
    OBVIOUS
  <1>3. SumFunction(z) = 0
    BY SumZero
  <1> HIDE DEF z
  <1>4. SumFunction(f) = SumFunction(z) + f[x] - z[x]
    BY <1>1, <1>2, SumUpdate
  <1> QED BY <1>1, <1>3, <1>4

-----------------------------------------------------------------------------
(* The invariant *)

(* A row exists exactly when its state says so, one that does not exist   *)
(* holds nothing, and only existing ones are being reconciled.            *)
RowsKnown ==
    /\ \A r \in Requests : state[r] = "absent" <=> request[r] = Nobody
    /\ \A r \in Requests : state[r] = "absent" =>
         \A b \in Budgets : reservation[r][b] = 0
    /\ \A x \in Admins : reconciling[x] # Idle =>
         state[reconciling[x]] # "absent"

(* PostingsFollowState has two parts: what is posted, and what is told. *)
EntriesKnown == \A r \in Requests, b \in Budgets : EntriesFollow(r, b)
UsageToldOnce ==
    \A r \in Requests :
        usage_events[r] = (IF state[r] \in Final THEN 1 ELSE 0)

(* The part of the invariant that does not compare sums, nor count events. *)
Sound == TypeOK /\ RowsKnown /\ EntriesKnown

IInv == Sound /\ UsageToldOnce /\ BooksBalance

OpenOf(b) == [r \in Requests |-> OpenAmount(r, b)]
ChargedOf(b) == [r \in Requests |-> ChargedAmount(r, b)]

-----------------------------------------------------------------------------
(* The terms of the sums *)

LEMMA AmountsAreNat ==
    ASSUME TypeOK, NEW b \in Budgets
    PROVE  OpenOf(b) \in [Requests -> Nat] /\ ChargedOf(b) \in [Requests -> Nat]
  <1>1. \A r \in Requests : OpenAmount(r, b) \in Nat
    BY DEF TypeOK, OpenAmount
  <1>2. \A r \in Requests : ChargedAmount(r, b) \in Nat
    <2>1. \A r \in Requests : ledger[r][b].settle \in Nat \cup {NoEntry}
      BY DEF TypeOK, Posting
    <2> QED BY <2>1 DEF ChargedAmount
  <1> QED BY <1>1, <1>2 DEF OpenOf, ChargedOf

(* The same of the state after a step. *)
LEMMA AmountsStayNat ==
    ASSUME TypeOK', NEW b \in Budgets
    PROVE  /\ OpenOf(b)' \in [Requests -> Nat]
           /\ ChargedOf(b)' \in [Requests -> Nat]
  <1>1. \A r \in Requests : OpenAmount(r, b)' \in Nat
    BY DEF TypeOK, OpenAmount
  <1>2. \A r \in Requests : ChargedAmount(r, b)' \in Nat
    <2>1. \A r \in Requests : ledger'[r][b].settle \in Nat \cup {NoEntry}
      BY DEF TypeOK, Posting
    <2> QED BY <2>1 DEF ChargedAmount
  <1> QED BY <1>1, <1>2 DEF OpenOf, ChargedOf

(* The sums of row b when only request r moves. *)
LEMMA SumsMove ==
    ASSUME TypeOK, TypeOK', NEW r \in Requests, NEW b \in Budgets,
           \A q \in Requests \ {r} :
               /\ OpenAmount(q, b)' = OpenAmount(q, b)
               /\ ChargedAmount(q, b)' = ChargedAmount(q, b)
    PROVE  /\ SumFunction(OpenOf(b)') = SumFunction(OpenOf(b))
                                        + OpenAmount(r, b)' - OpenAmount(r, b)
           /\ SumFunction(ChargedOf(b)') = SumFunction(ChargedOf(b))
                                  + ChargedAmount(r, b)' - ChargedAmount(r, b)
  <1>1. /\ OpenOf(b) \in [Requests -> Nat]
        /\ ChargedOf(b) \in [Requests -> Nat]
        /\ OpenOf(b)' \in [Requests -> Nat]
        /\ ChargedOf(b)' \in [Requests -> Nat]
    BY AmountsAreNat, AmountsStayNat
  <1>2. IsFiniteSet(Requests)
    BY RequestsAssumption
  <1>3. \A q \in Requests : /\ OpenOf(b)[q] = OpenAmount(q, b)
                            /\ ChargedOf(b)[q] = ChargedAmount(q, b)
                            /\ OpenOf(b)'[q] = OpenAmount(q, b)'
                            /\ ChargedOf(b)'[q] = ChargedAmount(q, b)'
    BY DEF OpenOf, ChargedOf
  <1>4. SumFunction(OpenOf(b)') =
          SumFunction(OpenOf(b)) + OpenOf(b)'[r] - OpenOf(b)[r]
    BY <1>1, <1>2, <1>3, SumUpdate
  <1>5. SumFunction(ChargedOf(b)') =
          SumFunction(ChargedOf(b)) + ChargedOf(b)'[r] - ChargedOf(b)[r]
    BY <1>1, <1>2, <1>3, SumUpdate
  <1> QED BY <1>3, <1>4, <1>5

LEMMA BooksBalanceDef ==
    BooksBalance <=> \A b \in Budgets : /\ reserved[b] = SumFunction(OpenOf(b))
                                        /\ spent[b] = SumFunction(ChargedOf(b))
  BY DEF BooksBalance, OpenOf, ChargedOf

LEMMA PostingsHaveTwoParts ==
    PostingsFollowState <=> UsageToldOnce /\ EntriesKnown
  BY DEF PostingsFollowState, UsageToldOnce, EntriesKnown

-----------------------------------------------------------------------------
(* Initially *)

LEMMA SoundInitially == Init => Sound
  <1> SUFFICES ASSUME Init PROVE Sound
    OBVIOUS
  <1>1. TypeOK
    <2>1. 0 \in Days /\ First \in Budgets
      BY ClockAssumption, CapsAssumption DEF Days, First, Root, Budgets
    <2>2. /\ hard_limit \in [Budgets -> Nat]
          /\ version \in [Budgets -> 0..MaxVersion]
      BY NumbersAssumption DEF Init
    <2>3. NoPostings \in [reserve : Posting, settle : Posting, release : Posting]
      BY DEF NoPostings, Posting
    <2> QED BY <2>1, <2>2, <2>3 DEF Init, TypeOK, States
  <1>2. RowsKnown
    BY DEF Init, RowsKnown
  <1>3. EntriesKnown
    BY DEF Init, EntriesKnown, EntriesFollow, Final
  <1> QED BY <1>1, <1>2, <1>3 DEF Sound

LEMMA SumsInitially ==
    ASSUME Init, NEW b \in Budgets
    PROVE  SumFunction(OpenOf(b)) = 0 /\ SumFunction(ChargedOf(b)) = 0
  <1>1. /\ \A r \in Requests : OpenOf(b)[r] = 0
        /\ \A r \in Requests : ChargedOf(b)[r] = 0
    BY DEF Init, OpenOf, ChargedOf, OpenAmount, ChargedAmount, NoPostings
  <1>2. OpenOf(b) \in [Requests -> Nat] /\ ChargedOf(b) \in [Requests -> Nat]
    BY SoundInitially, AmountsAreNat DEF Sound
  <1> QED BY <1>1, <1>2, SumZero, RequestsAssumption

LEMMA Initially == Init => IInv
  <1> SUFFICES ASSUME Init PROVE IInv
    OBVIOUS
  <1>1. Sound
    BY SoundInitially
  <1>2. UsageToldOnce
    BY DEF Init, UsageToldOnce, Final
  <1>3. BooksBalance
    BY SumsInitially, BooksBalanceDef DEF Init
  <1> QED BY <1>1, <1>2, <1>3 DEF IInv

-----------------------------------------------------------------------------
(* Steps that move one request *)

(* r is the only request whose amounts move, and every total moves by what *)
(* r's amounts move by.                                                    *)
BooksMove(r) ==
    /\ \A b \in Budgets, q \in Requests \ {r} :
          /\ OpenAmount(q, b)' = OpenAmount(q, b)
          /\ ChargedAmount(q, b)' = ChargedAmount(q, b)
    /\ \A b \in Budgets :
          /\ reserved'[b] = reserved[b] + OpenAmount(r, b)' - OpenAmount(r, b)
          /\ spent'[b] = spent[b] + ChargedAmount(r, b)' - ChargedAmount(r, b)

(* The books then still balance. *)
LEMMA BalanceMoves ==
    ASSUME TypeOK, TypeOK', BooksBalance, NEW r \in Requests, BooksMove(r)
    PROVE  BooksBalance'
  <1>1. ASSUME NEW b \in Budgets
        PROVE  /\ reserved'[b] = SumFunction(OpenOf(b)')
               /\ spent'[b] = SumFunction(ChargedOf(b)')
    <2>1. /\ reserved[b] = SumFunction(OpenOf(b))
          /\ spent[b] = SumFunction(ChargedOf(b))
      BY BooksBalanceDef
    <2>2. /\ SumFunction(OpenOf(b)') = SumFunction(OpenOf(b))
                                        + OpenAmount(r, b)' - OpenAmount(r, b)
          /\ SumFunction(ChargedOf(b)') = SumFunction(ChargedOf(b))
                                  + ChargedAmount(r, b)' - ChargedAmount(r, b)
      BY SumsMove DEF BooksMove
    <2> QED BY <2>1, <2>2 DEF BooksMove
  <1> QED BY <1>1 DEF BooksBalance, OpenOf, ChargedOf

(* A request without a row is nowhere in the books. *)
LEMMA AbsentHoldsNothing ==
    ASSUME Sound, NEW r \in Requests, state[r] = "absent"
    PROVE  \A b \in Budgets : /\ reservation[r][b] = 0
                              /\ ~settled[r][b]
                              /\ ledger[r][b] = NoPostings
  BY DEF Sound, RowsKnown, EntriesKnown, EntriesFollow

(* A bound of a payload, in the unit of a row, is a positive number. *)
LEMMA BoundsArePositive ==
    ASSUME NEW p \in Payloads, NEW b \in Budgets
    PROVE  Bound[p][Unit(b)] \in Nat \ {0}
  BY BoundAssumption, CapsAssumption DEF Budgets, Unit

(* The postings of a fresh reservation. *)
LEMMA OpenedEntry ==
    ASSUME NEW n \in Nat
    PROVE  /\ Opened(n).reserve = n
           /\ Opened(n).settle = NoEntry
           /\ Opened(n).release = NoEntry
  BY DEF Opened

LEMMA AdmitSound ==
    ASSUME Sound, NEW r \in Requests, NEW k \in Keys, NEW i \in Idems,
           NEW p \in Payloads, NEW dm \in Days, NEW dd \in Days,
           Admit(r, k, i, p, dm, dd)
    PROVE  Sound' /\ BooksMove(r)
  <1> DEFINE charged == Charged(KeyApp[k], dm, dd)
             amount == [b \in Budgets |->
                          IF b \in charged THEN Bound[p][Unit(b)] ELSE 0]
             row == [key |-> k, idem |-> i, payload |-> p,
                     month |-> MonthOf[dm]]
  <1>0. TypeOK /\ RowsKnown /\ EntriesKnown
    BY DEF Sound
  <1>1. /\ state[r] = "absent"
        /\ reserved' = [b \in Budgets |-> reserved[b] + amount[b]]
        /\ reservation' = [reservation EXCEPT ![r] = amount]
        /\ ledger' = [ledger EXCEPT ![r] = [b \in Budgets |->
              IF b \in charged THEN Opened(amount[b]) ELSE NoPostings]]
        /\ alerts' = [b \in Budgets |->
              IF b \in charged THEN Alerted(b, amount[b]) ELSE alerts[b]]
        /\ request' = [request EXCEPT ![r] = row]
        /\ state' = [state EXCEPT ![r] = "reserved"]
        /\ UNCHANGED <<day, rows, hard_limit, version, paused, revoked,
                       spent, cost, settled, usage_events, reconciling>>
    BY DEF Admit, Reserve, controls
  <1>2. \A b \in Budgets : amount[b] \in Nat /\ (b \in charged => amount[b] > 0)
    BY BoundsArePositive
  <1>3. amount \in [Budgets -> Nat]
    BY <1>2
  <1>4. \A b \in Budgets : b \notin charged => amount[b] = 0
    OBVIOUS
  <1>5. row \in [key : Keys, idem : Idems, payload : Payloads, month : Days]
        /\ row # Nobody
    <2>1. MonthOf[dm] \in Days
      BY ClockAssumption
    <2>2. row # Nobody
      <3>1. "idem" \in DOMAIN row
        OBVIOUS
      <3>2. "idem" \notin DOMAIN Nobody
        BY DEF Nobody
      <3> QED BY <3>1, <3>2
    <2> QED BY <2>1, <2>2
  <1> HIDE DEF amount, row, charged
  <1>6. TypeOK'
    <2>1. reserved' \in [Budgets -> Nat]
      BY <1>0, <1>1, <1>3 DEF TypeOK
    <2>2. reservation' \in [Requests -> [Budgets -> Nat]]
      BY <1>0, <1>1, <1>3 DEF TypeOK
    <2>3. ledger' \in [Requests -> [Budgets ->
            [reserve : Posting, settle : Posting, release : Posting]]]
      BY <1>0, <1>1, <1>3 DEF TypeOK, Opened, NoPostings, Posting, NoEntry
    <2>4. alerts' \in [Budgets -> SUBSET Thresholds]
      BY <1>0, <1>1 DEF TypeOK, Alerted, Crossed
    <2>5. request' \in [Requests ->
            [key : Keys, idem : Idems, payload : Payloads, month : Days]
              \cup {Nobody}]
      BY <1>0, <1>1, <1>5 DEF TypeOK
    <2>6. state' \in [Requests -> States]
      BY <1>0, <1>1 DEF TypeOK, States
    <2> QED BY <1>0, <1>1, <2>1, <2>2, <2>3, <2>4, <2>5, <2>6 DEF TypeOK
  <1>7. RowsKnown'
    <2>1. \A q \in Requests : state'[q] = "absent" <=> request'[q] = Nobody
      BY <1>0, <1>1, <1>5 DEF TypeOK, RowsKnown
    <2>2. \A q \in Requests : state'[q] = "absent" =>
            \A b \in Budgets : reservation'[q][b] = 0
      BY <1>0, <1>1 DEF TypeOK, RowsKnown
    <2>3. \A x \in Admins : reconciling'[x] # Idle =>
            state'[reconciling'[x]] # "absent"
      BY <1>0, <1>1 DEF TypeOK, RowsKnown
    <2> QED BY <2>1, <2>2, <2>3 DEF RowsKnown
  <1>8. reserved \in [Budgets -> Nat] /\ spent \in [Budgets -> Nat]
    BY <1>0 DEF TypeOK
  <1>9. \A b \in Budgets : /\ settled[r][b] = FALSE /\ reservation[r][b] = 0
                           /\ ledger[r][b] = NoPostings
    BY <1>0, <1>1, AbsentHoldsNothing DEF TypeOK
  <1>10. \A b \in Budgets : /\ reservation'[r][b] = amount[b]
                           /\ settled'[r][b] = settled[r][b]
                           /\ ledger'[r][b] = IF b \in charged
                                THEN Opened(amount[b]) ELSE NoPostings
    BY <1>0, <1>1 DEF TypeOK
  <1>11. \A q \in Requests \ {r} :
            /\ reservation'[q] = reservation[q] /\ ledger'[q] = ledger[q]
            /\ settled'[q] = settled[q] /\ state'[q] = state[q]
    BY <1>0, <1>1 DEF TypeOK
  <1>12. EntriesKnown'
    <2>1. ASSUME NEW q \in Requests, q # r
          PROVE  \A b \in Budgets : EntriesFollow(q, b)'
      BY <1>0, <1>11, <2>1 DEF EntriesKnown, EntriesFollow
    <2>2. \A b \in Budgets : EntriesFollow(r, b)'
      <3>1. state'[r] = "reserved"
        BY <1>0, <1>1 DEF TypeOK
      <3>2. ASSUME NEW b \in Budgets PROVE EntriesFollow(r, b)'
        <4>1. state'[r] \notin Final /\ state'[r] # "released"
          BY <3>1 DEF Final
        <4>2. CASE b \in charged
          <5>1. /\ reservation'[r][b] = amount[b] /\ amount[b] # 0
                /\ ledger'[r][b].reserve = amount[b]
                /\ ledger'[r][b].settle = NoEntry
                /\ ledger'[r][b].release = NoEntry
            BY <1>2, <1>10, <4>2, OpenedEntry
          <5>2. settled'[r][b] = FALSE
            BY <1>9, <1>10
          <5> QED BY <4>1, <5>1, <5>2 DEF EntriesFollow
        <4>3. CASE b \notin charged
          <5>1. /\ reservation'[r][b] = 0
                /\ ledger'[r][b] = NoPostings
                /\ settled'[r][b] = FALSE
            BY <1>4, <1>9, <1>10, <4>3
          <5> QED BY <5>1 DEF EntriesFollow
        <4> QED BY <4>2, <4>3
      <3> QED BY <3>2
    <2> QED BY <2>1, <2>2 DEF EntriesKnown
  <1>13. BooksMove(r)
    <2>1. \A b \in Budgets, q \in Requests \ {r} :
              /\ OpenAmount(q, b)' = OpenAmount(q, b)
              /\ ChargedAmount(q, b)' = ChargedAmount(q, b)
      BY <1>11 DEF OpenAmount, ChargedAmount
    <2>2. ASSUME NEW b \in Budgets
          PROVE  /\ OpenAmount(r, b) = 0 /\ ChargedAmount(r, b) = 0
                 /\ OpenAmount(r, b)' = amount[b] /\ ChargedAmount(r, b)' = 0
      <3>1. ledger[r][b].settle = NoEntry
        BY <1>9 DEF NoPostings
      <3>2. ledger'[r][b].settle = NoEntry
        BY <1>2, <1>10, OpenedEntry DEF NoPostings
      <3>3. /\ settled[r][b] = FALSE /\ reservation[r][b] = 0
            /\ settled'[r][b] = FALSE /\ reservation'[r][b] = amount[b]
        BY <1>9, <1>10
      <3> QED BY <3>1, <3>2, <3>3 DEF OpenAmount, ChargedAmount
    <2>3. \A b \in Budgets :
               /\ reserved'[b] = reserved[b] + OpenAmount(r, b)'
                                             - OpenAmount(r, b)
               /\ spent'[b] = spent[b] + ChargedAmount(r, b)'
                                       - ChargedAmount(r, b)
      BY <1>1, <1>2, <1>8, <2>2
    <2> QED BY <2>1, <2>3 DEF BooksMove
  <1> QED BY <1>6, <1>7, <1>12, <1>13 DEF Sound

-----------------------------------------------------------------------------
(* Settlement, by whoever calls it *)

(* What the three settlements have in common: r exists, an undispatched    *)
(* request is charged nothing, rows of the same unit on which the same is  *)
(* held are charged the same, and no other request starts to be            *)
(* reconciled.                                                             *)
ChargesAlike(r, actual) ==
    \A b, c \in Budgets :
        Unit(b) = Unit(c) /\ reservation[r][b] = reservation[r][c] =>
            actual[b] = actual[c]

Settlement(r, to, charge, actual) ==
    /\ state[r] # "absent"
    /\ to = "released" => actual = NoCharge
    /\ ChargesAlike(r, actual)
    /\ Settle(r, to, charge, actual)
    /\ reconciling' \in [Admins -> Requests \cup {Idle}]
    /\ \A x \in Admins : reconciling'[x] # Idle =>
                            reconciling'[x] = reconciling[x]

(* The postings of a reservation of held units of which actual are used.  *)
Entries == [reserve : Posting, settle : Posting, release : Posting]

LEMMA SplitEntry ==
    ASSUME NEW e \in Entries,
           NEW held \in Nat, NEW actual \in Nat, actual <= held
    PROVE  /\ Split(e, held, actual) \in Entries
           /\ Split(e, held, actual).reserve = e.reserve
           /\ Split(e, held, actual).settle = actual
           /\ Split(e, held, actual).release = held - actual
  <1> DEFINE charged == [e EXCEPT !.settle = actual]
  <1>1. actual \in Posting /\ held - actual \in Posting
    BY DEF Posting
  <1>2. /\ charged \in Entries
        /\ charged.reserve = e.reserve /\ charged.settle = actual
    BY <1>1 DEF Entries
  <1>3. Split(e, held, actual) = [charged EXCEPT !.release = held - actual]
    BY DEF Split
  <1> HIDE DEF charged
  <1> QED BY <1>1, <1>2, <1>3 DEF Entries

LEMMA SettleSound ==
    ASSUME Sound, NEW r \in Requests,
           NEW to \in Final, NEW charge \in Nat,
           NEW actual \in [Budgets -> Nat],
           Settlement(r, to, charge, actual)
    PROVE  Sound' /\ BooksMove(r)
  <1> USE DEF Settlement
  <1>0. TypeOK /\ RowsKnown /\ EntriesKnown
    BY DEF Sound
  <1>1. /\ state[r] \notin Final
        /\ spent' = [b \in Budgets |-> spent[b] + actual[b]]
        /\ reserved' = [b \in Budgets |-> reserved[b] - reservation[r][b]]
        /\ settled' = [settled EXCEPT ![r] =
                         [b \in Budgets |-> reservation[r][b] > 0]]
        /\ ledger' = [ledger EXCEPT ![r] = [b \in Budgets |->
                        IF reservation[r][b] > 0
                          THEN Split(ledger[r][b], reservation[r][b], actual[b])
                          ELSE ledger[r][b]]]
        /\ state' = [state EXCEPT ![r] = to]
        /\ cost' = [cost EXCEPT ![r] = charge]
        /\ usage_events' = [usage_events EXCEPT ![r] = @ + 1]
        /\ UNCHANGED <<day, rows, hard_limit, version, paused, revoked,
                       alerts, request, reservation>>
    BY DEF Settle, MaySettle, controls
  <1>2. \A b \in Budgets : /\ actual[b] \in Nat
                           /\ actual[b] <= reservation[r][b]
                           /\ reservation[r][b] <= reserved[b]
    BY DEF Settle
  <1>3. \A b \in Budgets :
           /\ reservation[r][b] \in Nat
           /\ reserved[b] \in Nat /\ spent[b] \in Nat
           /\ ledger[r][b] \in
                 [reserve : Posting, settle : Posting, release : Posting]
    BY <1>0 DEF TypeOK
  <1>4. \A b \in Budgets :
           /\ settled[r][b] = FALSE
           /\ ledger[r][b].settle = NoEntry
           /\ reservation[r][b] # 0 => ledger[r][b].reserve = reservation[r][b]
    <2>1. ASSUME NEW b \in Budgets PROVE EntriesFollow(r, b)
      BY <1>0 DEF EntriesKnown
    <2>2. \A b \in Budgets : settled[r][b] \in BOOLEAN
      BY <1>0 DEF TypeOK
    <2> QED BY <1>1, <2>1, <2>2 DEF EntriesFollow, NoPostings
  <1>5. \A b \in Budgets :
           /\ reservation'[r][b] = reservation[r][b]
           /\ settled'[r][b] <=> reservation[r][b] > 0
           /\ ledger'[r][b] = IF reservation[r][b] > 0
                THEN Split(ledger[r][b], reservation[r][b], actual[b])
                ELSE ledger[r][b]
    BY <1>0, <1>1 DEF TypeOK
  <1>6. ASSUME NEW b \in Budgets, reservation[r][b] > 0
         PROVE  /\ ledger'[r][b] \in
                     [reserve : Posting, settle : Posting, release : Posting]
                /\ ledger'[r][b].reserve = ledger[r][b].reserve
                /\ ledger'[r][b].settle = actual[b]
                /\ ledger'[r][b].release = reservation[r][b] - actual[b]
    <2> DEFINE e == ledger[r][b]
               held == reservation[r][b]
               used == actual[b]
    <2>1. /\ e \in Entries
          /\ held \in Nat /\ used \in Nat /\ used <= held
      BY <1>2, <1>3 DEF Entries
    <2>2. ledger'[r][b] = Split(e, held, used)
      BY <1>5, <1>6
    <2> HIDE DEF e, held, used
    <2>3. /\ Split(e, held, used) \in Entries
          /\ Split(e, held, used).reserve = e.reserve
          /\ Split(e, held, used).settle = used
          /\ Split(e, held, used).release = held - used
      BY <2>1, SplitEntry
    <2>4. /\ ledger'[r][b] \in Entries
          /\ ledger'[r][b].reserve = e.reserve
          /\ ledger'[r][b].settle = used
          /\ ledger'[r][b].release = held - used
      BY <2>2, <2>3
    <2> QED BY <2>4 DEF e, held, used, Entries
  <1>7. \A q \in Requests \ {r} :
            /\ reservation'[q] = reservation[q] /\ ledger'[q] = ledger[q]
            /\ settled'[q] = settled[q] /\ state'[q] = state[q]
    BY <1>0, <1>1 DEF TypeOK
  <1>8. TypeOK'
    <2>1. spent' \in [Budgets -> Nat] /\ reserved' \in [Budgets -> Nat]
      BY <1>1, <1>2, <1>3
    <2>2. settled' \in [Requests -> [Budgets -> BOOLEAN]]
      BY <1>0, <1>1 DEF TypeOK
    <2>3. ledger' \in [Requests -> [Budgets ->
            [reserve : Posting, settle : Posting, release : Posting]]]
      <3>1. \A b \in Budgets : ledger'[r][b] \in
                [reserve : Posting, settle : Posting, release : Posting]
        BY <1>3, <1>5, <1>6
      <3> DEFINE posted == [b \in Budgets |->
                              IF reservation[r][b] > 0
                                THEN Split(ledger[r][b], reservation[r][b],
                                           actual[b])
                                ELSE ledger[r][b]]
      <3>2. posted \in [Budgets ->
              [reserve : Posting, settle : Posting, release : Posting]]
        BY <1>5, <3>1
      <3>3. ledger' = [ledger EXCEPT ![r] = posted]
        BY <1>1
      <3> HIDE DEF posted
      <3> QED BY <1>0, <3>2, <3>3 DEF TypeOK
    <2>4. state' \in [Requests -> States]
      BY <1>0, <1>1 DEF TypeOK, States, Final
    <2>5. cost' \in [Requests -> Nat] /\ usage_events' \in [Requests -> Nat]
      BY <1>0, <1>1 DEF TypeOK
    <2> QED BY <1>0, <1>1, <2>1, <2>2, <2>3, <2>4, <2>5 DEF TypeOK
  <1>9. RowsKnown'
    <2>1. state'[r] # "absent"
      BY <1>0, <1>1 DEF TypeOK, Final
    <2>2. \A q \in Requests : state'[q] = "absent" <=> state[q] = "absent"
      BY <1>7, <2>1
    <2> QED BY <1>0, <1>1, <2>2 DEF RowsKnown, TypeOK
  <1>10. EntriesKnown'
    <2>1. ASSUME NEW q \in Requests, q # r
          PROVE  \A b \in Budgets : EntriesFollow(q, b)'
      BY <1>0, <1>7, <2>1 DEF EntriesKnown, EntriesFollow
    <2>2. state'[r] \in Final /\ state'[r] = to
      BY <1>0, <1>1 DEF TypeOK
    <2>3. ASSUME NEW b \in Budgets PROVE EntriesFollow(r, b)'
      <3>1. CASE reservation[r][b] = 0
        <4>1. ledger[r][b] = NoPostings
          BY <1>0, <3>1 DEF EntriesKnown, EntriesFollow
        <4> QED BY <1>5, <3>1, <4>1 DEF EntriesFollow
      <3>2. CASE reservation[r][b] # 0
        <4>1. /\ ledger'[r][b].reserve = reservation[r][b]
              /\ ledger'[r][b].settle = actual[b]
              /\ ledger'[r][b].release = reservation[r][b] - actual[b]
          BY <1>3, <1>4, <1>6, <3>2
        <4>2. state'[r] = "released" => actual[b] = 0
          BY <2>2 DEF NoCharge
        <4>3. settled'[r][b]
          BY <1>3, <1>5, <3>2
        <4> QED BY <1>2, <1>3, <1>5, <2>2, <3>2, <4>1, <4>2, <4>3
             DEF EntriesFollow
      <3> QED BY <3>1, <3>2
    <2> QED BY <2>1, <2>3 DEF EntriesKnown
  <1>11. BooksMove(r)
    <2>1. \A b \in Budgets, q \in Requests \ {r} :
              /\ OpenAmount(q, b)' = OpenAmount(q, b)
              /\ ChargedAmount(q, b)' = ChargedAmount(q, b)
      BY <1>7 DEF OpenAmount, ChargedAmount
    <2>2. ASSUME NEW b \in Budgets
          PROVE  /\ OpenAmount(r, b) = reservation[r][b]
                 /\ ChargedAmount(r, b) = 0
                 /\ OpenAmount(r, b)' = 0
                 /\ ChargedAmount(r, b)' = actual[b]
      <3>1. OpenAmount(r, b) = reservation[r][b] /\ ChargedAmount(r, b) = 0
        BY <1>4 DEF OpenAmount, ChargedAmount
      <3>2. OpenAmount(r, b)' = 0
        BY <1>3, <1>5 DEF OpenAmount
      <3>3. ChargedAmount(r, b)' = actual[b]
        <4>1. CASE reservation[r][b] > 0
          <5>1. ledger'[r][b].settle = actual[b]
            BY <1>6, <4>1
          <5> QED BY <1>2, <5>1 DEF ChargedAmount, NoEntry
        <4>2. CASE reservation[r][b] = 0
          <5>1. actual[b] = 0 /\ ledger'[r][b] = ledger[r][b]
            BY <1>2, <1>5, <4>2
          <5> QED BY <1>4, <5>1 DEF ChargedAmount
        <4> QED BY <1>3, <4>1, <4>2
      <3> QED BY <3>1, <3>2, <3>3
    <2>3. \A b \in Budgets :
               /\ reserved'[b] = reserved[b] + OpenAmount(r, b)'
                                             - OpenAmount(r, b)
               /\ spent'[b] = spent[b] + ChargedAmount(r, b)'
                                       - ChargedAmount(r, b)
      BY <1>1, <1>2, <1>3, <2>2
    <2> QED BY <2>1, <2>3 DEF BooksMove
  <1> QED BY <1>8, <1>9, <1>10, <1>11 DEF Sound

(* A settlement of r leaves the others' rows alone. *)
LEMMA SettleIsLocal ==
    ASSUME Sound, NEW r \in Requests, NEW to \in Final, NEW charge \in Nat,
           NEW actual \in [Budgets -> Nat], Settle(r, to, charge, actual)
    PROVE  /\ state[r] \notin Final /\ state'[r] = to
           /\ usage_events'[r] = usage_events[r] + 1
           /\ \A q \in Requests \ {r} :
                 /\ state'[q] = state[q] /\ cost'[q] = cost[q]
                 /\ ledger'[q] = ledger[q] /\ settled'[q] = settled[q]
                 /\ usage_events'[q] = usage_events[q]
  BY DEF Sound, Settle, MaySettle, TypeOK

-----------------------------------------------------------------------------
(* Every step *)

(* A recorded bound is the bound of the payload the row was admitted with. *)
LEMMA MoneyBoundIsNat ==
    ASSUME Sound, NEW r \in Requests, state[r] # "absent"
    PROVE  MoneyBound(r) \in Nat
  <1>1. request[r] \in
          [key : Keys, idem : Idems, payload : Payloads, month : Days]
    BY DEF Sound, TypeOK, RowsKnown
  <1>2. request[r].payload \in Payloads
    BY <1>1
  <1> QED BY <1>2, BoundAssumption DEF MoneyBound, Units

(* Moves between states that are neither final nor absent book nothing.    *)
LEMMA TransitionSound ==
    ASSUME Sound, NEW r \in Requests,
           NEW from \in {"reserved", "dispatched"},
           NEW to \in {"dispatched", "uncertain"},
           Transition(r, from, to)
    PROVE  /\ Sound'
           /\ \A q \in Requests : state'[q] \in Final <=> state[q] \in Final
  <1>0. TypeOK /\ RowsKnown /\ EntriesKnown
    BY DEF Sound
  <1>1. /\ state[r] = from
        /\ state' = [state EXCEPT ![r] = to]
        /\ UNCHANGED <<day, rows, hard_limit, version, paused, revoked, spent,
                       reserved, alerts, request, cost, reservation, settled,
                       ledger, usage_events, reconciling>>
    BY DEF Transition, controls, balances
  <1>2. TypeOK'
    BY <1>0, <1>1 DEF TypeOK, States
  <1>3. \A q \in Requests :
           /\ state'[q] = "absent" <=> state[q] = "absent"
           /\ state'[q] \in Final <=> state[q] \in Final
           /\ state'[q] = "released" <=> state[q] = "released"
    BY <1>0, <1>1 DEF TypeOK, Final
  <1>4. RowsKnown'
    BY <1>0, <1>1, <1>3 DEF RowsKnown, TypeOK
  <1>5. EntriesKnown'
    BY <1>0, <1>1, <1>3 DEF EntriesKnown, EntriesFollow
  <1> QED BY <1>2, <1>3, <1>4, <1>5 DEF Sound

(* Nothing but the clock, an operator's setting or a reconciliation's      *)
(* note changes.                                                           *)
LEMMA SoundUntouched ==
    ASSUME Sound, TypeOK', UNCHANGED books,
           \A x \in Admins : reconciling'[x] # Idle =>
                               state[reconciling'[x]] # "absent"
    PROVE  Sound'
  <1>0. TypeOK /\ RowsKnown /\ EntriesKnown
    BY DEF Sound
  <1>1. RowsKnown'
    BY <1>0 DEF RowsKnown, books
  <1>2. EntriesKnown'
    BY <1>0 DEF EntriesKnown, EntriesFollow, books
  <1> QED BY <1>1, <1>2 DEF Sound

(* What reported usage charges to each row is a natural number. *)
LEMMA UsageIsNat ==
    ASSUME NEW r \in Requests, NEW m \in Usages, NEW t \in Usages
    PROVE  Usage(r, m, t) \in [Budgets -> Nat]
  <1>1. m \in Nat /\ t \in Nat
    BY NumbersAssumption
  <1>2. \A b \in Budgets : Unit(b) \in Units
    BY CapsAssumption DEF Budgets, Unit
  <1>3. \A u \in Units :
           [money |-> m, tokens |-> t, requests |-> 1][u] \in Nat
    BY <1>1 DEF Units
  <1> QED BY <1>2, <1>3 DEF Usage

(* Nothing is booked when an operator or the clock moves, or a             *)
(* reconciliation only looks.                                              *)
LEMMA OperatorsBookNothing ==
    ASSUME Sound,
           \/ \E x \in Admins, r \in Requests : ReconcileCheck(x, r)
           \/ \E c \in Caps, l \in Limits, d \in Recent : SetBudget(c, l, d)
           \/ \E a \in Apps, v \in BOOLEAN : Pause(a, v)
           \/ \E k \in Keys : RevokeKey(k)
           \/ NewDay
    PROVE  Sound' /\ UNCHANGED books
  <1>0. TypeOK /\ RowsKnown
    BY DEF Sound
  <1>1. ASSUME NEW x \in Admins, NEW r \in Requests, ReconcileCheck(x, r)
        PROVE  Sound' /\ UNCHANGED books
    <2>1. TypeOK'
      BY <1>0, <1>1 DEF ReconcileCheck, TypeOK, controls, books
    <2>2. \A y \in Admins : reconciling'[y] # Idle =>
                              state[reconciling'[y]] # "absent"
      BY <1>0, <1>1 DEF ReconcileCheck, TypeOK, RowsKnown
    <2> QED BY <1>1, <2>1, <2>2, SoundUntouched DEF ReconcileCheck
  <1>2. ASSUME NEW c \in Caps, NEW l \in Limits, NEW d \in Recent,
               SetBudget(c, l, d)
        PROVE  Sound' /\ UNCHANGED books
    <2> DEFINE b == <<c, Period(c, d, d)>>
    <2>1. b \in Budgets
      BY ClockAssumption DEF Period, Recent, Budgets
    <2>2. version[b] < MaxVersion /\ version[b] \in 0..MaxVersion
      BY <1>0, <1>2, <2>1 DEF SetBudget, TypeOK
    <2>3. l \in Nat /\ version[b] + 1 \in 0..MaxVersion
      BY <2>2, NumbersAssumption
    <2>4. /\ rows' = rows \cup {b}
          /\ hard_limit' = [hard_limit EXCEPT ![b] = l]
          /\ version' = [version EXCEPT ![b] = version[b] + 1]
          /\ UNCHANGED <<day, books, alerts, paused, revoked, reconciling>>
      BY <1>2 DEF SetBudget
    <2> HIDE DEF b
    <2>5. TypeOK'
      BY <1>0, <2>1, <2>3, <2>4 DEF TypeOK, books
    <2> QED BY <1>0, <2>4, <2>5, SoundUntouched DEF RowsKnown
  <1>3. ASSUME NEW a \in Apps, NEW v \in BOOLEAN, Pause(a, v)
        PROVE  Sound' /\ UNCHANGED books
    <2>1. TypeOK'
      BY <1>0, <1>3 DEF Pause, TypeOK, books
    <2> QED BY <1>0, <1>3, <2>1, SoundUntouched DEF Pause, RowsKnown
  <1>4. ASSUME NEW k \in Keys, RevokeKey(k) PROVE Sound' /\ UNCHANGED books
    <2>1. TypeOK'
      BY <1>0, <1>4 DEF RevokeKey, TypeOK, books
    <2> QED BY <1>0, <1>4, <2>1, SoundUntouched DEF RevokeKey, RowsKnown
  <1>5. CASE NewDay
    <2>1. day' \in Days
      BY <1>0, <1>5, ClockAssumption DEF NewDay, TypeOK, Days
    <2>2. TypeOK'
      BY <1>0, <1>5, <2>1 DEF NewDay, TypeOK, controls, books
    <2> QED BY <1>0, <1>5, <2>2, SoundUntouched DEF NewDay, RowsKnown
  <1> QED BY <1>1, <1>2, <1>3, <1>4, <1>5

LEMMA ReleaseSettles ==
    ASSUME Sound, NEW r \in Requests, Release(r)
    PROVE  /\ NoCharge \in [Budgets -> Nat] /\ "released" \in Final
           /\ Settlement(r, "released", 0, NoCharge)
  <1>1. ChargesAlike(r, NoCharge)
    BY DEF ChargesAlike, NoCharge
  <1> QED BY <1>1 DEF Release, Settlement, NoCharge, Final, Sound, TypeOK

LEMMA CompleteSettles ==
    ASSUME Sound, NEW r \in Requests, NEW m \in Usages, NEW t \in Usages,
           Complete(r, m, t)
    PROVE  /\ m \in Nat /\ Usage(r, m, t) \in [Budgets -> Nat]
           /\ "completed" \in Final
           /\ Settlement(r, "completed", m, Usage(r, m, t))
  <1>1. m \in Nat /\ Usage(r, m, t) \in [Budgets -> Nat]
    BY UsageIsNat, NumbersAssumption
  <1>2. ChargesAlike(r, Usage(r, m, t))
    BY DEF ChargesAlike, Usage
  <1>3. /\ state[r] # "absent" /\ UNCHANGED reconciling
        /\ Settle(r, "completed", m, Usage(r, m, t))
    BY DEF Complete
  <1> QED BY <1>1, <1>2, <1>3 DEF Settlement, Final, Sound, TypeOK

LEMMA ReconcileSettles ==
    ASSUME Sound, NEW x \in Admins, ReconcileSettle(x)
    PROVE  /\ reconciling[x] \in Requests
           /\ \/ /\ state[reconciling[x]] \in Final
                 /\ Sound' /\ UNCHANGED books
              \/ \E charge \in Nat, actual \in [Budgets -> Nat] :
                   Settlement(reconciling[x], "completed", charge, actual)
  <1> DEFINE r == reconciling[x]
  <1>0. TypeOK /\ RowsKnown
    BY DEF Sound
  <1>1. r \in Requests /\ state[r] # "absent"
    BY <1>0 DEF ReconcileSettle, TypeOK, RowsKnown
  <1>2. reconciling' = [reconciling EXCEPT ![x] = Idle]
    BY DEF ReconcileSettle
  <1>3. /\ reconciling' \in [Admins -> Requests \cup {Idle}]
        /\ \A y \in Admins : reconciling'[y] # Idle =>
                                reconciling'[y] = reconciling[y]
    BY <1>0, <1>2 DEF TypeOK
  <1>4. ASSUME state[r] \in Final, UNCHANGED <<day, controls, alerts, books>>
        PROVE  Sound' /\ UNCHANGED books
    <2>1. TypeOK'
      BY <1>0, <1>3, <1>4 DEF TypeOK, controls, books
    <2>2. \A y \in Admins : reconciling'[y] # Idle =>
                              state[reconciling'[y]] # "absent"
      BY <1>0, <1>3 DEF RowsKnown
    <2> QED BY <1>4, <2>1, <2>2, SoundUntouched
  <1>5. ASSUME Settle(r, "completed", MoneyBound(r), reservation[r])
        PROVE  \E charge \in Nat, actual \in [Budgets -> Nat] :
                   Settlement(r, "completed", charge, actual)
    <2>1. MoneyBound(r) \in Nat
      BY <1>1, MoneyBoundIsNat
    <2>2. reservation[r] \in [Budgets -> Nat]
      BY <1>0, <1>1 DEF TypeOK
    <2>3. ChargesAlike(r, reservation[r])
      BY DEF ChargesAlike
    <2> HIDE DEF r
    <2>4. Settlement(r, "completed", MoneyBound(r), reservation[r])
      BY <1>1, <1>3, <1>5, <2>3 DEF Settlement
    <2> QED BY <2>1, <2>2, <2>4
  <1> QED BY <1>1, <1>4, <1>5 DEF ReconcileSettle

(* Every step is an admission, a change of state, a settlement, or books   *)
(* nothing.                                                                *)
LEMMA WhoMoves ==
    ASSUME Sound, Next
    PROVE  \/ \E r \in Requests, k \in Keys, i \in Idems, p \in Payloads,
                 dm, dd \in Recent : Admit(r, k, i, p, dm, dd)
           \/ \E r \in Requests : Dispatch(r) \/ MarkUncertain(r)
           \/ \E r \in Requests, to \in Final, charge \in Nat,
                 actual \in [Budgets -> Nat] :
                   Settlement(r, to, charge, actual)
           \/ Sound' /\ UNCHANGED books
  <1>1. ASSUME NEW r \in Requests, Release(r)
        PROVE  \E q \in Requests, to \in Final, charge \in Nat,
                 actual \in [Budgets -> Nat] :
                   Settlement(q, to, charge, actual)
    <2>1. 0 \in Nat
      OBVIOUS
    <2> QED BY <1>1, <2>1, ReleaseSettles
  <1>2. ASSUME NEW r \in Requests, NEW m \in Usages, NEW t \in Usages,
               Complete(r, m, t)
        PROVE  \E q \in Requests, to \in Final, charge \in Nat,
                 actual \in [Budgets -> Nat] :
                   Settlement(q, to, charge, actual)
    BY <1>2, CompleteSettles
  <1>3. ASSUME NEW x \in Admins, ReconcileSettle(x)
        PROVE  \/ \E q \in Requests, to \in Final, charge \in Nat,
                    actual \in [Budgets -> Nat] :
                      Settlement(q, to, charge, actual)
               \/ Sound' /\ UNCHANGED books
    <2>1. "completed" \in Final
      BY DEF Final
    <2> QED BY <1>3, <2>1, ReconcileSettles
  <1>4. ASSUME \/ \E x \in Admins, r \in Requests : ReconcileCheck(x, r)
               \/ \E c \in Caps, l \in Limits, d \in Recent : SetBudget(c, l, d)
               \/ \E a \in Apps, v \in BOOLEAN : Pause(a, v)
               \/ \E k \in Keys : RevokeKey(k)
               \/ NewDay
        PROVE  Sound' /\ UNCHANGED books
    BY <1>4, OperatorsBookNothing
  <1> QED BY <1>1, <1>2, <1>3, <1>4 DEF Next

(* Where nothing of the books changes, the balances and sums do not. *)
LEMMA StepSound ==
    ASSUME Sound, [Next]_vars
    PROVE  /\ Sound'
           /\ \/ \E r \in Requests : BooksMove(r)
              \/ UNCHANGED <<spent, reserved, settled, reservation, ledger>>
  <1>1. ASSUME NEW r \in Requests, NEW k \in Keys, NEW i \in Idems,
               NEW p \in Payloads, NEW dm \in Recent, NEW dd \in Recent,
               Admit(r, k, i, p, dm, dd)
        PROVE  Sound' /\ BooksMove(r)
    <2>1. dm \in Days /\ dd \in Days
      BY DEF Recent
    <2> QED BY <1>1, <2>1, AdmitSound
  <1>2. ASSUME NEW r \in Requests, Dispatch(r) \/ MarkUncertain(r)
        PROVE  /\ Sound'
               /\ UNCHANGED <<spent, reserved, settled, reservation, ledger>>
    <2>1. PICK from \in {"reserved", "dispatched"} : \E to \in
               {"dispatched", "uncertain"} : Transition(r, from, to)
      BY <1>2 DEF Dispatch, MarkUncertain
    <2>2. PICK to \in {"dispatched", "uncertain"} : Transition(r, from, to)
      BY <2>1
    <2> QED BY <2>2, TransitionSound DEF Transition, balances
  <1>3. ASSUME NEW r \in Requests, NEW to \in Final, NEW charge \in Nat,
               NEW actual \in [Budgets -> Nat],
               Settlement(r, to, charge, actual)
        PROVE  Sound' /\ BooksMove(r)
    BY <1>3, SettleSound
  <1>4. ASSUME Sound', UNCHANGED books
        PROVE  UNCHANGED <<spent, reserved, settled, reservation, ledger>>
    BY <1>4 DEF books
  <1>5. CASE UNCHANGED vars
    <2>1. TypeOK'
      BY <1>5 DEF Sound, TypeOK, vars
    <2>2. Sound'
      BY <1>5, <2>1, SoundUntouched DEF Sound, RowsKnown, vars, books
    <2> QED BY <1>5, <2>2 DEF vars
  <1> HIDE DEF BooksMove
  <1> QED BY <1>1, <1>2, <1>3, <1>4, <1>5, WhoMoves

(* A request's usage is told when it becomes final and not otherwise. *)
LEMMA UsageStaysToldOnce ==
    ASSUME Sound, UsageToldOnce, [Next]_vars
    PROVE  UsageToldOnce'
  <1>0. TypeOK
    BY DEF Sound
  <1>1. ASSUME NEW r \in Requests, NEW k \in Keys, NEW i \in Idems,
               NEW p \in Payloads, NEW dm \in Recent, NEW dd \in Recent,
               Admit(r, k, i, p, dm, dd)
        PROVE  UsageToldOnce'
    BY <1>0, <1>1 DEF TypeOK, UsageToldOnce, Admit, Final
  <1>2. ASSUME NEW r \in Requests, Dispatch(r) \/ MarkUncertain(r)
        PROVE  UsageToldOnce'
    BY <1>0, <1>2
    DEF TypeOK, UsageToldOnce, Dispatch, MarkUncertain, Transition, Final
  <1>3. ASSUME NEW r \in Requests, NEW to \in Final, NEW charge \in Nat,
               NEW actual \in [Budgets -> Nat],
               Settlement(r, to, charge, actual)
        PROVE  UsageToldOnce'
    <2>1. usage_events[r] = 0
      BY <1>3, SettleIsLocal DEF UsageToldOnce, Settlement
    <2> QED BY <1>3, <2>1, SettleIsLocal DEF UsageToldOnce, Settlement
  <1>4. CASE UNCHANGED books
    BY <1>4 DEF UsageToldOnce, books
  <1>5. CASE UNCHANGED vars
    BY <1>5 DEF UsageToldOnce, vars
  <1> QED BY <1>1, <1>2, <1>3, <1>4, <1>5, WhoMoves

LEMMA Inductive == IInv /\ [Next]_vars => IInv'
  <1> SUFFICES ASSUME IInv, [Next]_vars PROVE IInv'
    OBVIOUS
  <1>0. Sound /\ UsageToldOnce /\ BooksBalance
    BY DEF IInv
  <1>1. /\ Sound'
        /\ \/ \E r \in Requests : BooksMove(r)
           \/ UNCHANGED <<spent, reserved, settled, reservation, ledger>>
    BY <1>0, StepSound
  <1>2. ASSUME NEW r \in Requests, BooksMove(r) PROVE BooksBalance'
    BY <1>0, <1>1, <1>2, BalanceMoves DEF Sound
  <1>3. ASSUME UNCHANGED <<spent, reserved, settled, reservation, ledger>>
        PROVE  BooksBalance'
    BY <1>0, <1>3 DEF BooksBalance, OpenAmount, ChargedAmount
  <1>4. BooksBalance'
    <2> HIDE DEF BooksMove
    <2> QED BY <1>1, <1>2, <1>3
  <1>5. UsageToldOnce'
    BY <1>0, UsageStaysToldOnce
  <1> QED BY <1>1, <1>4, <1>5 DEF IInv

-----------------------------------------------------------------------------
(* Theorems *)

(* The strengthened invariant holds of every reachable state. *)
THEOREM Invariance == Spec => []IInv
  BY Initially, Inductive, PTL DEF Spec

(* Every column keeps its range whatever the caps, the bounds and the      *)
(* number of requests: no balance goes negative, no posting is outside     *)
(* what its CHECK allows.                                                  *)
THEOREM TypeCorrect == Spec => []TypeOK
  <1>1. IInv => TypeOK
    BY DEF IInv, Sound
  <1> QED BY <1>1, Invariance, PTL

(* The running totals that admissions decide by are, in every state, the   *)
(* sums over the child tables.                                             *)
THEOREM BooksAreBalanced == Spec => []BooksBalance
  <1>1. IInv => BooksBalance
    BY DEF IInv
  <1> QED BY <1>1, Invariance, PTL

(* Every reservation's ledger entries tell its life: reserved in full,     *)
(* split once between charge and release.                                  *)
THEOREM PostingsAreLives == Spec => []PostingsFollowState
  <1>1. IInv => PostingsFollowState
    BY PostingsHaveTwoParts DEF IInv, Sound
  <1> QED BY <1>1, Invariance, PTL

-----------------------------------------------------------------------------
(* What no step may do *)

(* A settlement commits no row to more than before. *)
LEMMA SettleShrinks ==
    ASSUME Sound, NEW r \in Requests, NEW to \in Final, NEW charge \in Nat,
           NEW actual \in [Budgets -> Nat], Settle(r, to, charge, actual)
    PROVE  \A b \in Budgets : Committed(b)' <= Committed(b)
  <1> TAKE b \in Budgets
  <1>1. /\ spent[b] \in Nat /\ reserved[b] \in Nat
        /\ actual[b] \in Nat /\ reservation[r][b] \in Nat
    BY DEF Sound, TypeOK
  <1>2. /\ spent'[b] = spent[b] + actual[b]
        /\ reserved'[b] = reserved[b] - reservation[r][b]
        /\ actual[b] <= reservation[r][b]
    BY DEF Settle
  <1> QED BY <1>1, <1>2 DEF Committed

(* What is settled of a request, and what of it is kept once it is final.  *)
RowKept(r) ==
    /\ state'[r] = state[r] /\ cost'[r] = cost[r]
    /\ ledger'[r] = ledger[r] /\ settled'[r] = settled[r]
    /\ usage_events'[r] = usage_events[r]
FinalKept == \A r \in Requests : state[r] \in Final => RowKept(r)

LEMMA NextKeepsFinal ==
    ASSUME Sound, [Next]_vars
    PROVE  FinalKept
  <1>0. Sound /\ TypeOK
    BY DEF Sound
  <1>1. CASE UNCHANGED books
    BY <1>1 DEF books, FinalKept, RowKept
  <1>2. ASSUME NEW q \in Requests, NEW k \in Keys, NEW i \in Idems,
               NEW p \in Payloads, NEW dm \in Recent, NEW dd \in Recent,
               Admit(q, k, i, p, dm, dd)
        PROVE  FinalKept
    BY <1>0, <1>2 DEF Admit, Reserve, Final, TypeOK, FinalKept, RowKept
  <1>3. ASSUME NEW q \in Requests, Dispatch(q) \/ MarkUncertain(q)
        PROVE  FinalKept
    BY <1>0, <1>3
    DEF Dispatch, MarkUncertain, Transition, Final, TypeOK, FinalKept, RowKept
  <1>4. ASSUME NEW q \in Requests, NEW to \in Final, NEW charge \in Nat,
               NEW actual \in [Budgets -> Nat],
               Settlement(q, to, charge, actual)
        PROVE  FinalKept
    <2>1. state[q] \notin Final /\ \A r \in Requests \ {q} : RowKept(r)
      BY <1>0, <1>4, SettleIsLocal DEF Settlement, RowKept
    <2> QED BY <2>1 DEF FinalKept
  <1>5. CASE UNCHANGED vars
    BY <1>1, <1>5 DEF vars, books
  <1> QED BY <1>0, <1>1, <1>2, <1>3, <1>4, <1>5, WhoMoves

(* A final request is final: nobody's later settlement, dispatch or        *)
(* failure changes its state, cost, postings or usage report.              *)
THEOREM FinalIsFinal == Spec => SettledOnce
  <1>1. IInv /\ [Next]_vars => FinalKept
    BY NextKeepsFinal DEF IInv
  <1> QED BY <1>1, Invariance, PTL DEF SettledOnce, FinalKept, RowKept, Spec

(* Only an admission adds to what is committed on a row, and no more than  *)
(* fits.                                                                   *)
KeepsWithin ==
    \A b \in Budgets :
        Committed(b)' > Committed(b) => Committed(b)' <= hard_limit'[b]

LEMMA NextKeepsWithin ==
    ASSUME Sound, [Next]_vars
    PROVE  KeepsWithin
  <1>0. Sound /\ \A b \in Budgets : spent[b] \in Nat /\ reserved[b] \in Nat
    BY DEF Sound, TypeOK
  <1>1. CASE UNCHANGED balances
    BY <1>0, <1>1 DEF balances, Committed, KeepsWithin
  <1>2. ASSUME NEW q \in Requests, NEW k \in Keys, NEW i \in Idems,
               NEW p \in Payloads, NEW dm \in Recent, NEW dd \in Recent,
               Admit(q, k, i, p, dm, dd)
        PROVE  KeepsWithin
    <2> DEFINE charged == Charged(KeyApp[k], dm, dd)
               amount == [b \in Budgets |->
                            IF b \in charged THEN Bound[p][Unit(b)] ELSE 0]
    <2>1. /\ reserved' = [b \in Budgets |-> reserved[b] + amount[b]]
          /\ spent' = spent /\ hard_limit' = hard_limit
          /\ \A b \in charged : Fits(b, amount[b])
      BY <1>2 DEF Admit, Reserve, controls
    <2>2. \A b \in Budgets : /\ amount[b] \in Nat
                             /\ b \notin charged => amount[b] = 0
      BY BoundsArePositive
    <2> HIDE DEF amount, charged
    <2>3. ASSUME NEW b \in Budgets, Committed(b)' > Committed(b)
          PROVE  Committed(b)' <= hard_limit'[b]
      <3>1. Committed(b)' = Committed(b) + amount[b]
        BY <1>0, <2>1, <2>2 DEF Committed
      <3>2. b \in charged
        BY <1>0, <2>2, <2>3, <3>1 DEF Committed
      <3> QED BY <2>1, <3>1, <3>2 DEF Fits
    <2> QED BY <2>3 DEF KeepsWithin
  <1>3. ASSUME NEW q \in Requests, Dispatch(q) \/ MarkUncertain(q)
        PROVE  KeepsWithin
    BY <1>1, <1>3 DEF Dispatch, MarkUncertain, Transition
  <1>4. ASSUME NEW q \in Requests, NEW to \in Final, NEW charge \in Nat,
               NEW actual \in [Budgets -> Nat],
               Settlement(q, to, charge, actual)
        PROVE  KeepsWithin
    <2>1. \A b \in Budgets : Committed(b)' <= Committed(b)
      BY <1>0, <1>4, SettleShrinks DEF Settlement
    <2>2. \A b \in Budgets : Committed(b) \in Nat /\ Committed(b)' \in Nat
      BY <1>0, StepSound DEF Committed, Sound, TypeOK
    <2> QED BY <2>1, <2>2 DEF KeepsWithin
  <1>5. CASE UNCHANGED vars
    BY <1>1, <1>5 DEF vars, balances
  <1>6. CASE UNCHANGED books
    BY <1>1, <1>6 DEF books, balances
  <1> QED BY <1>0, <1>2, <1>3, <1>4, <1>5, <1>6, WhoMoves

(* No step takes a row further over its limit: what an operator lowers a   *)
(* limit to, the row can only shrink towards.                              *)
THEOREM LimitsAreHard == Spec => NeverOvercommits
  <1>1. IInv /\ [Next]_vars => KeepsWithin
    BY NextKeepsWithin DEF IInv
  <1> QED BY <1>1, Invariance, PTL DEF NeverOvercommits, KeepsWithin, Spec

-----------------------------------------------------------------------------
(* Threshold events *)

(* A row has a version from its first limit on, and is committed to        *)
(* nothing before.                                                         *)
RowsBegin ==
    \A b \in Budgets :
        /\ version[b] = 0 <=> b \notin rows
        /\ b \notin rows => spent[b] = 0 /\ reserved[b] = 0

LEMMA CrossedShrinks ==
    ASSUME NEW n \in Nat, NEW m \in Nat, m <= n, NEW l \in Nat
    PROVE  Crossed(m, l) \subseteq Crossed(n, l)
  <1>1. \A t \in Thresholds : l * t \in Nat
    BY DEF Thresholds
  <1> QED BY <1>1 DEF Crossed

LEMMA NothingCrossed ==
    ASSUME NEW l \in Nat
    PROVE  Crossed(0, l) = {}
  BY DEF Crossed, Thresholds

LEMMA AlertsInitially == Init => RowsBegin /\ NoSilentCrossing
  <1> SUFFICES ASSUME Init PROVE RowsBegin /\ NoSilentCrossing
    OBVIOUS
  <1>1. RowsBegin
    BY DEF Init, RowsBegin
  <1>2. First \in Budgets
    BY ClockAssumption, CapsAssumption DEF Days, First, Root, Budgets
  <1>3. Committed(First) = 0 /\ hard_limit[First] \in Nat
    BY <1>2, NumbersAssumption DEF Init, Committed
  <1>4. Crossed(Committed(First), hard_limit[First]) = {}
    BY <1>3, NothingCrossed
  <1> QED BY <1>1, <1>4 DEF Init, NoSilentCrossing

(* An admission alerts every row it charges, and those are rows.           *)
LEMMA AdmitAlerts ==
    ASSUME Sound, Sound', RowsBegin, NoSilentCrossing,
           NEW r \in Requests, NEW k \in Keys, NEW i \in Idems,
           NEW p \in Payloads, NEW dm \in Days, NEW dd \in Days,
           Admit(r, k, i, p, dm, dd)
    PROVE  RowsBegin' /\ NoSilentCrossing'
  <1> DEFINE charged == Charged(KeyApp[k], dm, dd)
             amount == [b \in Budgets |->
                          IF b \in charged THEN Bound[p][Unit(b)] ELSE 0]
  <1>1. /\ reserved' = [b \in Budgets |-> reserved[b] + amount[b]]
        /\ alerts' = [b \in Budgets |->
              IF b \in charged THEN Alerted(b, amount[b]) ELSE alerts[b]]
        /\ UNCHANGED <<rows, hard_limit, version, spent>>
    BY DEF Admit, Reserve, controls
  <1>2. charged \subseteq rows /\ rows \subseteq Budgets
    BY DEF Charged, History, Sound, TypeOK
  <1>3. \A b \in Budgets : /\ amount[b] \in Nat
                           /\ b \notin charged => amount[b] = 0
    BY BoundsArePositive
  <1>4. \A b \in Budgets : /\ spent[b] \in Nat /\ reserved[b] \in Nat
                           /\ Committed(b)' = Committed(b) + amount[b]
    BY <1>1, <1>3 DEF Sound, TypeOK, Committed
  <1> HIDE DEF amount, charged
  <1>5. RowsBegin'
    BY <1>1, <1>2, <1>3, <1>4 DEF RowsBegin
  <1>6. ASSUME NEW b \in rows, version[b] = 1
        PROVE  Crossed(Committed(b), hard_limit[b])' \subseteq alerts'[b]
    <2>0. /\ b \in Budgets /\ hard_limit'[b] = hard_limit[b]
          /\ Committed(b)' = Committed(b) + amount[b]
          /\ Committed(b) \in Nat
      BY <1>1, <1>2, <1>4, <1>6 DEF Committed
    <2>1. CASE b \in charged
      <3>1. alerts'[b] = Alerted(b, amount[b])
        BY <1>1, <2>0, <2>1
      <3> QED BY <2>0, <3>1 DEF Alerted, Crossed
    <2>2. CASE b \notin charged
      <3>1. alerts'[b] = alerts[b] /\ Committed(b)' = Committed(b)
        BY <1>1, <1>3, <2>0, <2>2
      <3> QED BY <1>6, <2>0, <3>1 DEF NoSilentCrossing, Crossed
    <2> QED BY <2>1, <2>2
  <1> QED BY <1>1, <1>5, <1>6 DEF NoSilentCrossing

(* A settlement carries no row over a threshold.                           *)
LEMMA SettleAlerts ==
    ASSUME Sound, Sound', RowsBegin, NoSilentCrossing,
           NEW r \in Requests, NEW to \in Final, NEW charge \in Nat,
           NEW actual \in [Budgets -> Nat], Settle(r, to, charge, actual)
    PROVE  RowsBegin' /\ NoSilentCrossing'
  <1>1. /\ UNCHANGED <<rows, hard_limit, version, alerts>>
        /\ spent' = [b \in Budgets |-> spent[b] + actual[b]]
        /\ reserved' = [b \in Budgets |-> reserved[b] - reservation[r][b]]
        /\ \A b \in Budgets : /\ actual[b] <= reservation[r][b]
                              /\ reservation[r][b] <= reserved[b]
    BY DEF Settle, controls
  <1>2. \A b \in Budgets :
           /\ actual[b] \in Nat /\ reservation[r][b] \in Nat
           /\ spent[b] \in Nat /\ reserved[b] \in Nat
           /\ spent'[b] \in Nat /\ reserved'[b] \in Nat
           /\ hard_limit[b] \in Nat
    BY DEF Sound, TypeOK
  <1>3. RowsBegin'
    BY <1>1, <1>2 DEF RowsBegin
  <1>4. \A b \in Budgets : Committed(b)' <= Committed(b)
    BY SettleShrinks
  <1>5. \A b \in Budgets : Committed(b)' \in Nat /\ Committed(b) \in Nat
    BY <1>2 DEF Committed
  <1>6. ASSUME NEW b \in rows, version[b] = 1
        PROVE  Crossed(Committed(b), hard_limit[b])' \subseteq alerts'[b]
    <2>0. b \in Budgets
      BY <1>6 DEF Sound, TypeOK
    <2>1. Crossed(Committed(b)', hard_limit[b])
            \subseteq Crossed(Committed(b), hard_limit[b])
      BY <1>2, <1>4, <1>5, <2>0, CrossedShrinks
    <2>2. Crossed(Committed(b), hard_limit[b])' =
            Crossed(Committed(b)', hard_limit[b])
      BY <1>1 DEF Crossed
    <2> QED BY <1>1, <1>6, <2>1, <2>2 DEF NoSilentCrossing
  <1> QED BY <1>1, <1>3, <1>6 DEF NoSilentCrossing

(* A row's first limit finds nothing committed on it.                      *)
LEMMA BudgetAlerts ==
    ASSUME Sound, RowsBegin, NoSilentCrossing, NEW c \in Caps,
           NEW l \in Limits, NEW d \in Recent, SetBudget(c, l, d)
    PROVE  RowsBegin' /\ NoSilentCrossing'
  <1> DEFINE b == <<c, Period(c, d, d)>>
  <1>1. b \in Budgets /\ l \in Nat
    BY ClockAssumption, NumbersAssumption DEF Period, Recent, Budgets
  <1>2. /\ rows' = rows \cup {b}
        /\ hard_limit' = [hard_limit EXCEPT ![b] = l]
        /\ version' = [version EXCEPT ![b] = version[b] + 1]
        /\ UNCHANGED <<spent, reserved, alerts>>
    BY DEF SetBudget, books
  <1> HIDE DEF b
  <1>3. \A q \in Budgets : /\ version[q] \in Nat
                           /\ q # b => /\ version'[q] = version[q]
                                       /\ hard_limit'[q] = hard_limit[q]
    BY <1>2 DEF Sound, TypeOK
  <1>4. version'[b] = version[b] + 1 /\ hard_limit'[b] = l
    BY <1>1, <1>2 DEF Sound, TypeOK
  <1>5. RowsBegin'
    BY <1>1, <1>2, <1>3, <1>4 DEF RowsBegin
  <1>6. ASSUME NEW q \in rows', version'[q] = 1
        PROVE  Crossed(Committed(q), hard_limit[q])' \subseteq alerts'[q]
    <2>0. q \in Budgets /\ Committed(q)' = Committed(q)
      BY <1>1, <1>2, <1>6 DEF Sound, TypeOK, Committed
    <2>1. CASE q # b
      BY <1>2, <1>3, <1>6, <2>0, <2>1 DEF NoSilentCrossing, Crossed
    <2>2. CASE q = b
      <3>1. version[b] = 0
        BY <1>1, <1>3, <1>4, <1>6, <2>2
      <3>2. Committed(b)' = 0
        BY <1>1, <2>0, <2>2, <3>1 DEF RowsBegin, Committed
      <3>3. Crossed(Committed(b), hard_limit[b])' = Crossed(0, l)
        BY <1>4, <3>2 DEF Crossed
      <3> QED BY <1>1, <2>2, <3>3, NothingCrossed
    <2> QED BY <2>1, <2>2
  <1> QED BY <1>5, <1>6 DEF NoSilentCrossing

(* No step of the accounting crosses a threshold in silence.                *)
LEMMA AlertsStay ==
    ASSUME Sound, RowsBegin, NoSilentCrossing, [Next]_vars
    PROVE  RowsBegin' /\ NoSilentCrossing'
  <1>0. Sound'
    BY StepSound
  <1>1. ASSUME NEW q \in Requests, NEW k \in Keys, NEW i \in Idems,
               NEW p \in Payloads, NEW dm \in Recent, NEW dd \in Recent,
               Admit(q, k, i, p, dm, dd)
        PROVE  RowsBegin' /\ NoSilentCrossing'
    <2>1. dm \in Days /\ dd \in Days
      BY DEF Recent
    <2> QED BY <1>0, <1>1, <2>1, AdmitAlerts
  <1>2. ASSUME NEW q \in Requests, NEW to \in Final, NEW charge \in Nat,
               NEW actual \in [Budgets -> Nat],
               Settlement(q, to, charge, actual)
        PROVE  RowsBegin' /\ NoSilentCrossing'
    BY <1>0, <1>2, SettleAlerts DEF Settlement
  <1>3. ASSUME NEW c \in Caps, NEW l \in Limits, NEW d \in Recent,
               SetBudget(c, l, d)
        PROVE  RowsBegin' /\ NoSilentCrossing'
    BY <1>0, <1>3, BudgetAlerts
  <1>4. ASSUME UNCHANGED <<rows, hard_limit, version, alerts, balances>>
        PROVE  RowsBegin' /\ NoSilentCrossing'
    BY <1>0, <1>4
    DEF RowsBegin, NoSilentCrossing, Crossed, Committed, balances
  <1>5. ASSUME \/ \E r \in Requests : Dispatch(r) \/ MarkUncertain(r)
               \/ \E x \in Admins, r \in Requests : ReconcileCheck(x, r)
               \/ \E a \in Apps, v \in BOOLEAN : Pause(a, v)
               \/ \E k \in Keys : RevokeKey(k)
               \/ NewDay
               \/ UNCHANGED vars
        PROVE  UNCHANGED <<rows, hard_limit, version, alerts, balances>>
    BY <1>5 DEF Dispatch, MarkUncertain, Transition, ReconcileCheck, Pause,
                RevokeKey, NewDay, vars, controls, books, balances
  <1>6. ASSUME NEW r \in Requests, Release(r)
        PROVE  RowsBegin' /\ NoSilentCrossing'
    BY <1>0, <1>2, <1>6, ReleaseSettles
  <1>7. ASSUME NEW r \in Requests, NEW m \in Usages, NEW t \in Usages,
               Complete(r, m, t)
        PROVE  RowsBegin' /\ NoSilentCrossing'
    BY <1>0, <1>2, <1>7, CompleteSettles
  <1>8. ASSUME NEW x \in Admins, ReconcileSettle(x)
        PROVE  RowsBegin' /\ NoSilentCrossing'
    <2>1. CASE state[reconciling[x]] \in Final
      <3>1. UNCHANGED <<rows, hard_limit, version, alerts, balances>>
        BY <1>8, <2>1 DEF ReconcileSettle, Settle, MaySettle, controls,
                          books, balances
      <3> QED BY <1>4, <3>1
    <2>2. CASE state[reconciling[x]] \notin Final
      <3>1. "completed" \in Final
        BY DEF Final
      <3> QED BY <1>0, <1>2, <1>8, <2>2, <3>1, ReconcileSettles
    <2> QED BY <2>1, <2>2
  <1> QED BY <1>0, <1>1, <1>3, <1>4, <1>5, <1>6, <1>7, <1>8 DEF Next

(* Nobody is carried over a threshold of a row that still has its first    *)
(* limit without the event for it, whatever the caps and the bounds.       *)
THEOREM CrossingsAreTold == Spec => []NoSilentCrossing
  <1> DEFINE AInv == IInv /\ RowsBegin /\ NoSilentCrossing
  <1>1. Init => AInv
    BY Initially, AlertsInitially
  <1>2. AInv /\ [Next]_vars => AInv'
    BY Inductive, AlertsStay DEF IInv
  <1>3. AInv => NoSilentCrossing
    OBVIOUS
  <1> QED BY <1>1, <1>2, <1>3, PTL DEF Spec

-----------------------------------------------------------------------------
(* The root over its scopes *)

(* What a request holds against a monthly money cap it holds against the   *)
(* root of that month too, and is charged the same there.                  *)
Child(b) == b[1].unit = "money" /\ b[1].cadence = "month"

HeldUnderRoot ==
    \A r \in Requests, b \in Budgets :
        Child(b) /\ reservation[r][b] > 0 =>
            /\ reservation[r][b] = reservation[r][Root(b[2])]
            /\ ledger[r][b].settle = ledger[r][Root(b[2])].settle

LEMMA RootIsBudget ==
    ASSUME NEW b \in Budgets
    PROVE  /\ Root(b[2]) \in Budgets
           /\ Child(b) => Unit(b) = Unit(Root(b[2]))
  BY CapsAssumption DEF Budgets, Root, Unit, Child

LEMMA AdmitUnderRoot ==
    ASSUME Sound, HeldUnderRoot, NEW r \in Requests, NEW k \in Keys,
           NEW i \in Idems, NEW p \in Payloads, NEW dm \in Days, NEW dd \in Days,
           Admit(r, k, i, p, dm, dd)
    PROVE  HeldUnderRoot'
  <1> DEFINE charged == Charged(KeyApp[k], dm, dd)
             amount == [b \in Budgets |->
                          IF b \in charged THEN Bound[p][Unit(b)] ELSE 0]
  <1>1. /\ reservation' = [reservation EXCEPT ![r] = amount]
        /\ ledger' = [ledger EXCEPT ![r] = [b \in Budgets |->
              IF b \in charged THEN Opened(amount[b]) ELSE NoPostings]]
    BY DEF Admit, Reserve
  <1>2. ASSUME NEW b \in charged, Child(b)
        PROVE  Root(b[2]) \in charged
    <2>1. b[2] = MonthOf[dm] /\ Root(MonthOf[dm]) \in rows
      BY <1>2 DEF Charged, Period, Child, Admit
    <2>2. RootCap.scope \in Path[KeyApp[k]]
      BY PathAssumption
    <2>3. Root(MonthOf[dm])[1] = RootCap /\ Root(MonthOf[dm])[2] = MonthOf[dm]
      BY DEF Root
    <2> QED BY <2>1, <2>2, <2>3, CapsAssumption DEF Charged, History, Period
  <1> HIDE DEF charged
  <1>3. \A b \in Budgets : amount[b] \in Nat
    BY BoundsArePositive
  <1>4. \A b \in Budgets : amount[b] > 0 => b \in charged
    OBVIOUS
  <1>5. \A b \in Budgets : b \in charged /\ Child(b) =>
            amount[b] = amount[Root(b[2])]
    <2> TAKE b \in Budgets
    <2> HAVE b \in charged /\ Child(b)
    <2>1. Root(b[2]) \in Budgets /\ Unit(b) = Unit(Root(b[2]))
      BY RootIsBudget
    <2>2. Root(b[2]) \in charged
      BY <1>2
    <2> QED BY <2>1, <2>2
  <1> HIDE DEF amount
  <1>6. ASSUME NEW q \in Requests, NEW b \in Budgets, Child(b),
               reservation'[q][b] > 0
        PROVE  /\ reservation'[q][b] = reservation'[q][Root(b[2])]
               /\ ledger'[q][b].settle = ledger'[q][Root(b[2])].settle
    <2>0. Root(b[2]) \in Budgets
      BY RootIsBudget
    <2>1. CASE q # r
      <3>1. reservation'[q] = reservation[q] /\ ledger'[q] = ledger[q]
        BY <1>1, <2>1 DEF Sound, TypeOK
      <3> QED BY <1>6, <3>1 DEF HeldUnderRoot
    <2>2. CASE q = r
      <3>1. /\ \A c \in Budgets : reservation'[r][c] = amount[c]
            /\ \A c \in charged : c \in Budgets =>
                  ledger'[r][c] = Opened(amount[c])
        BY <1>1 DEF Sound, TypeOK
      <3>2. b \in charged /\ amount[b] = amount[Root(b[2])]
        BY <1>4, <1>5, <1>6, <2>2, <3>1
      <3>3. Root(b[2]) \in charged
        BY <1>2, <1>6, <3>2
      <3> QED BY <1>3, <2>0, <2>2, <3>1, <3>2, <3>3, OpenedEntry
    <2> QED BY <2>1, <2>2
  <1> QED BY <1>6 DEF HeldUnderRoot

LEMMA SettleUnderRoot ==
    ASSUME Sound, HeldUnderRoot, NEW r \in Requests, NEW to \in Final,
           NEW charge \in Nat, NEW actual \in [Budgets -> Nat],
           Settlement(r, to, charge, actual)
    PROVE  HeldUnderRoot'
  <1>1. /\ reservation' = reservation
        /\ ledger' = [ledger EXCEPT ![r] = [b \in Budgets |->
                        IF reservation[r][b] > 0
                          THEN Split(ledger[r][b], reservation[r][b], actual[b])
                          ELSE ledger[r][b]]]
        /\ ChargesAlike(r, actual)
    BY DEF Settlement, Settle
  <1>2. ASSUME NEW b \in Budgets, reservation[r][b] > 0
        PROVE  ledger'[r][b].settle = actual[b]
    <2> DEFINE e == ledger[r][b]
               held == reservation[r][b]
               taken == actual[b]
    <2>1. /\ e \in Entries
          /\ held \in Nat /\ taken \in Nat /\ taken <= held
      BY DEF Sound, TypeOK, Settlement, Settle, Entries
    <2>2. ledger'[r][b] = Split(e, held, taken)
      BY <1>1, <1>2 DEF Sound, TypeOK
    <2> HIDE DEF e, held, taken
    <2>3. ledger'[r][b].settle = taken
      BY <2>1, <2>2, SplitEntry
    <2> QED BY <2>3 DEF taken
  <1>3. ASSUME NEW q \in Requests, NEW b \in Budgets, Child(b),
               reservation'[q][b] > 0
        PROVE  /\ reservation'[q][b] = reservation'[q][Root(b[2])]
               /\ ledger'[q][b].settle = ledger'[q][Root(b[2])].settle
    <2>0. /\ Root(b[2]) \in Budgets /\ Unit(b) = Unit(Root(b[2]))
          /\ reservation[q][b] = reservation[q][Root(b[2])]
      BY <1>1, <1>3, RootIsBudget DEF HeldUnderRoot
    <2>1. CASE q # r
      <3>1. ledger'[q] = ledger[q]
        BY <1>1, <2>1 DEF Sound, TypeOK
      <3> QED BY <1>1, <1>3, <3>1 DEF HeldUnderRoot
    <2>2. CASE q = r
      <3>1. actual[b] = actual[Root(b[2])]
        BY <1>1, <2>0, <2>2 DEF ChargesAlike
      <3> QED BY <1>1, <1>2, <1>3, <2>0, <2>2, <3>1
    <2> QED BY <2>1, <2>2
  <1> QED BY <1>3 DEF HeldUnderRoot

(* Term by term, then, the root has at least what the child has.           *)
LEMMA RequestsUnderRoot ==
    ASSUME Sound, HeldUnderRoot, NEW b \in Budgets, Child(b)
    PROVE  /\ SumFunction(OpenOf(b)) <= SumFunction(OpenOf(Root(b[2])))
           /\ SumFunction(ChargedOf(b)) <= SumFunction(ChargedOf(Root(b[2])))
  <1> DEFINE top == Root(b[2])
  <1>0. TypeOK /\ EntriesKnown /\ top \in Budgets
    BY RootIsBudget DEF Sound
  <1>1. ASSUME NEW r \in Requests
        PROVE  /\ OpenAmount(r, b) <= OpenAmount(r, top)
               /\ ChargedAmount(r, b) <= ChargedAmount(r, top)
    <2>0. /\ reservation[r][b] \in Nat /\ reservation[r][top] \in Nat
          /\ settled[r][b] \in BOOLEAN /\ settled[r][top] \in BOOLEAN
          /\ ledger[r][b].settle \in Nat \cup {NoEntry}
          /\ ledger[r][top].settle \in Nat \cup {NoEntry}
      BY <1>0 DEF TypeOK, Posting
    <2>1. EntriesFollow(r, b) /\ EntriesFollow(r, top)
      BY <1>0 DEF EntriesKnown
    <2>2. CASE reservation[r][b] = 0
      <3>1. OpenAmount(r, b) = 0 /\ ChargedAmount(r, b) = 0
        BY <2>1, <2>2 DEF EntriesFollow, OpenAmount, ChargedAmount, NoPostings
      <3>2. OpenAmount(r, top) \in Nat /\ ChargedAmount(r, top) \in Nat
        BY <2>0 DEF OpenAmount, ChargedAmount
      <3> QED BY <3>1, <3>2
    <2>3. CASE reservation[r][b] > 0
      <3>1. /\ reservation[r][b] = reservation[r][top]
            /\ ledger[r][b].settle = ledger[r][top].settle
        BY <2>3 DEF HeldUnderRoot
      <3>2. settled[r][b] = settled[r][top]
        BY <2>0, <2>1, <2>3, <3>1 DEF EntriesFollow
      <3> HIDE DEF top
      <3>3. /\ OpenAmount(r, b) = OpenAmount(r, top)
            /\ ChargedAmount(r, b) = ChargedAmount(r, top)
        BY <3>1, <3>2 DEF OpenAmount, ChargedAmount
      <3>4. OpenAmount(r, b) \in Nat /\ ChargedAmount(r, b) \in Nat
        BY <2>0 DEF OpenAmount, ChargedAmount
      <3> QED BY <3>3, <3>4
    <2> QED BY <2>0, <2>2, <2>3
  <1> HIDE DEF top
  <1>2. /\ OpenOf(b) \in [Requests -> Nat] /\ OpenOf(top) \in [Requests -> Nat]
        /\ ChargedOf(b) \in [Requests -> Nat]
        /\ ChargedOf(top) \in [Requests -> Nat]
    BY <1>0, AmountsAreNat
  <1>3. \A r \in Requests : /\ OpenOf(b)[r] <= OpenOf(top)[r]
                            /\ ChargedOf(b)[r] <= ChargedOf(top)[r]
    BY <1>1 DEF OpenOf, ChargedOf
  <1>4. /\ SumFunction(OpenOf(b)) <= SumFunction(OpenOf(top))
        /\ SumFunction(ChargedOf(b)) <= SumFunction(ChargedOf(top))
    BY <1>2, <1>3, SumMonotone, RequestsAssumption
  <1> QED BY <1>4 DEF top

LEMMA RootHasMore ==
    ASSUME IInv, HeldUnderRoot, NEW b \in Budgets, Child(b)
    PROVE  spent[b] <= spent[Root(b[2])] /\ reserved[b] <= reserved[Root(b[2])]
  <1>1. Sound /\ Root(b[2]) \in Budgets
    BY RootIsBudget DEF IInv
  <1> QED BY <1>1, RequestsUnderRoot, BooksBalanceDef DEF IInv

(* No step of the accounting holds more against a cap than against the     *)
(* root.                                                                   *)
LEMMA UnderRootStays ==
    ASSUME Sound, HeldUnderRoot, [Next]_vars
    PROVE  HeldUnderRoot'
  <1>1. ASSUME NEW q \in Requests, NEW k \in Keys, NEW i \in Idems,
               NEW p \in Payloads, NEW dm \in Recent, NEW dd \in Recent,
               Admit(q, k, i, p, dm, dd)
        PROVE  HeldUnderRoot'
    <2>1. dm \in Days /\ dd \in Days
      BY DEF Recent
    <2> QED BY <1>1, <2>1, AdmitUnderRoot
  <1>2. ASSUME NEW q \in Requests, NEW to \in Final, NEW charge \in Nat,
               NEW actual \in [Budgets -> Nat],
               Settlement(q, to, charge, actual)
        PROVE  HeldUnderRoot'
    BY <1>2, SettleUnderRoot
  <1>3. ASSUME \/ \E r \in Requests : Dispatch(r) \/ MarkUncertain(r)
               \/ UNCHANGED books
               \/ UNCHANGED vars
        PROVE  HeldUnderRoot'
    BY <1>3
    DEF HeldUnderRoot, Dispatch, MarkUncertain, Transition, books, vars
  <1> QED BY <1>1, <1>2, <1>3, WhoMoves

(* No cap below the root spends or holds more of a month's money than the  *)
(* root, however many groups lie between.                                  *)
THEOREM RootCovers == Spec => []RootCoversScopes
  <1> DEFINE UInv == IInv /\ HeldUnderRoot
  <1>1. Init => UInv
    BY Initially DEF Init, HeldUnderRoot
  <1>2. UInv /\ [Next]_vars => UInv'
    BY Inductive, UnderRootStays DEF IInv
  <1>3. UInv => RootCoversScopes
    <2> SUFFICES ASSUME UInv, NEW c \in Caps, NEW m \in Days,
                        c.unit = "money", c.cadence = "month"
                 PROVE  /\ spent[<<c, m>>] <= spent[Root(m)]
                        /\ reserved[<<c, m>>] <= reserved[Root(m)]
      BY DEF RootCoversScopes
    <2> DEFINE b == <<c, m>>
    <2>1. b \in Budgets /\ Child(b) /\ b[2] = m
      BY DEF Budgets, Child
    <2> HIDE DEF b
    <2>2. spent[b] <= spent[Root(m)] /\ reserved[b] <= reserved[Root(m)]
      BY <2>1, RootHasMore
    <2> QED BY <2>2 DEF b
  <1> QED BY <1>1, <1>2, <1>3, PTL DEF Spec

-----------------------------------------------------------------------------
(* Renewal *)

(* An admission holds something against every kind of cap that the scopes  *)
(* of its application ever had, in a period of now.                        *)
THEOREM NoCapLapses == Spec => RenewalFailsClosed
  <1> DEFINE Renews == \A r \in Requests :
                 state[r] = "absent" /\ state'[r] # "absent" =>
                     \A h \in History(KeyApp[request'[r].key]) :
                         \E n \in Days : reservation'[r][<<h[1], n>>] > 0
  <1>1. ASSUME IInv, [Next]_vars PROVE Renews
    <2>0. Sound /\ TypeOK
      BY <1>1 DEF IInv, Sound
    <2>1. ASSUME NEW q \in Requests, NEW k \in Keys, NEW i \in Idems,
                 NEW p \in Payloads, NEW dm \in Recent, NEW dd \in Recent,
                 Admit(q, k, i, p, dm, dd)
          PROVE  Renews
      <3> DEFINE charged == Charged(KeyApp[k], dm, dd)
      <3>1. /\ reservation'[q] = [b \in Budgets |->
                   IF b \in charged THEN Bound[p][Unit(b)] ELSE 0]
            /\ request'[q].key = k
            /\ \A r \in Requests \ {q} : state'[r] = state[r]
        BY <2>0, <2>1 DEF Admit, Reserve, TypeOK
      <3>2. charged \subseteq Budgets
        BY <2>0 DEF Charged, History, TypeOK
      <3>3. ASSUME NEW h \in History(KeyApp[k])
            PROVE  \E n \in Days : reservation'[q][<<h[1], n>>] > 0
        <4>1. PICK b \in charged : b[1] = h[1]
          BY <2>1 DEF Admit, Renewed
        <4>2. b \in Budgets /\ b = <<h[1], b[2]>> /\ b[2] \in Days
          BY <3>2, <4>1 DEF Budgets
        <4>3. reservation'[q][b] = Bound[p][Unit(b)]
          BY <3>1, <4>1, <4>2
        <4>4. reservation'[q][b] > 0
          BY <4>2, <4>3, BoundsArePositive
        <4> QED BY <4>2, <4>4
      <3> QED BY <3>1, <3>3
    <2>2. ASSUME NEW q \in Requests, Dispatch(q) \/ MarkUncertain(q)
          PROVE  Renews
      BY <2>0, <2>2 DEF Dispatch, MarkUncertain, Transition, TypeOK
    <2>3. ASSUME NEW q \in Requests, NEW to \in Final, NEW charge \in Nat,
                 NEW actual \in [Budgets -> Nat],
                 Settlement(q, to, charge, actual)
          PROVE  Renews
      <3>1. state[q] # "absent" /\ \A r \in Requests \ {q} : state'[r] = state[r]
        BY <2>0, <2>3, SettleIsLocal DEF Settlement
      <3> QED BY <3>1
    <2>4. CASE UNCHANGED books
      BY <2>4 DEF books
    <2>5. CASE UNCHANGED vars
      BY <2>5 DEF vars
    <2> HIDE DEF Renews
    <2> QED BY <1>1, <2>0, <2>1, <2>2, <2>3, <2>4, <2>5, WhoMoves
  <1> QED BY <1>1, Invariance, PTL DEF RenewalFailsClosed, Spec

-----------------------------------------------------------------------------
(* Requests as claims of an escrow *)

(* A request without a row claims nothing. *)
LEMMA AbsentClaim ==
    ASSUME Sound, NEW r \in Requests, state[r] = "absent"
    PROVE  Claim(r) = [phase |-> "absent", hold |-> NoCharge, taken |-> NoCharge]
  <1>1. /\ reservation[r] = NoCharge
        /\ \A b \in Budgets : ChargedAmount(r, b) = 0
    BY AbsentHoldsNothing
    DEF Sound, TypeOK, NoCharge, ChargedAmount, NoPostings
  <1> QED BY <1>1 DEF Claim, NoCharge

(* What is still open of a request is what its claim holds. *)
LEMMA ClaimIsOpen ==
    ASSUME Sound, NEW r \in Requests, NEW b \in Budgets
    PROVE  OpenAmount(r, b) =
             IF Claim(r).phase = "held" THEN Claim(r).hold[b] ELSE 0
  <1>1. /\ reservation[r][b] \in Nat /\ settled[r][b] \in BOOLEAN
        /\ EntriesFollow(r, b)
    BY DEF Sound, TypeOK, EntriesKnown
  <1>2. state[r] = "absent" => reservation[r][b] = 0
    BY DEF Sound, RowsKnown
  <1>3. Claim(r).hold[b] = reservation[r][b]
    BY DEF Claim
  <1>4. Claim(r).phase = "held" <=> state[r] # "absent" /\ state[r] \notin Final
    BY DEF Claim, Final
  <1> QED BY <1>1, <1>2, <1>3, <1>4 DEF OpenAmount, EntriesFollow

(* An admission is a claim that fits every limit it holds against. *)
LEMMA AdmitClaims ==
    ASSUME Sound, Sound', NEW r \in Requests, NEW k \in Keys, NEW i \in Idems,
           NEW p \in Payloads, NEW dm \in Days, NEW dd \in Days,
           Admit(r, k, i, p, dm, dd)
    PROVE  /\ state[r] = "absent"
           /\ Claim(r)'.phase = "held"
           /\ Claim(r)'.taken = NoCharge
           /\ Claim(r)'.hold \in [Budgets -> Nat]
           /\ \A b \in Budgets : Claim(r)'.hold[b] > 0 =>
                 Committed(b) + Claim(r)'.hold[b] <= hard_limit[b]
           /\ \A q \in Requests \ {r} : Claim(q)' = Claim(q)
           /\ UNCHANGED hard_limit
  <1> DEFINE charged == Charged(KeyApp[k], dm, dd)
             amount == [b \in Budgets |->
                          IF b \in charged THEN Bound[p][Unit(b)] ELSE 0]
  <1>1. /\ state[r] = "absent"
        /\ \A b \in charged : Fits(b, amount[b])
        /\ reservation' = [reservation EXCEPT ![r] = amount]
        /\ ledger' = [ledger EXCEPT ![r] = [b \in Budgets |->
              IF b \in charged THEN Opened(amount[b]) ELSE NoPostings]]
        /\ state' = [state EXCEPT ![r] = "reserved"]
        /\ UNCHANGED hard_limit
    BY DEF Admit, Reserve, controls
  <1>2. \A b \in Budgets : b \notin charged => amount[b] = 0
    OBVIOUS
  <1> HIDE DEF amount, charged
  <1>3. /\ reservation'[r] = amount /\ state'[r] = "reserved"
        /\ \A b \in Budgets : ledger'[r][b] =
              IF b \in charged THEN Opened(amount[b]) ELSE NoPostings
        /\ \A q \in Requests \ {r} :
              /\ reservation'[q] = reservation[q] /\ ledger'[q] = ledger[q]
              /\ state'[q] = state[q]
    BY <1>1 DEF Sound, TypeOK
  <1>4. amount \in [Budgets -> Nat]
    BY <1>3 DEF Sound, TypeOK
  <1>5. ASSUME NEW b \in Budgets PROVE ChargedAmount(r, b)' = 0
    <2>1. ledger'[r][b].settle = NoEntry
      BY <1>3, <1>4, OpenedEntry DEF NoPostings
    <2> QED BY <2>1 DEF ChargedAmount
  <1>6. \A q \in Requests \ {r} : Claim(q)' = Claim(q)
    BY <1>3 DEF Claim, ChargedAmount
  <1>7. /\ Claim(r)'.phase = "held" /\ Claim(r)'.hold = amount
        /\ Claim(r)'.taken = NoCharge
    BY <1>3, <1>5 DEF Claim, Final, NoCharge
  <1>8. ASSUME NEW b \in Budgets, amount[b] > 0
        PROVE  Committed(b) + amount[b] <= hard_limit[b]
    <2>1. b \in charged
      BY <1>2, <1>8
    <2> QED BY <1>1, <2>1 DEF Fits
  <1> QED BY <1>1, <1>4, <1>6, <1>7, <1>8

(* A settlement consumes at most what the claim held. *)
LEMMA SettleClaims ==
    ASSUME Sound, NEW r \in Requests, NEW to \in Final, NEW charge \in Nat,
           NEW actual \in [Budgets -> Nat], Settlement(r, to, charge, actual)
    PROVE  /\ Claim(r).phase = "held"
           /\ Claim(r)'.phase = "settled"
           /\ Claim(r)'.hold = Claim(r).hold
           /\ Claim(r)'.taken \in [Budgets -> Nat]
           /\ \A b \in Budgets : Claim(r)'.taken[b] <= Claim(r).hold[b]
           /\ \A q \in Requests \ {r} : Claim(q)' = Claim(q)
           /\ UNCHANGED hard_limit
  <1>0. Sound' /\ Settle(r, to, charge, actual)
    BY SettleSound DEF Settlement
  <1>1. /\ state[r] # "absent" /\ state[r] \notin Final
        /\ state'[r] = to
        /\ \A q \in Requests \ {r} :
              state'[q] = state[q] /\ ledger'[q] = ledger[q]
    BY <1>0, SettleIsLocal DEF Settlement
  <1>2. UNCHANGED <<reservation, hard_limit>>
    BY <1>0 DEF Settle, controls
  <1>3. \A q \in Requests \ {r} : Claim(q)' = Claim(q)
    BY <1>1, <1>2 DEF Claim, ChargedAmount
  <1>4. Claim(r).phase = "held" /\ Claim(r)'.phase = "settled"
    BY <1>1 DEF Claim, Final
  <1>5. Claim(r)'.hold = Claim(r).hold /\ Claim(r).hold = reservation[r]
    BY <1>2 DEF Claim
  <1>6. ASSUME NEW b \in Budgets
        PROVE  /\ ChargedAmount(r, b)' \in Nat
               /\ ChargedAmount(r, b)' <= reservation[r][b]
    <2>1. EntriesFollow(r, b)' /\ reservation'[r][b] \in Nat
      BY <1>0 DEF Sound, EntriesKnown, TypeOK
    <2>2. reservation'[r][b] = reservation[r][b] /\ state'[r] \in Final
      BY <1>1, <1>2
    <2>3. CASE reservation[r][b] = 0
      BY <2>1, <2>2, <2>3 DEF EntriesFollow, ChargedAmount, NoPostings
    <2>4. CASE reservation[r][b] # 0
      <3>1. ledger'[r][b].settle \in 0..reservation[r][b]
        BY <2>1, <2>2, <2>4 DEF EntriesFollow
      <3> QED BY <2>1, <2>2, <3>1 DEF ChargedAmount, NoEntry
    <2> QED BY <2>3, <2>4
  <1>7. Claim(r)'.taken = [b \in Budgets |-> ChargedAmount(r, b)']
    BY DEF Claim
  <1> QED BY <1>2, <1>3, <1>4, <1>5, <1>6, <1>7

(* No other step touches a claim. *)
LEMMA ClaimsUntouched ==
    ASSUME Sound,
           \/ \E r \in Requests : Dispatch(r) \/ MarkUncertain(r)
           \/ UNCHANGED books
    PROVE  \A q \in Requests : Claim(q)' = Claim(q)
  <1>1. ASSUME NEW r \in Requests, Dispatch(r) \/ MarkUncertain(r)
        PROVE  \A q \in Requests : Claim(q)' = Claim(q)
    <2>1. /\ UNCHANGED <<reservation, ledger>>
          /\ \A q \in Requests :
                /\ state'[q] = "absent" <=> state[q] = "absent"
                /\ state'[q] \in Final <=> state[q] \in Final
      BY <1>1 DEF Dispatch, MarkUncertain, Transition, Final, Sound, TypeOK
    <2> QED BY <2>1 DEF Claim, ChargedAmount
  <1>2. CASE UNCHANGED books
    BY <1>2 DEF books, Claim, ChargedAmount
  <1> QED BY <1>1, <1>2

(* A limit moves when an operator sets it. *)
LEMMA LimitsMove ==
    ASSUME Next
    PROVE  \/ UNCHANGED hard_limit
           \/ \E b \in Budgets, l \in Nat :
                hard_limit' = [hard_limit EXCEPT ![b] = l]
  <1>1. ASSUME NEW c \in Caps, NEW l \in Limits, NEW d \in Recent,
               SetBudget(c, l, d)
        PROVE  \E b \in Budgets, n \in Nat :
                 hard_limit' = [hard_limit EXCEPT ![b] = n]
    <2>1. <<c, Period(c, d, d)>> \in Budgets /\ l \in Nat
      BY ClockAssumption, NumbersAssumption DEF Period, Recent, Budgets
    <2> QED BY <1>1, <2>1 DEF SetBudget
  <1>2. ASSUME NEW r \in Requests, NEW k \in Keys, NEW i \in Idems,
               NEW p \in Payloads, NEW dm \in Recent, NEW dd \in Recent,
               Admit(r, k, i, p, dm, dd)
        PROVE  UNCHANGED hard_limit
    BY <1>2 DEF Admit, controls
  <1>3. ASSUME NEW r \in Requests, NEW m \in Usages, NEW t \in Usages,
               Complete(r, m, t)
        PROVE  UNCHANGED hard_limit
    BY <1>3 DEF Complete, Settle, controls
  <1>4. ASSUME NEW r \in Requests, Release(r)
        PROVE  UNCHANGED hard_limit
    BY <1>4 DEF Release, Settle, controls
  <1>5. ASSUME NEW x \in Admins, ReconcileSettle(x)
        PROVE  UNCHANGED hard_limit
    BY <1>5 DEF ReconcileSettle, Settle, controls
  <1>6. ASSUME \/ \E r \in Requests : Dispatch(r) \/ MarkUncertain(r)
               \/ \E x \in Admins, r \in Requests : ReconcileCheck(x, r)
               \/ \E a \in Apps, v \in BOOLEAN : Pause(a, v)
               \/ \E k \in Keys : RevokeKey(k)
               \/ NewDay
        PROVE  UNCHANGED hard_limit
    BY <1>6
    DEF Dispatch, MarkUncertain, Transition, ReconcileCheck, Pause, RevokeKey,
        NewDay, controls
  <1> QED BY <1>1, <1>2, <1>3, <1>4, <1>5, <1>6 DEF Next

(* The escrow sums as everybody does. *)
LEMMA EscrowSums ==
    ASSUME NEW f
    PROVE  E!SumFunction(f) = SumFunction(f)
  BY DEF SumFunction, SumFunctionOnSet, FoldFunctionOnSet, MapThenFoldSet,
         E!SumFunction, E!SumFunctionOnSet, E!FoldFunctionOnSet,
         E!MapThenFoldSet

(* The running totals are the escrow's sums. *)
LEMMA TotalsAreSums ==
    ASSUME IInv, NEW b \in Budgets
    PROVE  E!Held(b) = reserved[b] /\ E!Taken(b) = spent[b]
  <1> DEFINE held == [r \in Requests |->
                        IF Claim(r).phase = "held" THEN Claim(r).hold[b] ELSE 0]
             taken == [r \in Requests |-> Claim(r).taken[b]]
  <1>1. held = OpenOf(b)
    BY ClaimIsOpen DEF IInv, OpenOf
  <1>2. taken = ChargedOf(b)
    BY DEF Claim, ChargedOf
  <1>3. /\ E!Held(b) = E!SumFunction(held)
        /\ E!Taken(b) = E!SumFunction(taken)
    BY DEF E!Held, E!Taken
  <1>4. E!SumFunction(held) = SumFunction(held)
    BY EscrowSums
  <1>5. E!SumFunction(taken) = SumFunction(taken)
    BY EscrowSums
  <1> QED BY <1>1, <1>2, <1>3, <1>4, <1>5, BooksBalanceDef DEF IInv

(* Whatever the tenant's caps, admissions and settlements keep the promise *)
(* of an escrow: every hold fits what all the others leave, and is         *)
(* consumed once and within itself.                                        *)
THEOREM AccountingIsEscrow == Spec => ImplementsEscrow
  <1>1. Init => E!Init
    <2> SUFFICES ASSUME Init PROVE E!Init
      OBVIOUS
    <2>1. Sound /\ \A r \in Requests : state[r] = "absent"
      BY SoundInitially DEF Init
    <2>2. \A r \in Requests :
             Claim(r) = [phase |-> "absent", hold |-> NoCharge,
                         taken |-> NoCharge]
      BY <2>1, AbsentClaim
    <2>3. hard_limit \in [Budgets -> Nat]
      BY <2>1 DEF Sound, TypeOK
    <2> QED BY <2>2, <2>3
         DEF E!Init, E!Amounts, E!Absent, E!Nothing, NoCharge
  <1>2. ASSUME IInv, [Next]_vars PROVE [E!Next]_(E!vars)
    <2>0. Sound /\ Sound'
      BY <1>2, Inductive DEF IInv
    <2>1. ASSUME NEW r \in Requests, NEW k \in Keys, NEW i \in Idems,
                 NEW p \in Payloads, NEW dm \in Recent, NEW dd \in Recent,
                 Admit(r, k, i, p, dm, dd)
          PROVE  E!Hold(r)
      <3>0. dm \in Days /\ dd \in Days
        BY DEF Recent
      <3>1. /\ state[r] = "absent"
            /\ Claim(r)'.phase = "held"
            /\ Claim(r)'.taken = NoCharge
            /\ Claim(r)'.hold \in [Budgets -> Nat]
            /\ \A b \in Budgets : Claim(r)'.hold[b] > 0 =>
                  Committed(b) + Claim(r)'.hold[b] <= hard_limit[b]
            /\ \A q \in Requests \ {r} : Claim(q)' = Claim(q)
            /\ UNCHANGED hard_limit
        BY <2>0, <2>1, <3>0, AdmitClaims
      <3>2. Claim(r) = [phase |-> "absent", hold |-> NoCharge,
                        taken |-> NoCharge]
        BY <2>0, <3>1, AbsentClaim
      <3>3. \A b \in Budgets : E!Taken(b) + E!Held(b) = Committed(b)
        BY <1>2, TotalsAreSums DEF Committed
      <3> QED BY <3>1, <3>2, <3>3
           DEF E!Hold, E!Absent, E!Nothing, E!Amounts, E!OnlyClaim, NoCharge
    <2>2. ASSUME NEW r \in Requests, NEW to \in Final, NEW charge \in Nat,
                 NEW actual \in [Budgets -> Nat],
                 Settlement(r, to, charge, actual)
          PROVE  E!Settle(r)
      BY <2>0, <2>2, SettleClaims DEF E!Settle, E!Amounts, E!OnlyClaim
    <2>3. ASSUME \/ \E r \in Requests : Dispatch(r) \/ MarkUncertain(r)
                 \/ UNCHANGED vars
          PROVE  UNCHANGED E!vars
      <3>1. UNCHANGED hard_limit
        BY <2>3 DEF Dispatch, MarkUncertain, Transition, controls, vars
      <3>2. \A q \in Requests : Claim(q)' = Claim(q)
        BY <2>0, <2>3, ClaimsUntouched DEF vars, books
      <3> QED BY <3>1, <3>2 DEF E!vars
    <2>4. ASSUME Next, UNCHANGED books PROVE [E!Next]_(E!vars)
      <3>1. \A q \in Requests : Claim(q)' = Claim(q)
        BY <2>0, <2>4, ClaimsUntouched
      <3>2. ASSUME NEW b \in Budgets, NEW l \in Nat,
                   hard_limit' = [hard_limit EXCEPT ![b] = l]
            PROVE  E!SetLimit(b)
        BY <2>0, <3>1, <3>2 DEF E!SetLimit, E!Amounts, Sound, TypeOK
      <3>3. UNCHANGED hard_limit => UNCHANGED E!vars
        BY <3>1 DEF E!vars
      <3> QED BY <2>4, <3>2, <3>3, LimitsMove DEF E!Next
    <2> QED BY <1>2, <2>0, <2>1, <2>2, <2>3, <2>4, WhoMoves DEF E!Next
  <1> QED BY <1>1, <1>2, Invariance, PTL DEF ImplementsEscrow, E!Spec, Spec

=============================================================================
