--------------------------- MODULE HierarchyProofs ---------------------------
(***************************************************************************)
(* Proofs about Hierarchy, for any number of groups, applications, calls   *)
(* and months: the groups stay a forest.  Within the first month an        *)
(* admission charges the present path.                                     *)
(*                                                                         *)
(* A move decides by what it saw on its walk.  While it holds the tenant's *)
(* row nobody else writes a parent, so that what it saw stays the present  *)
(* path (MovesSeeThePath).  If the group it moves is not on that path, a   *)
(* set of groups that no parent leads out of would have had one inside     *)
(* that the path crosses, before the move (NoNewCycle).                    *)
(***************************************************************************)
EXTENDS Hierarchy, TLAPS

ParentsExist ==
    \A g \in Groups : parent[g] \in Groups => parent[parent[g]] # Absent

SeenExist ==
    \A c \in Calls : call[c] # NoCall =>
        /\ \A g \in call[c].seen : parent[g] # Absent
        /\ \/ Walking(c) /\ call[c].start \in call[c].seen
           \/ call[c].seen = {} /\ call[c].cursor = call[c].start

MovesSeeThePath ==
    \A c \in Calls : Walking(c) /\ call[c].op = "move" =>
        tenant_lock = c /\ OnPath(c)

IInv == TypeOK /\ Acyclic /\ ParentsExist /\ SeenExist /\ MovesSeeThePath

-----------------------------------------------------------------------------
LEMMA NamesDiffer ==
    Top \notin Groups /\ Absent \notin Groups /\ Top # Absent
  BY NamesAssumption DEF Top, Absent

LEMMA CallTyped ==
    ASSUME TypeOK, NEW c \in Calls, call[c] # NoCall
    PROVE  call[c] \in Call
  BY DEF TypeOK

LEMMA InitKeeps == Init => IInv
  <1> SUFFICES ASSUME Init PROVE IInv
    OBVIOUS
  <1>1. \A c \in Calls : call[c] = NoCall /\ ~Walking(c) /\ call[c].op = "none"
    BY DEF Init, Walking, NoCall
  <1>2. TypeOK
    BY <1>1, NumbersAssumption DEF Init, TypeOK, Months
  <1>3. Acyclic /\ ParentsExist
    BY NamesDiffer DEF Init, Acyclic, ParentsExist
  <1> QED BY <1>1, <1>2, <1>3 DEF IInv, SeenExist, MovesSeeThePath

(* Only the tree matters to a path already seen. *)
LEMMA PathStays ==
    ASSUME NEW c \in Calls, OnPath(c), call'[c] = call[c],
           \A g \in call[c].seen : parent'[g] = parent[g]
    PROVE  OnPath(c)'
  <1>1. {parent'[g] : g \in call[c].seen} = {parent[g] : g \in call[c].seen}
    OBVIOUS
  <1> QED BY <1>1 DEF OnPath

(* One more group on a path. *)
LEMMA PathGrows ==
    ASSUME TypeOK, NEW c \in Calls, Hop(c), OnPath(c)
    PROVE  OnPath(c)'
  <1> DEFINE x == call[c]  g == x.cursor
  <1>1. /\ x \in Call /\ g \in Groups /\ g \notin x.seen
    BY CallTyped DEF Hop, Walking, MayHop, Call, Places
  <1>2. /\ call'[c].seen = x.seen \cup {g} /\ call'[c].cursor = parent[g]
        /\ call'[c].start = x.start /\ parent' = parent
    BY <1>1 DEF Hop, TypeOK, Call
  <1>3. {parent[h] : h \in x.seen \cup {g}}
          = {parent[h] : h \in x.seen} \cup {parent[g]}
    OBVIOUS
  <1>4. CASE x.seen = {}
    <2>1. g = x.start
      BY <1>4 DEF OnPath
    <2> QED BY <1>2, <1>3, <1>4, <2>1 DEF OnPath
  <1>5. CASE x.seen # {}
    <2>1. x.start \in x.seen /\ x.start # g
      BY <1>1, <1>5 DEF OnPath
    <2>2. {parent[h] : h \in x.seen} = (x.seen \ {x.start}) \cup {g}
      BY <1>5 DEF OnPath
    <2>3. (x.seen \cup {g}) \ {x.start} = (x.seen \ {x.start}) \cup {g}
      BY <2>1
    <2> QED BY <1>2, <1>3, <2>1, <2>2, <2>3 DEF OnPath
  <1> QED BY <1>4, <1>5

(* What a call that has arrived has seen leads to the top. *)
LEMMA PathIsClosed ==
    ASSUME NEW c \in Calls, OnPath(c), call[c].cursor = Top
    PROVE  \A g \in call[c].seen : parent[g] \in call[c].seen \cup {Top}
  BY DEF OnPath

(* Hanging g below a place whose path misses g makes no cycle. *)
LEMMA NoNewCycle ==
    ASSUME TypeOK, Acyclic, NEW g \in Groups, NEW to \in Places,
           NEW P \in SUBSET Groups, g \notin P, to \in P \cup {Top},
           \A h \in P : parent[h] \in P \cup {Top},
           parent' = [parent EXCEPT ![g] = to]
    PROVE  Acyclic'
  <1> SUFFICES ASSUME NEW S \in SUBSET Groups, S # {},
                      \A h \in S : parent'[h] \in S
               PROVE  FALSE
    BY DEF Acyclic
  <1>1. \A h \in S \ {g} : parent[h] \in S
    BY DEF TypeOK
  <1>2. CASE g \notin S
    BY <1>1, <1>2 DEF Acyclic
  <1>3. CASE g \in S
    <2>1. to \in S \cap P
      BY <1>3, NamesDiffer DEF TypeOK
    <2>2. \A h \in S \cap P : parent[h] \in S \cap P
      BY <1>1, NamesDiffer
    <2> QED BY <2>1, <2>2 DEF Acyclic
  <1> QED BY <1>2, <1>3

-----------------------------------------------------------------------------
(* Steps that leave the tree and the walks of other calls alone *)

LEMMA TreeStays ==
    ASSUME IInv, UNCHANGED parent
    PROVE  Acyclic' /\ ParentsExist'
  BY DEF IInv, Acyclic, ParentsExist

LEMMA BeginKeeps ==
    ASSUME IInv, NEW c \in Calls, NEW op \in Ops,
           NEW stage \in {"begun", "walking"}, NEW s \in Groups \cup Apps,
           NEW start \in Places, op = "move" => stage = "begun",
           op \in {"group", "move"} => s \in Groups,
           op \in {"application", "admit"} => s \in Apps,
           Begins(c, op, stage, s, start)
    PROVE  IInv'
  <1> DEFINE x == [op |-> op, stage |-> stage, month |-> month,
                   subject |-> s, start |-> start, cursor |-> start,
                   seen |-> {}]
  <1>1. x \in Call
    BY DEF Call, IInv, TypeOK
  <1>2. /\ call'[c] = x /\ \A d \in Calls \ {c} : call'[d] = call[d]
        /\ call' \in [Calls -> Call \cup {NoCall}]
    BY <1>1 DEF Begins, IInv, TypeOK
  <1>3. TypeOK'
    BY <1>2 DEF Begins, IInv, TypeOK
  <1>4. SeenExist'
    BY <1>2 DEF Begins, IInv, SeenExist, Walking
  <1>5. MovesSeeThePath'
    <2> SUFFICES ASSUME NEW d \in Calls, Walking(d)', call'[d].op = "move"
                 PROVE  tenant_lock' = d /\ OnPath(d)'
      BY DEF MovesSeeThePath
    <2>1. d # c
      BY <1>2 DEF Walking
    <2> QED BY <1>2, <2>1, PathStays
            DEF Begins, IInv, MovesSeeThePath, Walking
  <1> QED BY <1>3, <1>4, <1>5, TreeStays DEF Begins, IInv

(* A call gets a lock and goes on to its walk, or to the next lock. *)
LEMMA StageKeeps ==
    ASSUME IInv, NEW c \in Calls, NEW st \in {"rooted", "walking"},
           call[c] # NoCall, ~Walking(c), Goes(c, st),
           call[c].op = "move" /\ st = "walking" => tenant_lock' = c,
           \A d \in Calls : tenant_lock = d => tenant_lock' = d,
           tenant_lock' \in Calls \cup {Nobody},
           root_lock' \in [Months -> Calls \cup {Nobody}],
           UNCHANGED <<parent, home, month, roots>>
    PROVE  IInv'
  <1>1. call[c] \in Call
    BY CallTyped DEF IInv
  <1>2. /\ \A d \in Calls \ {c} : call'[d] = call[d]
        /\ call'[c] \in Call /\ call' \in [Calls -> Call \cup {NoCall}]
        /\ call'[c].op = call[c].op /\ call'[c].subject = call[c].subject
        /\ call'[c].seen = call[c].seen /\ call'[c].start = call[c].start
        /\ call'[c].cursor = call[c].cursor /\ call'[c].stage = st
    BY <1>1 DEF Goes, IInv, TypeOK, Call
  <1>3. TypeOK'
    BY <1>2 DEF IInv, TypeOK
  <1>4. call[c].seen = {} /\ call[c].cursor = call[c].start
    BY DEF IInv, SeenExist
  <1>5. SeenExist'
    <2> SUFFICES ASSUME NEW d \in Calls, call'[d] # NoCall
                 PROVE  /\ \A g \in call'[d].seen : parent'[g] # Absent
                        /\ \/ Walking(d)' /\ call'[d].start \in call'[d].seen
                           \/ /\ call'[d].seen = {}
                              /\ call'[d].cursor = call'[d].start
      BY DEF SeenExist
    <2>1. CASE d = c
      BY <1>2, <1>4, <2>1
    <2>2. CASE d # c
      BY <1>2, <2>2 DEF IInv, SeenExist, Walking
    <2> QED BY <2>1, <2>2
  <1>6. MovesSeeThePath'
    <2> SUFFICES ASSUME NEW d \in Calls, Walking(d)', call'[d].op = "move"
                 PROVE  tenant_lock' = d /\ OnPath(d)'
      BY DEF MovesSeeThePath
    <2>1. CASE d = c
      <3>1. st = "walking"
        BY <1>2, <2>1 DEF Walking
      <3> QED BY <1>2, <1>4, <2>1, <3>1 DEF OnPath
    <2>2. CASE d # c
      BY <1>2, <2>2, PathStays DEF IInv, MovesSeeThePath, Walking
    <2> QED BY <2>1, <2>2
  <1> QED BY <1>3, <1>5, <1>6, TreeStays DEF IInv

LEMMA LockRootKeeps ==
    ASSUME IInv, NEW c \in Calls, LockRoot(c)
    PROVE  IInv'
  <1>1. call[c] \in Call /\ call[c].stage = "begun"
    BY CallTyped DEF LockRoot, IInv
  <1>2. root_lock' \in [Months -> Calls \cup {Nobody}]
    BY <1>1 DEF LockRoot, IInv, TypeOK
  <1>3. tenant_lock \in Calls \cup {Nobody}
    BY DEF IInv, TypeOK
  <1> QED BY <1>1, <1>2, <1>3, StageKeeps DEF LockRoot, Walking

LEMMA LockTenantKeeps ==
    ASSUME IInv, NEW c \in Calls, LockTenant(c)
    PROVE  IInv'
  <1>1. \A d \in Calls : tenant_lock # d
    BY NamesAssumption DEF LockTenant, TenantFree
  <1>2. root_lock' \in [Months -> Calls \cup {Nobody}]
    BY DEF LockTenant, IInv, TypeOK
  <1> QED BY <1>1, <1>2, StageKeeps DEF LockTenant, Walking

LEMMA HopKeeps ==
    ASSUME IInv, NEW c \in Calls, Hop(c)
    PROVE  IInv'
  <1> DEFINE x == call[c]  g == x.cursor
  <1>1. /\ x \in Call /\ g \in Groups /\ parent[g] # Absent
        /\ parent[g] \in Places
    BY CallTyped DEF Hop, Walking, MayHop, Call, Places, IInv, TypeOK
  <1>2. /\ \A d \in Calls \ {c} : call'[d] = call[d]
        /\ call'[c] \in Call /\ call' \in [Calls -> Call \cup {NoCall}]
        /\ call'[c].op = x.op /\ call'[c].subject = x.subject
        /\ call'[c].seen = x.seen \cup {g} /\ call'[c].start = x.start
        /\ call'[c].cursor = parent[g] /\ call'[c].stage = x.stage
    BY <1>1 DEF Hop, IInv, TypeOK, Call
  <1>3. TypeOK'
    BY <1>2 DEF Hop, IInv, TypeOK
  <1>4. Walking(c) /\ Walking(c)' /\ x # NoCall
    BY <1>1, <1>2 DEF Hop, Walking, Call, NoCall
  <1>5. SeenExist'
    <2> SUFFICES ASSUME NEW d \in Calls, call'[d] # NoCall
                 PROVE  /\ \A h \in call'[d].seen : parent'[h] # Absent
                        /\ \/ Walking(d)' /\ call'[d].start \in call'[d].seen
                           \/ /\ call'[d].seen = {}
                              /\ call'[d].cursor = call'[d].start
      BY DEF SeenExist
    <2>1. CASE d = c
      <3>1. x.start \in x.seen \cup {g}
        BY <1>4 DEF IInv, SeenExist
      <3>2. \A h \in x.seen \cup {g} : parent[h] # Absent
        BY <1>1, <1>4 DEF IInv, SeenExist
      <3> QED BY <1>2, <1>4, <2>1, <3>1, <3>2 DEF Hop
    <2>2. CASE d # c
      <3>1. call'[d] = call[d] /\ call[d] # NoCall /\ parent' = parent
        BY <1>2, <2>2 DEF Hop
      <3>2. Walking(d)' <=> Walking(d)
        BY <3>1 DEF Walking
      <3> QED BY <3>1, <3>2 DEF IInv, SeenExist
    <2> QED BY <2>1, <2>2
  <1>6. MovesSeeThePath'
    <2> SUFFICES ASSUME NEW d \in Calls, Walking(d)', call'[d].op = "move"
                 PROVE  tenant_lock' = d /\ OnPath(d)'
      BY DEF MovesSeeThePath
    <2>1. CASE d = c
      BY <1>2, <1>4, <2>1, PathGrows DEF Hop, IInv, MovesSeeThePath
    <2>2. CASE d # c
      BY <1>2, <2>2, PathStays DEF Hop, IInv, MovesSeeThePath, Walking
    <2> QED BY <2>1, <2>2
  <1> QED BY <1>3, <1>5, <1>6, TreeStays DEF Hop, IInv

-----------------------------------------------------------------------------
(* A call that returns, with the tree as it was or with g below to.  No    *)
(* other call may be moving then unless the tree stays as it is.           *)
LEMMA ReturnKeeps ==
    ASSUME IInv, NEW c \in Calls, Returns(c), UNCHANGED <<month, roots>>,
           parent' \in [Groups -> Places \cup {Absent}],
           home' \in [Apps -> Places \cup {Absent}],
           Acyclic', ParentsExist',
           \A g \in Groups : parent[g] # Absent => parent'[g] # Absent,
           \/ UNCHANGED parent
           \/ tenant_lock \in {c, Nobody}
    PROVE  IInv'
  <1>1. /\ call'[c] = NoCall /\ \A d \in Calls \ {c} : call'[d] = call[d]
        /\ call' \in [Calls -> Call \cup {NoCall}]
    BY DEF Returns, IInv, TypeOK
  <1>2. TypeOK'
    BY <1>1 DEF Returns, IInv, TypeOK, NoCall
  <1>3. SeenExist'
    <2> SUFFICES ASSUME NEW d \in Calls \ {c}, call[d] # NoCall
                 PROVE  /\ \A h \in call[d].seen : parent'[h] # Absent
                        /\ \/ Walking(d) /\ call[d].start \in call[d].seen
                           \/ /\ call[d].seen = {}
                              /\ call[d].cursor = call[d].start
      BY <1>1 DEF SeenExist, Walking
    <2>1. call[d].seen \subseteq Groups
      BY CallTyped DEF IInv, Call
    <2> QED BY <2>1 DEF IInv, SeenExist
  <1>4. MovesSeeThePath'
    <2> SUFFICES ASSUME NEW d \in Calls, Walking(d)', call'[d].op = "move"
                 PROVE  tenant_lock' = d /\ OnPath(d)'
      BY DEF MovesSeeThePath
    <2>1. d # c /\ call'[d] = call[d] /\ Walking(d)
      BY <1>1 DEF Walking
    <2>2. tenant_lock = d /\ OnPath(d)
      BY <2>1 DEF IInv, MovesSeeThePath
    <2>3. UNCHANGED parent
      BY <2>1, <2>2, NamesAssumption
    <2> QED BY <2>1, <2>2, <2>3, PathStays DEF Returns
  <1> QED BY <1>2, <1>3, <1>4 DEF IInv

LEMMA InsertGroupKeeps ==
    ASSUME IInv, NEW c \in Calls, InsertGroup(c)
    PROVE  IInv'
  <1> DEFINE g == call[c].subject  to == call[c].start
  <1>1. g \in Groups /\ to \in Places /\ parent[g] = Absent
    BY CallTyped DEF InsertGroup, Arrived, Walking, IInv, TypeOK, Call
  <1>2. /\ parent' = [parent EXCEPT ![g] = to]
        /\ parent' \in [Groups -> Places \cup {Absent}]
    BY <1>1 DEF InsertGroup, IInv, TypeOK
  <1>3. to = Top \/ (to \in Groups /\ parent[to] # Absent)
    <2>1. /\ \A h \in call[c].seen : parent[h] # Absent
          /\ to \in call[c].seen \/ to = call[c].cursor
      BY DEF InsertGroup, Arrived, Walking, IInv, SeenExist
    <2>2. call[c].cursor = Top
      BY DEF InsertGroup, Arrived
    <2>3. CASE to \in call[c].seen
      <3>1. parent[to] # Absent
        BY <2>1, <2>3
      <3>2. to \in Groups \/ to = Top
        BY <1>1 DEF Places
      <3> QED BY <3>1, <3>2
    <2>4. CASE to = call[c].cursor
      BY <2>2, <2>4
    <2> QED BY <2>1, <2>3, <2>4
  <1>4. \A h \in Groups : parent[h] # g
    BY <1>1 DEF IInv, ParentsExist
  <1>5. Acyclic'
    <2> SUFFICES ASSUME NEW S \in SUBSET Groups, S # {},
                        \A h \in S : parent'[h] \in S
                 PROVE  FALSE
      BY DEF Acyclic
    <2>1. \A h \in S \ {g} : parent[h] \in S \ {g}
      BY <1>2, <1>4 DEF IInv, TypeOK
    <2>2. S \ {g} # {}
      BY <1>1, <1>2, <1>3, NamesDiffer DEF IInv, TypeOK
    <2> QED BY <2>1, <2>2 DEF IInv, Acyclic
  <1>6. ParentsExist'
    BY <1>1, <1>2, <1>3, NamesDiffer DEF IInv, ParentsExist, TypeOK, Places
  <1>7. \A h \in Groups : parent[h] # Absent => parent'[h] # Absent
    BY <1>1, <1>2 DEF IInv, TypeOK
  <1>8. home' \in [Apps -> Places \cup {Absent}]
    BY DEF InsertGroup, IInv, TypeOK
  <1> QED BY <1>2, <1>5, <1>6, <1>7, <1>8, ReturnKeeps DEF InsertGroup

LEMMA WriteParentKeeps ==
    ASSUME IInv, NEW c \in Calls, WriteParent(c)
    PROVE  IInv'
  <1> DEFINE g == call[c].subject  to == call[c].start  P == call[c].seen
  <1>1. g \in Groups /\ to \in Places /\ P \subseteq Groups /\ g \notin P
    BY CallTyped
       DEF WriteParent, ClosesNoCycle, Arrived, Walking, IInv, TypeOK, Call
  <1>2. /\ parent' = [parent EXCEPT ![g] = to]
        /\ parent' \in [Groups -> Places \cup {Absent}]
    BY <1>1 DEF WriteParent, IInv, TypeOK
  <1>3. OnPath(c) /\ tenant_lock = c /\ call[c].cursor = Top
    BY DEF WriteParent, Arrived, IInv, MovesSeeThePath
  <1>4. to \in P \cup {Top} /\ \A h \in P : parent[h] # Absent
    BY <1>3 DEF WriteParent, Arrived, Walking, IInv, SeenExist
  <1>5. Acyclic'
    <2>1. \A h \in P : parent[h] \in P \cup {Top}
      BY <1>3, PathIsClosed
    <2>2. P \in SUBSET Groups
      BY <1>1
    <2> HIDE DEF g, to, P
    <2>3. TypeOK /\ Acyclic
      BY DEF IInv
    <2> QED BY <1>1, <1>2, <1>4, <2>1, <2>2, <2>3, NoNewCycle
  <1>6. ParentsExist'
    BY <1>1, <1>2, <1>4, NamesDiffer DEF IInv, ParentsExist, TypeOK, Places
  <1>7. \A h \in Groups : parent[h] # Absent => parent'[h] # Absent
    BY <1>1, <1>2, NamesDiffer DEF IInv, TypeOK, Places
  <1>8. home' \in [Apps -> Places \cup {Absent}]
    BY DEF WriteParent, IInv, TypeOK
  <1> QED BY <1>2, <1>3, <1>5, <1>6, <1>7, <1>8, ReturnKeeps DEF WriteParent

LEMMA QuietReturnKeeps ==
    ASSUME IInv, NEW c \in Calls, Returns(c),
           UNCHANGED <<parent, month, roots>>,
           home' \in [Apps -> Places \cup {Absent}]
    PROVE  IInv'
  <1>1. parent' \in [Groups -> Places \cup {Absent}]
    BY DEF IInv, TypeOK
  <1> QED BY <1>1, TreeStays, ReturnKeeps

(* The clock, a new root, or nothing. *)
LEMMA OthersKeep ==
    ASSUME IInv, UNCHANGED <<parent, home, root_lock, tenant_lock, call>>,
           month' \in Months, roots' \subseteq Months
    PROVE  IInv'
  <1>1. TypeOK'
    BY DEF IInv, TypeOK
  <1>2. SeenExist' /\ MovesSeeThePath'
    BY PathStays DEF IInv, SeenExist, MovesSeeThePath, Walking
  <1> QED BY <1>1, <1>2, TreeStays DEF IInv

LEMMA StepKeeps == IInv /\ [Next]_vars => IInv'
  <1> SUFFICES ASSUME IInv, [Next]_vars
               PROVE  IInv'
    OBVIOUS
  <1>1. ASSUME NEW c \in Calls, NEW g \in Groups, NEW to \in Places,
               CreateGroup(c, g, to) \/ MoveGroup(c, g, to)
        PROVE  IInv'
    BY <1>1, BeginKeeps DEF CreateGroup, MoveGroup, Ops
  <1>2. ASSUME NEW c \in Calls, NEW a \in Apps, NEW to \in Places,
               CreateApplication(c, a, to)
        PROVE  IInv'
    BY <1>2, BeginKeeps DEF CreateApplication, Ops
  <1>3. ASSUME NEW c \in Calls, NEW a \in Apps, Admit(c, a)
        PROVE  IInv'
    <2>1. home[a] \in Places
      BY <1>3 DEF Admit, IInv, TypeOK
    <2> QED BY <1>3, <2>1, BeginKeeps DEF Admit, Ops
  <1>4. ASSUME NEW c \in Calls, InsertApplication(c)
        PROVE  IInv'
    <2>1. home' \in [Apps -> Places \cup {Absent}]
      BY <1>4, CallTyped
         DEF InsertApplication, Arrived, Walking, Call, IInv, TypeOK
    <2> QED BY <1>4, <2>1, QuietReturnKeeps DEF InsertApplication
  <1>5. ASSUME NEW c \in Calls, Charge(c) \/ Refuse(c)
        PROVE  IInv'
    <2>1. home' \in [Apps -> Places \cup {Absent}]
      BY <1>5 DEF Charge, Refuse, IInv, TypeOK
    <2> QED BY <1>5, <2>1, QuietReturnKeeps DEF Charge, Refuse
  <1>6. CASE Renew \/ NewMonth \/ UNCHANGED vars
    <2>1. month' \in Months /\ roots' \subseteq Months
      <3>1. month \in 0..LastMonth /\ roots \subseteq 0..LastMonth
        BY DEF IInv, TypeOK, Months
      <3>2. CASE Renew
        BY <3>1, <3>2 DEF Renew, Months
      <3>3. CASE NewMonth
        BY <3>1, <3>3, NumbersAssumption DEF NewMonth, Months
      <3>4. CASE UNCHANGED vars
        BY <3>1, <3>4 DEF vars, Months
      <3> QED BY <1>6, <3>2, <3>3, <3>4
    <2> QED BY <1>6, <2>1, OthersKeep DEF Renew, NewMonth, vars
  <1> QED BY <1>1, <1>2, <1>3, <1>4, <1>5, <1>6, LockRootKeeps,
             LockTenantKeeps, HopKeeps, InsertGroupKeeps, WriteParentKeeps
          DEF Next

LEMMA AlwaysIInv == Spec => []IInv
  BY InitKeeps, StepKeeps, PTL DEF Spec

-----------------------------------------------------------------------------
(* Walks and locks of the calls in flight *)

(* c has seen existing groups alone, its start among them, and stands at   *)
(* one or at the top; before its first hop it stands where it was told to. *)
WalksExist(c) ==
    call[c] # NoCall =>
        \/ call[c].seen = {} /\ call[c].cursor = call[c].start
        \/ /\ Walking(c) /\ call[c].start \in call[c].seen
           /\ \A g \in (call[c].seen \cup {call[c].cursor}) \ {Top} :
                g \in Groups /\ parent[g] # Absent

(* c holds the tenant's row exactly while it walks for a move, the root of *)
(* its own month alone and for moves and admissions alone, and that one as *)
(* long as it walks for an admission.                                      *)
LocksHeld(c) ==
    /\ tenant_lock = c <=> Walking(c) /\ call[c].op = "move"
    /\ \A m \in Months : root_lock[m] = c =>
         /\ call[c] # NoCall /\ call[c].month = m
         /\ call[c].stage # "begun" /\ call[c].op \in {"move", "admit"}
    /\ Walking(c) /\ call[c].op = "admit" => root_lock[call[c].month] = c

(* Creations walk at once, admissions after the root, moves after both. *)
InOrder(c) ==
    call[c] # NoCall =>
        /\ call[c].op \in {"group", "application"} => call[c].stage = "walking"
        /\ call[c].op = "admit" => call[c].stage # "rooted"

InFlight == \A c \in Calls : WalksExist(c) /\ LocksHeld(c) /\ InOrder(c)

LEMMA InitInFlight == Init => InFlight
  <1> SUFFICES ASSUME Init, NEW c \in Calls
               PROVE  WalksExist(c) /\ LocksHeld(c) /\ InOrder(c)
    BY DEF InFlight
  <1>1. call[c] = NoCall /\ ~Walking(c)
    BY DEF Init, Walking
  <1> QED BY <1>1, NamesAssumption DEF Init, WalksExist, LocksHeld, InOrder

(* No step takes a group away. *)
LEMMA GroupsStay ==
    ASSUME IInv, [Next]_vars, NEW g \in Groups, parent[g] # Absent
    PROVE  parent'[g] # Absent
  <1>1. ASSUME NEW c \in Calls, InsertGroup(c) \/ WriteParent(c)
        PROVE  parent'[g] # Absent
    <2>1. call[c].start \in Places
      BY <1>1, CallTyped
         DEF InsertGroup, WriteParent, Arrived, Walking, IInv, Call
    <2>2. call[c].start # Absent
      BY <2>1, NamesDiffer DEF Places
    <2> QED BY <1>1, <2>2 DEF InsertGroup, WriteParent, IInv, TypeOK
  <1>2. CASE UNCHANGED parent
    BY <1>2
  <1> QED
    BY <1>1, <1>2
       DEF Next, vars, CreateGroup, MoveGroup, CreateApplication, Admit, Begins,
           LockRoot, LockTenant, Hop, InsertApplication, Charge, Refuse, Renew,
           NewMonth

(* A step of c that neither takes nor gives back another call's lock. *)
LEMMA OneCallInFlight ==
    ASSUME IInv, InFlight, [Next]_vars, NEW c \in Calls,
           \A d \in Calls \ {c} :
             /\ call'[d] = call[d]
             /\ tenant_lock' = d <=> tenant_lock = d
             /\ \A m \in Months : root_lock'[m] = d <=> root_lock[m] = d,
           WalksExist(c)', LocksHeld(c)', InOrder(c)'
    PROVE  InFlight'
  <1> SUFFICES ASSUME NEW d \in Calls \ {c}
               PROVE  WalksExist(d)' /\ LocksHeld(d)' /\ InOrder(d)'
    BY DEF InFlight
  <1>1. Walking(d)' <=> Walking(d)
    BY DEF Walking
  <1>2. WalksExist(d)'
    BY <1>1, GroupsStay DEF InFlight, WalksExist
  <1>3. call[d] # NoCall => call[d].month \in Months
    BY CallTyped DEF IInv, Call
  <1>4. LocksHeld(d)'
    BY <1>1, <1>3 DEF InFlight, LocksHeld, Walking
  <1> QED BY <1>2, <1>4 DEF InFlight, InOrder

LEMMA BeginsInFlight ==
    ASSUME IInv, InFlight, [Next]_vars, NEW c \in Calls, NEW op, NEW st,
           NEW s, NEW to, Begins(c, op, st, s, to),
           \/ op \in {"move", "admit"} /\ st = "begun"
           \/ op \in {"group", "application"} /\ st = "walking"
    PROVE  InFlight'
  <1>1. /\ \A d \in Calls \ {c} : call'[d] = call[d]
        /\ call'[c].op = op /\ call'[c].stage = st
        /\ call'[c].seen = {} /\ call'[c].cursor = call'[c].start
        /\ UNCHANGED <<root_lock, tenant_lock>>
    BY DEF Begins, IInv, TypeOK
  <1>2. call[c] = NoCall /\ ~Walking(c)
    BY DEF Begins, Walking
  <1>3. tenant_lock # c /\ \A m \in Months : root_lock[m] # c
    BY <1>2 DEF InFlight, LocksHeld
  <1>4. WalksExist(c)'
    BY <1>1 DEF WalksExist
  <1>5. ~(Walking(c)' /\ call'[c].op \in {"move", "admit"})
    BY <1>1 DEF Walking
  <1>6. LocksHeld(c)'
    BY <1>1, <1>3, <1>5 DEF LocksHeld
  <1>7. InOrder(c)'
    BY <1>1 DEF InOrder
  <1> QED BY <1>1, <1>4, <1>6, <1>7, OneCallInFlight

(* The walk of a call that takes a lock has not begun. *)
LEMMA LocksInFlight ==
    ASSUME IInv, InFlight, [Next]_vars, NEW c \in Calls,
           LockRoot(c) \/ LockTenant(c)
    PROVE  InFlight'
  <1>1. call[c] \in Call /\ call[c] # NoCall /\ ~Walking(c)
    BY CallTyped DEF LockRoot, LockTenant, Walking, IInv
  <1>2. /\ \A d \in Calls \ {c} : call'[d] = call[d]
        /\ call'[c] \in Call
        /\ call'[c].op = call[c].op /\ call'[c].month = call[c].month
        /\ call'[c].seen = call[c].seen /\ call'[c].start = call[c].start
        /\ call'[c].cursor = call[c].cursor
    BY <1>1 DEF LockRoot, LockTenant, Goes, IInv, TypeOK, Call
  <1>3. call[c].seen = {} /\ call[c].cursor = call[c].start
    BY <1>1 DEF InFlight, WalksExist
  <1>4. WalksExist(c)'
    BY <1>2, <1>3 DEF WalksExist
  <1>5. call'[c] # NoCall /\ call[c].month \in Months
    BY <1>1, <1>2 DEF Call, NoCall
  <1>6. tenant_lock # c
    BY <1>1 DEF InFlight, LocksHeld
  <1>7. CASE LockRoot(c)
    <2> DEFINE m == call[c].month
    <2>1. /\ call[c].stage = "begun" /\ call[c].op \in {"move", "admit"}
          /\ call'[c].stage = IF call[c].op = "move" THEN "rooted"
                              ELSE "walking"
          /\ tenant_lock' = tenant_lock
      BY <1>1, <1>7 DEF LockRoot, Goes, IInv, TypeOK, Call, InFlight, InOrder,
                        Ops
    <2>2. \A n \in Months : root_lock[n] # c
      BY <2>1 DEF InFlight, LocksHeld
    <2>3. /\ \A n \in Months : root_lock'[n] = c => n = m
          /\ call[c].op = "admit" => root_lock'[m] = c
          /\ \A d \in Calls \ {c} : \A n \in Months :
               root_lock'[n] = d <=> root_lock[n] = d
      <3>1. CASE m \in roots
        <4>1. /\ root_lock[m] = Nobody
              /\ root_lock' = [root_lock EXCEPT ![m] = c]
          BY <1>7, <3>1 DEF LockRoot, RootFree
        <4> QED BY <1>5, <2>2, <4>1, NamesAssumption DEF IInv, TypeOK
      <3>2. CASE m \notin roots
        <4>1. root_lock' = root_lock /\ call[c].op # "admit"
          BY <1>7, <3>2 DEF LockRoot
        <4> QED BY <2>2, <4>1
      <3> QED BY <3>1, <3>2
    <2>4. InOrder(c)'
      BY <1>2, <2>1 DEF InOrder
    <2>5. Walking(c)' => call[c].op = "admit"
      BY <2>1 DEF Walking
    <2>6. LocksHeld(c)'
      BY <1>2, <1>5, <1>6, <2>1, <2>3, <2>5 DEF LocksHeld
    <2> QED BY <1>2, <1>4, <2>1, <2>3, <2>4, <2>6, OneCallInFlight
  <1>8. CASE LockTenant(c)
    <2>1. /\ call[c].op = "move" /\ call'[c].stage = "walking"
          /\ tenant_lock = Nobody /\ tenant_lock' = c
          /\ root_lock' = root_lock
      BY <1>1, <1>8 DEF LockTenant, TenantFree, Goes, IInv, TypeOK, Call,
                        InFlight, InOrder, Ops
    <2>2. \A d \in Calls \ {c} : tenant_lock' = d <=> tenant_lock = d
      BY <2>1, NamesAssumption
    <2>3. InOrder(c)' /\ Walking(c)'
      BY <1>2, <1>5, <2>1 DEF InOrder, Walking
    <2>4. LocksHeld(c)'
      BY <1>2, <1>5, <2>1, <2>3 DEF InFlight, LocksHeld
    <2> QED BY <1>2, <1>4, <2>1, <2>2, <2>3, <2>4, OneCallInFlight
  <1> QED BY <1>7, <1>8

LEMMA HopInFlight ==
    ASSUME IInv, InFlight, [Next]_vars, NEW c \in Calls, Hop(c)
    PROVE  InFlight'
  <1> DEFINE x == call[c]  g == x.cursor
  <1>1. /\ x \in Call /\ g \in Groups /\ parent[g] # Absent
        /\ parent[g] \in Places
    BY CallTyped DEF Hop, Walking, MayHop, Call, Places, IInv, TypeOK
  <1>2. /\ \A d \in Calls \ {c} : call'[d] = call[d]
        /\ call'[c] \in Call /\ call'[c].op = x.op
        /\ call'[c].month = x.month /\ call'[c].stage = x.stage
        /\ call'[c].seen = x.seen \cup {g} /\ call'[c].start = x.start
        /\ call'[c].cursor = parent[g]
        /\ UNCHANGED <<parent, root_lock, tenant_lock>>
    BY <1>1 DEF Hop, IInv, TypeOK, Call
  <1>3. Walking(c) /\ Walking(c)' /\ x # NoCall /\ call'[c] # NoCall
    <2>1. Walking(c)
      BY DEF Hop
    <2>2. call'[c] # NoCall
      BY <1>2 DEF Call, NoCall
    <2> QED BY <1>2, <2>1, <2>2 DEF Walking
  <1>4. WalksExist(c)'
    <2>1. x.start \in x.seen \cup {g}
      BY <1>3 DEF InFlight, WalksExist
    <2>2. x.seen \subseteq Groups /\ \A h \in x.seen : parent[h] # Absent
      BY <1>1, <1>3 DEF IInv, SeenExist, Call
    <2>3. parent[g] # Top => parent[g] \in Groups /\ parent[parent[g]] # Absent
      BY <1>1 DEF Places, IInv, ParentsExist
    <2> QED BY <1>1, <1>2, <1>3, <2>1, <2>2, <2>3 DEF WalksExist
  <1>5. LocksHeld(c)' /\ InOrder(c)'
    BY <1>2, <1>3 DEF InFlight, LocksHeld, InOrder
  <1> QED BY <1>2, <1>4, <1>5, OneCallInFlight

LEMMA ReturnInFlight ==
    ASSUME IInv, InFlight, [Next]_vars, NEW c \in Calls, Returns(c)
    PROVE  InFlight'
  <1>1. /\ call'[c] = NoCall /\ \A d \in Calls \ {c} : call'[d] = call[d]
        /\ ~Walking(c)'
    BY DEF Returns, IInv, TypeOK, Walking
  <1>2. /\ tenant_lock' # c /\ \A m \in Months : root_lock'[m] # c
        /\ \A d \in Calls \ {c} :
             /\ tenant_lock' = d <=> tenant_lock = d
             /\ \A m \in Months : root_lock'[m] = d <=> root_lock[m] = d
    BY NamesAssumption DEF Returns
  <1>3. WalksExist(c)' /\ LocksHeld(c)' /\ InOrder(c)'
    BY <1>1, <1>2 DEF WalksExist, LocksHeld, InOrder
  <1> QED BY <1>1, <1>2, <1>3, OneCallInFlight

LEMMA StepInFlight == IInv /\ InFlight /\ [Next]_vars => InFlight'
  <1> SUFFICES ASSUME IInv, InFlight, [Next]_vars
               PROVE  InFlight'
    OBVIOUS
  <1>1. CASE \E c \in Calls, g \in Groups, to \in Places :
               CreateGroup(c, g, to) \/ MoveGroup(c, g, to)
    BY <1>1, BeginsInFlight DEF CreateGroup, MoveGroup
  <1>2. CASE \E c \in Calls, a \in Apps, to \in Places :
               CreateApplication(c, a, to)
    BY <1>2, BeginsInFlight DEF CreateApplication
  <1>3. CASE \E c \in Calls, a \in Apps : Admit(c, a)
    BY <1>3, BeginsInFlight DEF Admit
  <1>4. ASSUME NEW c \in Calls,
               InsertGroup(c) \/ InsertApplication(c) \/ WriteParent(c)
                 \/ Charge(c) \/ Refuse(c)
        PROVE  InFlight'
    BY <1>4, ReturnInFlight
       DEF InsertGroup, InsertApplication, WriteParent, Charge, Refuse
  <1>5. CASE Renew \/ NewMonth \/ UNCHANGED vars
    BY <1>5 DEF Renew, NewMonth, vars, InFlight, WalksExist, LocksHeld,
                InOrder, Walking
  <1> QED BY <1>1, <1>2, <1>3, <1>4, <1>5, LocksInFlight, HopInFlight DEF Next

LEMMA AlwaysInFlight == Spec => []InFlight
  BY InitInFlight, StepInFlight, AlwaysIInv, PTL DEF Spec

(* Beyond their types: every parent is a group that exists, no walk leaves *)
(* the existing groups, a call holds the tenant's row exactly while it     *)
(* walks for a move, and the root of a month is held by a move or an       *)
(* admission of that month in flight, or by nobody (control_api/main.py:   *)
(* 153-191, 440-455, accounting.py:38-62, security.py:88-100).             *)
THEOREM WalksAndLocksInFlight ==
    Spec => [](/\ TypeOK /\ ParentsExist
               /\ \A c \in Calls : WalksExist(c) /\ LocksHeld(c))
  <1>1. IInv /\ InFlight => /\ TypeOK /\ ParentsExist
                           /\ \A c \in Calls : WalksExist(c) /\ LocksHeld(c)
    BY DEF IInv, InFlight
  <1> QED BY <1>1, AlwaysIInv, AlwaysInFlight, PTL

(* No sequence of creations and moves, however interleaved, closes a cycle *)
(* of groups (control_api/main.py:449-453).                                *)
THEOREM GroupsAreAForest == Spec => []Acyclic
  <1>1. IInv => Acyclic
    BY DEF IInv
  <1> QED BY <1>1, AlwaysIInv, PTL
-----------------------------------------------------------------------------
(* Within the first month, which has its root *)

Rooted(c) == /\ call[c] # NoCall /\ call[c].stage # "begun"
             /\ call[c].op \in {"move", "admit"}

OneMonth ==
    /\ roots = {0}
    /\ \A c \in Calls : call[c] # NoCall => call[c].month = 0
    /\ \A c \in Calls : Rooted(c) => root_lock[0] = c
    /\ \A c \in Calls : Walking(c) /\ call[c].op = "admit" => OnPath(c)

(* A step of c in which no path of another call's admission changes. *)
LEMMA OneCallKeeps ==
    ASSUME OneMonth, NEW c \in Calls, UNCHANGED roots,
           \A d \in Calls \ {c} :
             /\ call'[d] = call[d]
             /\ root_lock[0] = d => root_lock'[0] = d
             /\ Rooted(d) =>
                  \A g \in call[d].seen : parent'[g] = parent[g],
           call'[c] # NoCall => call'[c].month = 0,
           Rooted(c)' => root_lock'[0] = c,
           Walking(c)' /\ call'[c].op = "admit" => OnPath(c)'
    PROVE  OneMonth'
  <1>1. \A d \in Calls \ {c} : Rooted(d)' => Rooted(d)
    BY DEF Rooted
  <1>2. \A d \in Calls : Rooted(d)' => root_lock'[0] = d
    BY <1>1 DEF OneMonth
  <1>3. ASSUME NEW d \in Calls, Walking(d)', call'[d].op = "admit"
        PROVE  OnPath(d)'
    <2>1. CASE d = c
      BY <1>3, <2>1
    <2>2. CASE d # c
      <3>1. Walking(d) /\ call[d].op = "admit" /\ Rooted(d)
        BY <1>3, <2>2 DEF Walking, Rooted
      <3>2. OnPath(d)
        BY <3>1 DEF OneMonth
      <3> QED BY <2>2, <3>1, <3>2, PathStays
    <2> QED BY <2>1, <2>2
  <1>4. /\ roots' = {0}
        /\ \A d \in Calls : call'[d] # NoCall => call'[d].month = 0
    BY DEF OneMonth
  <1> QED BY <1>2, <1>3, <1>4 DEF OneMonth

LEMMA OneReturnKeeps ==
    ASSUME IInv, OneMonth, 0 \in Months, NEW c \in Calls, Returns(c),
           UNCHANGED roots,
           \/ \A h \in Groups : parent[h] # Absent => parent'[h] = parent[h]
           \/ root_lock[0] = c
    PROVE  OneMonth'
  <1>1. /\ call'[c] = NoCall /\ \A d \in Calls \ {c} : call'[d] = call[d]
    BY DEF Returns, IInv, TypeOK
  <1>2. \A d \in Calls \ {c} : root_lock[0] = d => root_lock'[0] = d
    BY DEF Returns
  <1>3. ASSUME NEW d \in Calls \ {c}, Rooted(d)
        PROVE  \A g \in call[d].seen : parent'[g] = parent[g]
    <2>1. root_lock[0] = d
      BY <1>3 DEF OneMonth
    <2>2. \A g \in call[d].seen : g \in Groups /\ parent[g] # Absent
      BY <1>3, CallTyped DEF Rooted, IInv, SeenExist, Call
    <2> QED BY <2>1, <2>2
  <1>4. ~Rooted(c)' /\ ~Walking(c)'
    BY <1>1 DEF Rooted, Walking, NoCall
  <1> QED BY <1>1, <1>2, <1>3, <1>4, OneCallKeeps

LEMMA MonthsOnlyGrow ==
    ASSUME IInv, [Next]_vars, month' = 0
    PROVE  month = 0
  <1>1. month \in Nat
    BY NumbersAssumption DEF IInv, TypeOK, Months
  <1>2. CASE NewMonth
    BY <1>1, <1>2 DEF NewMonth
  <1>3. CASE UNCHANGED month
    BY <1>3
  <1> QED
    BY <1>2, <1>3
       DEF Next, vars, CreateGroup, MoveGroup, CreateApplication, Admit, Begins,
           LockRoot, LockTenant, Hop, InsertGroup, InsertApplication,
           WriteParent, Charge, Refuse, Renew

LEMMA OneStepKeeps ==
    ASSUME month = 0, month' = 0, IInv, OneMonth, [Next]_vars
    PROVE  OneMonth'
  <1>1. 0 \in Months
    BY DEF IInv, TypeOK
  <1>2. ASSUME NEW c \in Calls, call[c] # NoCall
        PROVE  call[c] \in Call /\ call[c].month = 0
    BY <1>2, CallTyped DEF IInv, OneMonth
  <1>3. ASSUME NEW c \in Calls, NEW op, NEW st, NEW s, NEW to,
               Begins(c, op, st, s, to),
               op \in {"move", "admit"} => st = "begun"
        PROVE  OneMonth'
    <2>1. \A d \in Calls \ {c} : call'[d] = call[d]
      BY <1>3 DEF Begins, IInv, TypeOK
    <2>2. call'[c].op = op /\ call'[c].stage = st /\ call'[c].month = 0
      BY <1>3 DEF Begins, IInv, TypeOK
    <2>3. ~Rooted(c)' /\ ~(Walking(c)' /\ call'[c].op = "admit")
      BY <1>3, <2>2 DEF Rooted, Walking
    <2> QED BY <1>3, <2>1, <2>2, <2>3, OneCallKeeps DEF Begins
  <1>4. ASSUME NEW c \in Calls, LockRoot(c)
        PROVE  OneMonth'
    <2>1. /\ root_lock[0] = Nobody /\ root_lock'[0] = c
      BY <1>1, <1>2, <1>4
         DEF LockRoot, RootFree, OneMonth, IInv, TypeOK
    <2>2. /\ \A d \in Calls \ {c} : call'[d] = call[d]
          /\ call'[c].seen = call[c].seen /\ call'[c].start = call[c].start
          /\ call'[c].cursor = call[c].cursor /\ call'[c].month = 0
      BY <1>2, <1>4 DEF LockRoot, Goes, IInv, TypeOK, Call
    <2>3. call[c].seen = {} /\ call[c].cursor = call[c].start
      BY <1>4 DEF LockRoot, IInv, SeenExist, Walking
    <2>4. OnPath(c)'
      BY <2>2, <2>3 DEF OnPath
    <2>5. \A d \in Calls : root_lock[0] # d
      BY <2>1, NamesAssumption
    <2> QED BY <1>4, <2>1, <2>2, <2>4, <2>5, OneCallKeeps DEF LockRoot
  <1>5. ASSUME NEW c \in Calls, LockTenant(c)
        PROVE  OneMonth'
    <2>1. /\ \A d \in Calls \ {c} : call'[d] = call[d]
          /\ call'[c].seen = call[c].seen /\ call'[c].start = call[c].start
          /\ call'[c].cursor = call[c].cursor /\ call'[c].op = call[c].op
          /\ call'[c].month = 0
      BY <1>2, <1>5 DEF LockTenant, Goes, IInv, TypeOK, Call
    <2>2. call[c].seen = {} /\ call[c].cursor = call[c].start
      BY <1>5 DEF LockTenant, IInv, SeenExist, Walking
    <2>3. OnPath(c)'
      BY <2>1, <2>2 DEF OnPath
    <2>4. Rooted(c)' => Rooted(c)
      BY <1>5, <2>1 DEF LockTenant, Rooted
    <2>5. Rooted(c)' => root_lock'[0] = c
      BY <1>5, <2>4 DEF LockTenant, OneMonth
    <2> QED BY <1>5, <2>1, <2>3, <2>5, OneCallKeeps DEF LockTenant
  <1>6. ASSUME NEW c \in Calls, Hop(c)
        PROVE  OneMonth'
    <2>1. call[c] \in Call /\ call[c].cursor \in Groups
      BY <1>2, <1>6 DEF Hop, Walking, MayHop, Call, Places
    <2>2. /\ \A d \in Calls \ {c} : call'[d] = call[d]
          /\ call'[c].op = call[c].op /\ call'[c].stage = call[c].stage
          /\ call'[c].month = call[c].month
      BY <1>6, <2>1 DEF Hop, IInv, TypeOK, Call
    <2>2a. call'[c].month = 0
      BY <1>2, <1>6, <2>2 DEF Hop, Walking
    <2>3. Rooted(c)' => Rooted(c)
      BY <1>6, <2>2 DEF Hop, Walking, Rooted
    <2>4. Rooted(c)' => root_lock'[0] = c
      BY <1>6, <2>3 DEF Hop, OneMonth
    <2>5. call'[c].op = "admit" => OnPath(c)
      BY <1>6, <2>2 DEF Hop, OneMonth
    <2>6. call'[c].op = "admit" => OnPath(c)'
      BY <1>6, <2>5, PathGrows DEF IInv
    <2> QED BY <1>6, <2>2, <2>2a, <2>4, <2>6, OneCallKeeps DEF Hop
  <1>7. ASSUME NEW c \in Calls, InsertGroup(c)
        PROVE  OneMonth'
    <2>1. \A h \in Groups : parent[h] # Absent => parent'[h] = parent[h]
      BY <1>7 DEF InsertGroup, IInv, TypeOK
    <2> QED BY <1>1, <1>7, <2>1, OneReturnKeeps DEF InsertGroup
  <1>8. ASSUME NEW c \in Calls, WriteParent(c)
        PROVE  OneMonth'
    <2>1. Rooted(c)
      BY <1>8 DEF WriteParent, Arrived, Walking, Rooted
    <2>2. root_lock[0] = c
      BY <2>1 DEF OneMonth
    <2> QED BY <1>1, <1>8, <2>2, OneReturnKeeps DEF WriteParent
  <1>9. ASSUME NEW c \in Calls,
               InsertApplication(c) \/ Charge(c) \/ Refuse(c)
        PROVE  OneMonth'
    BY <1>1, <1>9, OneReturnKeeps DEF InsertApplication, Charge, Refuse
  <1>10. CASE Renew \/ NewMonth
    BY <1>1, <1>10 DEF Renew, NewMonth, OneMonth
  <1>11. CASE UNCHANGED vars
    BY <1>11 DEF vars, OneMonth, Rooted, Walking, OnPath
  <1>12. CASE \E c \in Calls, g \in Groups, to \in Places :
                CreateGroup(c, g, to) \/ MoveGroup(c, g, to)
    BY <1>3, <1>12 DEF CreateGroup, MoveGroup
  <1>13. CASE \E c \in Calls, a \in Apps, to \in Places :
                CreateApplication(c, a, to)
    BY <1>3, <1>13 DEF CreateApplication
  <1>14. CASE \E c \in Calls, a \in Apps : Admit(c, a)
    BY <1>3, <1>14 DEF Admit
  <1> QED BY <1>4, <1>5, <1>6, <1>7, <1>8, <1>9, <1>10, <1>11, <1>12,
             <1>13, <1>14
          DEF Next

(* Until the first month ends an admission charges the path there is when  *)
(* it commits: moves hold the month's root from before they walk until     *)
(* they commit, and so do admissions (control_api/main.py:444-447,         *)
(* accounting.py:45-61).                                                   *)
THEOREM FirstMonthsPathsAreCurrent == Spec => []PathIsCurrent
  <1> DEFINE Inv == month = 0 => OneMonth
  <1>1. Init => Inv
    <2> SUFFICES ASSUME Init PROVE OneMonth
      OBVIOUS
    <2>1. \A c \in Calls : call[c] = NoCall /\ ~Rooted(c) /\ ~Walking(c)
      BY DEF Init, Rooted, Walking
    <2> QED BY <2>1 DEF Init, OneMonth
  <1>2. Inv => PathIsCurrent
    BY DEF OneMonth, PathIsCurrent
  <1>3. IInv /\ Inv /\ [Next]_vars => Inv'
    <2> SUFFICES ASSUME IInv, Inv, [Next]_vars, month' = 0
                 PROVE  OneMonth'
      OBVIOUS
    <2>1. month = 0
      BY MonthsOnlyGrow
    <2> QED BY <2>1, OneStepKeeps
  <1> QED
    <2> HIDE DEF Inv
    <2> QED BY <1>1, <1>2, <1>3, AlwaysIInv, PTL DEF Spec
=============================================================================
