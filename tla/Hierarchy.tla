------------------------------ MODULE Hierarchy ------------------------------
(***************************************************************************)
(* The tree of groups, and the transactions that walk it while others      *)
(* change it: create_group, create_application and move_group of           *)
(* services/control_api/main.py, the admissions of domain/accounting.py,   *)
(* ancestry of domain/security.py.                                         *)
(*                                                                         *)
(* ancestry reads one group after the other, each as last committed.  A    *)
(* move walks under a lock on the tenant's row; moves and admissions lock  *)
(* the root budget of the month they read from the clock, if it exists;    *)
(* creations lock nothing.  The list of groups seen is kept as a set.      *)
(***************************************************************************)
EXTENDS Naturals, FiniteSets

CONSTANTS
    Groups, Apps,
    Calls,        \* calls that may be in flight together
    LastMonth,    \* bound: the clock stops here
    MaxDepth      \* groups in a walk (64)

Top == "top"            \* parent_id or group_id NULL
Absent == "absent"      \* no such row
Nobody == "nobody"
Months == 0..LastMonth
Places == Groups \cup {Top}

ASSUME NamesAssumption ==
    {Top, Absent} \cap Groups = {} /\ Nobody \notin Calls
ASSUME NumbersAssumption == LastMonth \in Nat /\ MaxDepth \in Nat \ {0}

VARIABLES
    parent,       \* groups: the parent of each, or Absent
    home,         \* applications: the group of each, or Absent
    month,        \* the clock
    roots,        \* months that have a root budget
    root_lock,    \* the call that holds a month's root, or Nobody
    tenant_lock,  \* the call that holds the tenant's row, or Nobody
    call          \* calls in flight, or NoCall

vars == <<parent, home, month, roots, root_lock, tenant_lock, call>>

NoCall == [op |-> "none"]
Ops == {"group", "application", "move", "admit"}

(* What a call is about, where its walk starts and has come to, and the    *)
(* groups it has seen.                                                     *)
Call == [op : Ops, stage : {"begun", "rooted", "walking"}, month : Months,
         subject : Groups \cup Apps, start : Places, cursor : Places,
         seen : SUBSET Groups]

TypeOK ==
    /\ parent \in [Groups -> Places \cup {Absent}]
    /\ home \in [Apps -> Places \cup {Absent}]
    /\ month \in Months
    /\ roots \subseteq Months
    /\ root_lock \in [Months -> Calls \cup {Nobody}]
    /\ tenant_lock \in Calls \cup {Nobody}
    /\ call \in [Calls -> Call \cup {NoCall}]
    /\ \A c \in Calls :
         /\ call[c].op \in {"group", "move"} => call[c].subject \in Groups
         /\ call[c].op \in {"application", "admit"} => call[c].subject \in Apps

(* create_org has just made the first root. *)
Init ==
    /\ parent = [g \in Groups |-> Absent]
    /\ home = [a \in Apps |-> Absent]
    /\ month = 0
    /\ roots = {0}
    /\ root_lock = [m \in Months |-> Nobody]
    /\ tenant_lock = Nobody
    /\ call = [c \in Calls |-> NoCall]

-----------------------------------------------------------------------------
Begins(c, op, stage, subject, start) ==
    /\ call[c] = NoCall
    /\ call' = [call EXCEPT ![c] =
                  [op |-> op, stage |-> stage, month |-> month,
                   subject |-> subject, start |-> start, cursor |-> start,
                   seen |-> {}]]
    /\ UNCHANGED <<parent, home, month, roots, root_lock, tenant_lock>>

CreateGroup(c, g, to) == Begins(c, "group", "walking", g, to)

CreateApplication(c, a, to) == Begins(c, "application", "walking", a, to)

MoveGroup(c, g, to) ==
    parent[g] # Absent /\ Begins(c, "move", "begun", g, to)

Admit(c, a) == home[a] # Absent /\ Begins(c, "admit", "begun", a, home[a])

Goes(c, stage) == call' = [call EXCEPT ![c].stage = stage]

RootIgnored(c) == TRUE
RootFree(c) ==
    call[c].month \in roots => root_lock[call[c].month] = Nobody

(* A month's root is locked where it exists; only admissions insist on it. *)
LockRoot(c) ==
    LET m == call[c].month
    IN  /\ call[c] # NoCall /\ call[c].stage = "begun"
        /\ RootFree(c)
        /\ call[c].op = "admit" => m \in roots
        /\ root_lock' = IF m \in roots THEN [root_lock EXCEPT ![m] = c]
                        ELSE root_lock
        /\ Goes(c, IF call[c].op = "move" THEN "rooted" ELSE "walking")
        /\ UNCHANGED <<parent, home, month, roots, tenant_lock>>

TenantIgnored == TRUE
TenantFree == tenant_lock = Nobody

LockTenant(c) ==
    /\ call[c] # NoCall /\ call[c].stage = "rooted"
    /\ TenantFree
    /\ tenant_lock' = c
    /\ Goes(c, "walking")
    /\ UNCHANGED <<parent, home, month, roots, root_lock>>

(* ancestry: one more group is read. *)
Walking(c) == call[c] # NoCall /\ call[c].stage = "walking"
MayHopAnywhere(c) ==
    /\ call[c].cursor \notin call[c].seen
    /\ Cardinality(call[c].seen) < MaxDepth
MayHop(c) ==
    /\ call[c].cursor \notin call[c].seen
    /\ Cardinality(call[c].seen) < MaxDepth
    /\ parent[call[c].cursor] # Absent

Hop(c) ==
    LET g == call[c].cursor
    IN  /\ Walking(c) /\ g # Top
        /\ MayHop(c)
        /\ call' = [call EXCEPT ![c].cursor = parent[g],
                                ![c].seen = @ \cup {g}]
        /\ UNCHANGED <<parent, home, month, roots, root_lock, tenant_lock>>

Arrived(c) == Walking(c) /\ call[c].cursor = Top

Returns(c) ==
    /\ call' = [call EXCEPT ![c] = NoCall]
    /\ root_lock' = [m \in Months |->
                       IF root_lock[m] = c THEN Nobody ELSE root_lock[m]]
    /\ tenant_lock' = IF tenant_lock = c THEN Nobody ELSE tenant_lock

(* Inserts share the tenant's row, and so wait for whoever holds it. *)
InsertGroup(c) ==
    LET g == call[c].subject
    IN  /\ Arrived(c) /\ call[c].op = "group"
        /\ tenant_lock = Nobody
        /\ parent[g] = Absent
        /\ parent' = [parent EXCEPT ![g] = call[c].start]
        /\ Returns(c)
        /\ UNCHANGED <<home, month, roots>>

InsertApplication(c) ==
    LET a == call[c].subject
    IN  /\ Arrived(c) /\ call[c].op = "application"
        /\ tenant_lock = Nobody
        /\ home[a] = Absent
        /\ home' = [home EXCEPT ![a] = call[c].start]
        /\ Returns(c)
        /\ UNCHANGED <<parent, month, roots>>

ClosesNoCycle(c) == call[c].subject \notin call[c].seen

WriteParent(c) ==
    /\ Arrived(c) /\ call[c].op = "move"
    /\ ClosesNoCycle(c)
    /\ parent' = [parent EXCEPT ![call[c].subject] = call[c].start]
    /\ Returns(c)
    /\ UNCHANGED <<home, month, roots>>

(* The admission charges the groups it has seen. *)
Charge(c) ==
    /\ Arrived(c) /\ call[c].op = "admit"
    /\ tenant_lock = Nobody
    /\ Returns(c)
    /\ UNCHANGED <<parent, home, month, roots>>

(* Another error may end a call at any time, too. *)
Refuse(c) ==
    /\ call[c] # NoCall
    /\ Returns(c)
    /\ UNCHANGED <<parent, home, month, roots>>

(* budget() *)
Renew ==
    /\ month \notin roots
    /\ roots' = roots \cup {month}
    /\ UNCHANGED <<parent, home, month, root_lock, tenant_lock, call>>

NewMonth ==
    /\ month < LastMonth
    /\ month' = month + 1
    /\ UNCHANGED <<parent, home, roots, root_lock, tenant_lock, call>>

Next ==
    \/ \E c \in Calls, g \in Groups, to \in Places :
         CreateGroup(c, g, to) \/ MoveGroup(c, g, to)
    \/ \E c \in Calls, a \in Apps, to \in Places : CreateApplication(c, a, to)
    \/ \E c \in Calls, a \in Apps : Admit(c, a)
    \/ \E c \in Calls :
         \/ LockRoot(c) \/ LockTenant(c) \/ Hop(c)
         \/ InsertGroup(c) \/ InsertApplication(c)
         \/ WriteParent(c) \/ Charge(c) \/ Refuse(c)
    \/ Renew
    \/ NewMonth

Spec == Init /\ [][Next]_vars

-----------------------------------------------------------------------------
(* No groups are each other's ancestors ("hierarchy_cycle"), whatever      *)
(* moves and creations run side by side, in one month or across two: from  *)
(* every set of groups some parent leads out.                              *)
Acyclic ==
    \A S \in SUBSET Groups : S # {} => \E g \in S : parent[g] \notin S

(* What c has seen is the present path from where it started: its start,   *)
(* the parents of what it saw, and its cursor above them.                  *)
OnPath(c) ==
    IF call[c].seen = {} THEN call[c].cursor = call[c].start
    ELSE /\ call[c].start \in call[c].seen
         /\ {parent[g] : g \in call[c].seen}
              = (call[c].seen \ {call[c].start}) \cup {call[c].cursor}

(* Until the first month ends, an admission charges the path there is when *)
(* it commits: moves wait for it ("Match admission's root lock before      *)
(* changing the ancestry it resolves", control_api/main.py:445).  After    *)
(* that a move may hold the root of the month before, or of none.          *)
PathIsCurrent ==
    month = 0 =>
        \A c \in Calls : Walking(c) /\ call[c].op = "admit" => OnPath(c)
=============================================================================
