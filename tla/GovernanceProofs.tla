-------------------------- MODULE GovernanceProofs --------------------------
(***************************************************************************)
(* Proofs about Governance, for any number of subjects and calls and any   *)
(* custom roles: the tenant keeps an owner, and only calls that an owner   *)
(* made move owners or grant more than a plain role.                       *)
(*                                                                         *)
(* That an owner remains is decided before the commit that relies on it.   *)
(* It stays true in between because only the holder of the tenant's row    *)
(* writes memberships: a call that was checked leaves another owner        *)
(* (CheckedSafe).                                                          *)
(***************************************************************************)
EXTENDS Governance, FiniteSetTheorems, TLAPS

CheckedSafe ==
    \A c \in Calls :
        call[c].stage = "checked" /\ call[c].role # "owner" =>
            \E s \in Owners : s # call[c].subject

(* What lies behind a call that holds the tenant's row. *)
CallJudged ==
    \A c \in Calls :
        /\ call[c].stage \in {"locked", "checked"} =>
             call[c].actor_role = "owner" \/ call[c].role \in Plain
        /\ /\ call[c].stage = "checked"
           /\ member[call[c].subject].role = "owner"
           => call[c].actor_role = "owner"

IInv == TypeOK /\ AlwaysAnOwner /\ CheckedSafe /\ CallJudged

-----------------------------------------------------------------------------
LEMMA RoleNamesDiffer ==
    "owner" \in Roles /\ Absent.role = "none" /\ "none" \notin Roles
  BY RolesAssumption DEF Roles, TemplateNames, Plain, Absent

LEMMA InitKeeps == Init => IInv
  <1> SUFFICES ASSUME Init PROVE IInv
    OBVIOUS
  <1>1. PICK s \in Subjects :
          member = [t \in Subjects |->
                      IF t = s THEN [role |-> "owner", scope |-> Root]
                      ELSE Absent]
    BY DEF Init
  <1>2. [role |-> "owner", scope |-> Root] \in [role : Roles, scope : Scopes]
    BY RoleNamesDiffer DEF Scopes
  <1>3. \A c \in Calls : call[c].stage = "idle" /\ tenant_lock # c
    BY RolesAssumption DEF Init, NoCall
  <1>4. TypeOK
    <2>1. member \in [Subjects -> [role : Roles, scope : Scopes] \cup {Absent}]
      BY <1>1, <1>2
    <2>2. custom \in [RoleNames -> (SUBSET Permissions) \cup {NoRole}]
      BY DEF Init
    <2>3. call \in [Calls -> Assignment \cup Creation \cup {NoCall}]
      BY DEF Init
    <2>4. tenant_lock = Nobody
      BY DEF Init
    <2>5. \A c \in Calls : call[c].stage \notin {"locked", "checked"}
      BY <1>3
    <2> QED BY <1>3, <2>1, <2>2, <2>3, <2>4, <2>5 DEF TypeOK
  <1>5. AlwaysAnOwner
    BY <1>1 DEF AlwaysAnOwner, Owners
  <1> QED BY <1>3, <1>4, <1>5 DEF IInv, CheckedSafe, CallJudged

(* A step that leaves memberships alone keeps every owner. *)
LEMMA OwnersStay ==
    ASSUME UNCHANGED member
    PROVE  Owners' = Owners
  BY DEF Owners

(* One call goes on to a stage that holds no lock, or returns. *)
LEMMA ReturnKeeps ==
    ASSUME IInv, NEW c \in Calls, Returns(c), UNCHANGED member,
           custom' \in [RoleNames -> (SUBSET Permissions) \cup {NoRole}]
    PROVE  IInv'
  <1>1. /\ call'[c] = NoCall /\ \A d \in Calls \ {c} : call'[d] = call[d]
        /\ call' \in [Calls -> Assignment \cup Creation \cup {NoCall}]
    BY DEF Returns, IInv, TypeOK
  <1>2. call'[c].stage = "idle"
    BY <1>1 DEF NoCall
  <1>3. TypeOK'
    BY <1>1, <1>2, RolesAssumption DEF Returns, IInv, TypeOK
  <1>4. AlwaysAnOwner' /\ CheckedSafe' /\ CallJudged'
    BY <1>1, <1>2, OwnersStay DEF IInv, AlwaysAnOwner, CheckedSafe, CallJudged
  <1> QED BY <1>3, <1>4 DEF IInv

LEMMA StartKeeps ==
    ASSUME IInv, NEW c \in Calls, NEW r \in Assignment \cup Creation,
           r.stage \in {"authorized", "creating"},
           call[c] = NoCall, Goes(c, r),
           UNCHANGED <<member, custom, tenant_lock>>
    PROVE  IInv'
  <1>1. /\ call'[c] = r /\ \A d \in Calls \ {c} : call'[d] = call[d]
        /\ call' \in [Calls -> Assignment \cup Creation \cup {NoCall}]
    BY DEF Goes, IInv, TypeOK
  <1>2. tenant_lock # c
    BY DEF IInv, TypeOK, NoCall
  <1>3. TypeOK'
    BY <1>1, <1>2 DEF IInv, TypeOK
  <1>4. AlwaysAnOwner' /\ CheckedSafe' /\ CallJudged'
    BY <1>1, OwnersStay DEF IInv, AlwaysAnOwner, CheckedSafe, CallJudged
  <1> QED BY <1>3, <1>4 DEF IInv

(* A call that is past its authorization is an assignment. *)
LEMMA AssignmentTyped ==
    ASSUME TypeOK, NEW c \in Calls,
           call[c].stage \in {"authorized", "locked", "checked"}
    PROVE  call[c] \in Assignment
  BY DEF TypeOK, Creation, NoCall

LEMMA MemberRoleTyped ==
    ASSUME TypeOK, NEW s \in Subjects, member[s] # Absent
    PROVE  member[s].role \in Roles
  BY DEF TypeOK

LEMMA LockKeeps ==
    ASSUME IInv, NEW c \in Calls, Lock(c)
    PROVE  IInv'
  <1>1. call[c] \in Assignment
    BY AssignmentTyped DEF Lock, IInv
  <1> DEFINE r == [call[c] EXCEPT !.stage = "locked"]
  <1>2. /\ r \in Assignment /\ r.stage = "locked"
        /\ r.actor_role = call[c].actor_role /\ r.role = call[c].role
    BY <1>1 DEF Assignment
  <1>3. /\ call'[c] = r /\ \A d \in Calls \ {c} : call'[d] = call[d]
        /\ call' \in [Calls -> Assignment \cup Creation \cup {NoCall}]
    BY <1>2 DEF Lock, Goes, IInv, TypeOK
  <1> HIDE DEF r
  <1>4. tenant_lock = Nobody /\ tenant_lock' = c
    BY DEF Lock, TenantFree
  <1>5. \A d \in Calls : call[d].stage \notin {"locked", "checked"}
    BY <1>4, RolesAssumption DEF IInv, TypeOK
  <1>6. TypeOK'
    BY <1>2, <1>3, <1>4, <1>5 DEF Lock, IInv, TypeOK
  <1>7. AlwaysAnOwner'
    BY OwnersStay DEF Lock, IInv, AlwaysAnOwner
  <1>8. CheckedSafe'
    BY <1>2, <1>3, <1>5 DEF CheckedSafe
  <1>9. CallJudged'
    BY <1>2, <1>3, <1>5 DEF Lock, MayGive, CallJudged
  <1> QED BY <1>6, <1>7, <1>8, <1>9 DEF IInv

LEMMA CheckKeeps ==
    ASSUME IInv, NEW c \in Calls, Check(c)
    PROVE  IInv'
  <1>1. call[c] \in Assignment /\ call[c].stage = "locked"
    BY AssignmentTyped DEF Check, IInv
  <1> DEFINE r == [call[c] EXCEPT !.stage = "checked"]
  <1>2. /\ r \in Assignment /\ r.stage = "checked"
        /\ r.actor_role = call[c].actor_role /\ r.role = call[c].role
        /\ r.subject = call[c].subject
    BY <1>1 DEF Assignment
  <1>3. /\ call'[c] = r /\ \A d \in Calls \ {c} : call'[d] = call[d]
        /\ call' \in [Calls -> Assignment \cup Creation \cup {NoCall}]
    BY <1>2 DEF Check, Goes, IInv, TypeOK
  <1> HIDE DEF r
  <1>4. TypeOK'
    BY <1>1, <1>2, <1>3 DEF Check, IInv, TypeOK
  <1>5. AlwaysAnOwner'
    BY OwnersStay DEF Check, IInv, AlwaysAnOwner
  <1>6. call[c].role # "owner" => \E s \in Owners : s # call[c].subject
    <2> SUFFICES ASSUME call[c].role # "owner",
                        Owners \subseteq {call[c].subject}
                 PROVE  FALSE
      OBVIOUS
    <2>1. Owners = {call[c].subject}
      BY DEF IInv, AlwaysAnOwner
    <2>2. member[call[c].subject].role = "owner"
      BY <2>1 DEF Owners
    <2>3. Cardinality(Owners) = 1
      BY <2>1, FS_Singleton
    <2> QED BY <2>2, <2>3 DEF Check, OwnerRemains
  <1>7. CheckedSafe'
    BY <1>2, <1>3, <1>6, OwnersStay DEF Check, IInv, CheckedSafe
  <1>8. CallJudged'
    BY <1>1, <1>2, <1>3 DEF Check, IInv, CallJudged
  <1> QED BY <1>4, <1>5, <1>7, <1>8 DEF IInv

LEMMA WriteKeeps ==
    ASSUME IInv, NEW c \in Calls, Write(c)
    PROVE  IInv'
  <1> DEFINE s == call[c].subject
             new == [role |-> call[c].role, scope |-> call[c].scope]
  <1>1. /\ call[c] \in Assignment /\ call[c].stage = "checked"
        /\ s \in Subjects /\ new \in [role : Roles, scope : Scopes]
    BY AssignmentTyped, RolesAssumption DEF Write, IInv, Assignment
  <1>2. /\ member' = [member EXCEPT ![s] = new] /\ new.role = call[c].role
        /\ member'[s] = new
        /\ \A t \in Subjects \ {s} : member'[t] = member[t]
    BY <1>1 DEF Write, IInv, TypeOK
  <1>3. /\ call'[c] = NoCall /\ \A d \in Calls \ {c} : call'[d] = call[d]
        /\ call' \in [Calls -> Assignment \cup Creation \cup {NoCall}]
    BY DEF Write, Returns, IInv, TypeOK
  <1>4. tenant_lock = c /\ tenant_lock' = Nobody
    BY <1>1 DEF Write, Returns, IInv, TypeOK
  <1>5. \A d \in Calls \ {c} : call[d].stage \notin {"locked", "checked"}
    BY <1>4 DEF IInv, TypeOK
  <1>6. call'[c].stage = "idle"
    BY <1>3 DEF NoCall
  <1>7. TypeOK'
    BY <1>1, <1>2, <1>3, <1>4, <1>5, <1>6, RolesAssumption
       DEF Write, IInv, TypeOK
  <1>8. AlwaysAnOwner'
    <2>1. CASE call[c].role = "owner"
      BY <1>1, <1>2, <2>1 DEF AlwaysAnOwner, Owners
    <2>2. CASE call[c].role # "owner"
      <3>1. PICK t \in Owners : t # s
        BY <1>1, <2>2 DEF IInv, CheckedSafe
      <3> QED BY <1>2, <3>1 DEF AlwaysAnOwner, Owners
    <2> QED BY <2>1, <2>2
  <1>9. CheckedSafe' /\ CallJudged'
    BY <1>3, <1>5, <1>6 DEF CheckedSafe, CallJudged
  <1> QED BY <1>7, <1>8, <1>9 DEF IInv

LEMMA StepKeeps == IInv /\ [Next]_vars => IInv'
  <1> SUFFICES ASSUME IInv, [Next]_vars
               PROVE  IInv'
    OBVIOUS
  <1>1. ASSUME NEW c \in Calls, NEW s \in Subjects, NEW n \in RoleNames,
               NEW p \in Asked, AuthorizeRole(c, s, n, p)
        PROVE  IInv'
    <2>1. [stage |-> "creating", name |-> n, permissions |-> p] \in Creation
      BY DEF Creation
    <2> QED BY <1>1, <2>1, StartKeeps DEF AuthorizeRole
  <1>2. ASSUME NEW c \in Calls, CreateRole(c)
        PROVE  IInv'
    <2>1. call[c] \in Creation
      BY <1>2 DEF CreateRole, IInv, TypeOK, Assignment, NoCall
    <2>2. custom' \in [RoleNames -> (SUBSET Permissions) \cup {NoRole}]
      BY <1>2, <2>1, RolesAssumption DEF CreateRole, Creation, IInv, TypeOK
    <2> QED BY <1>2, <2>2, ReturnKeeps DEF CreateRole
  <1>3. ASSUME NEW c \in Calls, NEW s \in Subjects, NEW t \in Subjects,
               NEW r \in AskedRoles, NEW g \in Scopes, Authorize(c, s, t, r, g)
        PROVE  IInv'
    <2>1. member[s].role \in Roles
      BY <1>3, MemberRoleTyped DEF Authorize, Authorized, IInv
    <2>2. [stage |-> "authorized", actor_role |-> member[s].role,
           subject |-> t, role |-> r, scope |-> g] \in Assignment
      BY <2>1 DEF Assignment
    <2> QED BY <1>3, <2>2, StartKeeps DEF Authorize
  <1>4. ASSUME NEW c \in Calls, Refuse(c)
        PROVE  IInv'
    BY <1>4, ReturnKeeps DEF Refuse, IInv, TypeOK
  <1>5. CASE UNCHANGED vars
    BY <1>5, OwnersStay
       DEF vars, IInv, TypeOK, AlwaysAnOwner, CheckedSafe, CallJudged
  <1> QED BY <1>1, <1>2, <1>3, <1>4, <1>5, LockKeeps, CheckKeeps, WriteKeeps
          DEF Next

LEMMA AlwaysIInv == Spec => []IInv
  BY InitKeeps, StepKeeps, PTL DEF Spec

-----------------------------------------------------------------------------
(* The tenant's row is held by the one call that is reading or about to    *)
(* write under it (main.py:388).                                           *)
THEOREM GovernanceTyped == Spec => []TypeOK
  <1>1. IInv => TypeOK
    BY DEF IInv
  <1> QED BY <1>1, AlwaysIInv, PTL

(* However many calls demote owners together, one remains                  *)
(* (main.py:402-406).                                                      *)
THEOREM OwnerAlways == Spec => []AlwaysAnOwner
  <1>1. IInv => AlwaysAnOwner
    BY DEF IInv
  <1> QED BY <1>1, AlwaysIInv, PTL

(* Owners are made, unmade and privilege given by owners' calls alone      *)
(* (main.py:393-401).                                                      *)
THEOREM OwnersAreMovedByOwners == Spec => OnlyOwnersMoveOwners
  <1> DEFINE Moves ==
        \A s \in Subjects :
          member'[s].role # member[s].role
            /\ (member[s].role = "owner" \/ member'[s].role \notin Plain)
          => \E c \in Calls :
               call[c].stage = "checked" /\ call[c].actor_role = "owner"
                 /\ call[c].subject = s /\ call'[c] = NoCall
  <1>1. IInv /\ [Next]_vars => Moves
    <2> SUFFICES ASSUME IInv, [Next]_vars, NEW s \in Subjects,
                        member'[s].role # member[s].role,
                        member[s].role = "owner" \/ member'[s].role \notin Plain
                 PROVE  \E c \in Calls :
                          call[c].stage = "checked"
                            /\ call[c].actor_role = "owner"
                            /\ call[c].subject = s /\ call'[c] = NoCall
      OBVIOUS
    <2>1. PICK c \in Calls : Write(c)
      BY DEF Next, AuthorizeRole, CreateRole, Authorize, Lock, Check, Refuse,
             vars
    <2>2. call[c] \in Assignment /\ call[c].stage = "checked"
      BY <2>1, AssignmentTyped DEF Write, IInv
    <2>3. call[c].subject = s /\ member'[s].role = call[c].role
      BY <2>1, <2>2 DEF Write, IInv, TypeOK, Assignment
    <2>4. call'[c] = NoCall
      BY <2>1 DEF Write, Returns, IInv, TypeOK
    <2>5. call[c].actor_role = "owner"
      BY <2>2, <2>3 DEF IInv, CallJudged
    <2> QED BY <2>2, <2>3, <2>4, <2>5
  <1>2. IInv /\ [Next]_vars => [Moves]_vars
    BY <1>1
  <1> QED BY <1>2, AlwaysIInv, PTL DEF Spec, OnlyOwnersMoveOwners
=============================================================================
