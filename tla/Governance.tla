----------------------------- MODULE Governance -----------------------------
(***************************************************************************)
(* Memberships and roles of one tenant: assign_membership and create_role  *)
(* of services/control_api/main.py, authorize of domain/security.py.       *)
(*                                                                         *)
(* authorize is a transaction of its own: what it found of the actor is    *)
(* remembered and acted upon later.  A membership is then changed under a  *)
(* lock on the tenant's row, in three steps here: the lock, what is read   *)
(* under it, and the commit.  The lock that the query takes on the row it  *)
(* changes adds nothing to the tenant's and is left out.                   *)
(***************************************************************************)
EXTENDS Naturals, FiniteSets

CONSTANTS
    Subjects,
    Groups, Path,    \* Path[g]: g and the groups above it
    RoleNames,       \* custom roles that may be created
    Asked,           \* permission sets and ...
    AskedRoles,      \* ... roles that callers ask for
    Calls            \* calls that may be in flight together

Permissions == {"read", "write", "members.manage", "roles.manage",
                "content.read"}
Templates ==
    [owner   |-> Permissions,
     admin   |-> Permissions \ {"roles.manage"},
     manager |-> {"read", "write"},
     member  |-> {"read"},
     auditor |-> {"read"}]
Plain == {"manager", "member", "auditor"}
TemplateNames == Plain \cup {"owner", "admin"}
Roles == TemplateNames \cup RoleNames

Root == "root"                     \* scope_id NULL
Absent == [role |-> "none", scope |-> Root]
NoCall == [stage |-> "idle"]
Nobody == "nobody"
NoRole == {"no such role"}           \* grants nothing that is asked for

ASSUME SubjectsAssumption == IsFiniteSet(Subjects) /\ Subjects # {}
ASSUME GroupsAssumption ==
    /\ Root \notin Groups
    /\ Path \in [Groups -> SUBSET Groups]
ASSUME RolesAssumption ==
    /\ RoleNames \cap (TemplateNames \cup {"none"}) = {}
    /\ Asked \subseteq SUBSET Permissions
    /\ AskedRoles \subseteq Roles
    /\ Nobody \notin Calls

VARIABLES
    member,      \* memberships: role and scope of each subject, or Absent
    custom,      \* roles: the permissions of a role, or NoRole
    call,        \* calls in flight
    tenant_lock  \* the call that holds the tenant's row, or Nobody

vars == <<member, custom, call, tenant_lock>>

Scopes == Groups \cup {Root}
Assignment == [stage : {"authorized", "locked", "checked"},
               actor_role : Roles, subject : Subjects,
               role : AskedRoles, scope : Scopes]
Creation == [stage : {"creating"}, name : RoleNames, permissions : Asked]

TypeOK ==
    /\ member \in [Subjects -> [role : Roles, scope : Scopes] \cup {Absent}]
    /\ custom \in [RoleNames -> (SUBSET Permissions) \cup {NoRole}]
    /\ call \in [Calls -> Assignment \cup Creation \cup {NoCall}]
    /\ tenant_lock \in Calls \cup {Nobody}
    /\ \A c \in Calls :
         tenant_lock = c <=> call[c].stage \in {"locked", "checked"}

(* create_org has made its caller the owner. *)
Init ==
    /\ \E s \in Subjects :
         member = [t \in Subjects |->
                     IF t = s THEN [role |-> "owner", scope |-> Root]
                     ELSE Absent]
    /\ custom = [n \in RoleNames |-> NoRole]
    /\ call = [c \in Calls |-> NoCall]
    /\ tenant_lock = Nobody

Owners == {s \in Subjects : member[s].role = "owner"}

-----------------------------------------------------------------------------
(* authorize *)

(* What a role allows; a custom one is looked up each time. *)
Allowed(role) ==
    IF role \in TemplateNames THEN Templates[role] ELSE custom[role]

(* s may do what needs permission in scope: a scoped member acts at or     *)
(* below its own group only, and nowhere at the root.                      *)
Authorized(s, permission, scope) ==
    /\ member[s] # Absent
    /\ permission \in Allowed(member[s].role)
    /\ member[s].scope # Root =>
         scope # Root /\ member[s].scope \in Path[scope]

Goes(c, record) == call' = [call EXCEPT ![c] = record]

Returns(c) ==
    /\ call' = [call EXCEPT ![c] = NoCall]
    /\ tenant_lock' = IF tenant_lock = c THEN Nobody ELSE tenant_lock

-----------------------------------------------------------------------------
(* create_role *)

AuthorizeRole(c, s, name, permissions) ==
    /\ call[c] = NoCall
    /\ Authorized(s, "roles.manage", Root)
    /\ Goes(c, [stage |-> "creating", name |-> name,
                permissions |-> permissions])
    /\ UNCHANGED <<member, custom, tenant_lock>>

(* UNIQUE(tenant, name): an existing role is never replaced. *)
CreateRole(c) ==
    /\ call[c].stage = "creating"
    /\ \/ /\ custom[call[c].name] = NoRole
          /\ custom' = [custom EXCEPT ![call[c].name] = call[c].permissions]
       \/ /\ custom[call[c].name] # NoRole
          /\ UNCHANGED custom
    /\ Returns(c)
    /\ UNCHANGED member

-----------------------------------------------------------------------------
(* assign_membership *)

Authorize(c, s, subject, role, scope) ==
    /\ call[c] = NoCall
    /\ Authorized(s, "members.manage", scope)
    /\ Goes(c, [stage |-> "authorized", actor_role |-> member[s].role,
                subject |-> subject, role |-> role, scope |-> scope])
    /\ UNCHANGED <<member, custom, tenant_lock>>

TenantIgnored == TRUE
TenantFree == tenant_lock = Nobody

(* Who may give role to somebody else. *)
MayGiveAll(c) == TRUE
MayGive(c) == call[c].actor_role # "owner" => call[c].role \in Plain

(* The tenant's row is locked, and the request's own contents are judged. *)
Lock(c) ==
    /\ call[c].stage = "authorized"
    /\ TenantFree
    /\ call[c].role \in
         TemplateNames \cup {n \in RoleNames : custom[n] # NoRole}
    /\ MayGive(c)
    /\ call[c].role = "owner" => call[c].scope = Root
    /\ Goes(c, [call[c] EXCEPT !.stage = "locked"])
    /\ tenant_lock' = c
    /\ UNCHANGED <<member, custom>>

(* An owner who would cease to be one is not the only one. *)
OwnerCounted(c) ==
    member[call[c].subject].role = "owner" /\ call[c].role # "owner" =>
        Cardinality(Owners) >= 1
OwnerRemains(c) ==
    member[call[c].subject].role = "owner" /\ call[c].role # "owner" =>
        Cardinality(Owners) > 1

(* The subject's membership and the owners are read under the lock. *)
Check(c) ==
    /\ call[c].stage = "locked"
    /\ member[call[c].subject].role = "owner" => call[c].actor_role = "owner"
    /\ OwnerRemains(c)
    /\ Goes(c, [call[c] EXCEPT !.stage = "checked"])
    /\ UNCHANGED <<member, custom, tenant_lock>>

(* Whatever is not allowed above is refused, and rolled back. *)
Refuse(c) ==
    /\ call[c].stage \in {"authorized", "locked"}
    /\ Returns(c)
    /\ UNCHANGED <<member, custom>>

Write(c) ==
    /\ call[c].stage = "checked"
    /\ member' = [member EXCEPT ![call[c].subject] =
                    [role |-> call[c].role, scope |-> call[c].scope]]
    /\ Returns(c)
    /\ UNCHANGED custom

-----------------------------------------------------------------------------
Next ==
    \/ \E c \in Calls, s \in Subjects, n \in RoleNames, p \in Asked :
         AuthorizeRole(c, s, n, p)
    \/ \E c \in Calls : CreateRole(c)
    \/ \E c \in Calls, s, t \in Subjects, r \in AskedRoles, g \in Scopes :
         Authorize(c, s, t, r, g)
    \/ \E c \in Calls : Lock(c) \/ Check(c) \/ Refuse(c) \/ Write(c)

Spec == Init /\ [][Next]_vars

-----------------------------------------------------------------------------
(* The tenant is never without an owner, however many owners demote each   *)
(* other or themselves at a time ("last_owner_protected").                 *)
AlwaysAnOwner == Owners # {}

(* Who is an owner, or becomes more or less than a plain member, does so   *)
(* by a call that an owner made: whoever else may manage members, by a     *)
(* template or by a custom role, cannot pass on privilege or unseat an     *)
(* owner, not even through a role created or changed meanwhile.            *)
OnlyOwnersMoveOwners ==
    [][\A s \in Subjects :
         member'[s].role # member[s].role
           /\ (member[s].role = "owner" \/ member'[s].role \notin Plain)
         => \E c \in Calls :
              call[c].stage = "checked" /\ call[c].actor_role = "owner"
                /\ call[c].subject = s /\ call'[c] = NoCall]_vars
=============================================================================
