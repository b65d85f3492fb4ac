----------------------------- MODULE Membership -----------------------------
(***************************************************************************)
(* One organization: who belongs to it, with which roles, and what keeps   *)
(* it from being left with nobody who can administer it.                   *)
(*                                                                         *)
(* A request is authorized once (requirePermission resolves a grant from   *)
(* the caller's roles), checks the rules against further reads, and then   *)
(* opens a transaction.  Changes to members and deletions of roles lock    *)
(* the organization row first and ask the domain's guard inside; replacing *)
(* the permissions of a role takes no lock; inserting a membership or a    *)
(* role takes a KEY SHARE lock on the organization through its foreign     *)
(* key, and so waits for whoever holds the row FOR UPDATE.                 *)
(*                                                                         *)
(* A statement, or the reads one check makes, is one action.               *)
(***************************************************************************)
EXTENDS Integers, FiniteSets

CONSTANTS
    Users,          \* accounts
    Memberships,    \* ids of membership rows; an id is used once
    Owner,          \* the shipped role that grants everything
    Admin,          \* the shipped role that grants all but deleting it
    CustomRoles,    \* ids of roles made here; one may come back, as no uuid does
    Reqs,           \* HTTP requests
    None,           \* no account, row or request
    PermissionSets  \* bound: the sets a request asks a role to grant

ASSUME RolesAssumption ==
    /\ Owner # Admin
    /\ {Owner, Admin} \cap CustomRoles = {}

ASSUME NoneAssumption == None \notin Users \cup Memberships \cup Reqs

VARIABLES
    live,       \* organizations.deleted_at IS NULL
    retired,    \* accounts with deleted_at set
    member,     \* memberships rows
    holds,      \* membership_roles: the roles of each row
    role,       \* roles that exist
    grants,     \* role_permissions rows: <<permission, who inserted it>>
    lock,       \* who holds the organization row FOR UPDATE
    pc,         \* where each request is
    op,         \* what it does
    who,        \* the caller, or the account it appoints
    grant,      \* the permissions it was authorized with
    target,     \* the membership it is about
    wanted,     \* the roles it is about
    asked,      \* the permissions it asks for
    old,        \* the role_permissions rows its DELETE found
    overtaken   \* history: an owner's account went since the guard counted

tables == <<live, retired, member, holds, role, grants>>
locals == <<op, who, grant, target, wanted, asked, old>>
vars == <<tables, lock, pc, locals, overtaken>>

Roles == {Owner, Admin} \cup CustomRoles

\* What each operation asks of the caller (operationAccess).
Required == [suspend |-> "members.suspend", reinstate |-> "members.suspend",
             remove |-> "members.remove", setroles |-> "members.roles.assign",
             createrole |-> "roles.create", setperms |-> "roles.update",
             deleterole |-> "roles.delete", deleteorg |-> "organization.delete"]

Permissions == {Required[o] : o \in DOMAIN Required}

ASSUME PermissionsAssumption == PermissionSets \subseteq SUBSET Permissions

Operations == DOMAIN Required \cup {"leave", "appoint"}

Pcs == {"idle", "authorized", "roles", "appoint", "insert",
        "lock", "guard", "write", "delete", "replace", "create", "ok", "refused"}

MemberRow == [user: Users \cup {None},
              status: {"unused", "active", "suspended", "gone"}]

Exists(m) == member[m].status \in {"active", "suspended"}

\* Every table holds rows of its shape, an account has one membership, and no
\* assignment outlives its membership or its role.
TypeOK ==
    /\ live \in BOOLEAN
    /\ retired \subseteq Users
    /\ member \in [Memberships -> MemberRow]
    /\ \A m, n \in Memberships :
          Exists(m) /\ Exists(n) /\ member[m].user = member[n].user => m = n
    /\ holds \in [Memberships -> SUBSET role]
    /\ \A m \in Memberships : ~Exists(m) => holds[m] = {}
    /\ role \in SUBSET Roles
    /\ grants \in [Roles -> SUBSET (Permissions \X (Reqs \cup {None}))]
    /\ lock \in Reqs \cup {None}
    /\ pc \in [Reqs -> Pcs]
    /\ op \in [Reqs -> Operations \cup {None}]
    /\ who \in [Reqs -> Users \cup {None}]
    /\ grant \in [Reqs -> SUBSET Permissions]
    /\ target \in [Reqs -> Memberships \cup {None}]
    /\ wanted \in [Reqs -> SUBSET Roles]
    /\ asked \in [Reqs -> SUBSET Permissions]
    /\ old \in [Reqs -> SUBSET (Permissions \X (Reqs \cup {None}))]
    /\ overtaken \in BOOLEAN

\* The organization has its shipped roles, some active members with one of them
\* or none, and possibly roles of its own.
Init ==
    /\ live = TRUE
    /\ retired = {}
    /\ member \in [Memberships -> {row \in MemberRow :
           \/ row.status = "unused" /\ row.user = None
           \/ row.status = "active" /\ row.user # None}]
    /\ role \in {{Owner, Admin} \cup some : some \in SUBSET CustomRoles}
    /\ holds \in [Memberships -> {{}, {Owner}, {Admin}}]
    /\ grants \in {[q \in Roles |->
           CASE q = Owner -> Permissions \X {None}
             [] q = Admin -> (Permissions \ {"organization.delete"}) \X {None}
             [] q \in CustomRoles -> IF q \in role THEN set \X {None} ELSE {}]
           : set \in PermissionSets}
    /\ lock = None
    /\ pc = [r \in Reqs |-> "idle"]
    /\ op = [r \in Reqs |-> None]
    /\ who = [r \in Reqs |-> None]
    /\ grant = [r \in Reqs |-> {}]
    /\ target = [r \in Reqs |-> None]
    /\ wanted = [r \in Reqs |-> {}]
    /\ asked = [r \in Reqs |-> {}]
    /\ old = [r \in Reqs |-> {}]
    /\ overtaken = FALSE
    /\ TypeOK

(***************************************************************************)
(* What the statements read                                                *)
(***************************************************************************)

\* The permissions of a role, and of everything a membership holds, whatever
\* its status (MemberPermissions).
Grants(q) == {row[1] : row \in grants[q]}

Power(m) == UNION {Grants(q) : q \in holds[m]}

\* OrganizationPermissionKeys: nothing without an active membership of a live
\* account in a live organization.
Resolved(u) ==
    UNION {Power(m) : m \in {n \in Memberships : /\ live
                                                 /\ u \notin retired
                                                 /\ member[n].status = "active"
                                                 /\ member[n].user = u}}

\* Mutant: a membership whose account is gone still counts as an owner.
OwnersByRow ==
    {m \in Memberships : member[m].status = "active" /\ Owner \in holds[m]}

\* ownerStateTx: active memberships that hold owner and have a live account.
Owners == {m \in Memberships : /\ member[m].status = "active"
                               /\ member[m].user \notin retired
                               /\ Owner \in holds[m]}

\* liveUser(): the row is there and so is its account.
Found(m) == Exists(m) /\ member[m].user \notin retired

Unused(m) == member[m].status = "unused"

Goto(r, next) == pc' = [pc EXCEPT ![r] = next]

\* The request is answered, its transaction over; nothing it held is used again.
Answer(r, outcome) ==
    /\ Goto(r, outcome)
    /\ lock' = IF lock = r THEN None ELSE lock
    /\ op' = [op EXCEPT ![r] = None]
    /\ who' = [who EXCEPT ![r] = None]
    /\ grant' = [grant EXCEPT ![r] = {}]
    /\ target' = [target EXCEPT ![r] = None]
    /\ wanted' = [wanted EXCEPT ![r] = {}]
    /\ asked' = [asked EXCEPT ![r] = {}]
    /\ old' = [old EXCEPT ![r] = {}]

Refuse(r) == Answer(r, "refused") /\ UNCHANGED <<tables, overtaken>>

(***************************************************************************)
(* Authorization                                                           *)
(***************************************************************************)

\* requirePermission: 404 for a stranger, 403 for a member without the permission.
Authorize(r, u, o) ==
    /\ pc[r] = "idle"
    /\ \/ /\ Required[o] \notin Resolved(u)
          /\ Refuse(r)
       \/ /\ Required[o] \in Resolved(u)
          /\ Goto(r, "authorized")
          /\ op' = [op EXCEPT ![r] = o]
          /\ who' = [who EXCEPT ![r] = u]
          /\ grant' = [grant EXCEPT ![r] = Resolved(u)]
          /\ UNCHANGED <<tables, lock, target, wanted, asked, old, overtaken>>

\* A platform administrator deletes the organization: authorized at system
\* scope, with no standing inside it.
AuthorizePlatform(r) ==
    /\ pc[r] = "idle"
    /\ Goto(r, "authorized")
    /\ op' = [op EXCEPT ![r] = "deleteorg"]
    /\ UNCHANGED <<tables, lock, who, grant, target, wanted, asked, old, overtaken>>

(***************************************************************************)
(* Rules checked before the transaction                                    *)
(***************************************************************************)

\* ensureCanAffectMember: oneself, or somebody who holds no more.
CanAffect(r, m) == member[m].user = who[r] \/ Power(m) \subseteq grant[r]

\* Member, then the rank rule.  A row whose account is gone is only removable,
\* and then nobody's rank is compared.
CheckMember(r, m) ==
    /\ pc[r] = "authorized"
    /\ op[r] \in {"suspend", "reinstate", "remove", "setroles"}
    /\ \/ /\ Found(m)
          /\ ~CanAffect(r, m)
          /\ Refuse(r)
       \/ /\ ~Found(m)
          /\ op[r] # "remove"
          /\ Refuse(r)
       \/ /\ IF Found(m) THEN CanAffect(r, m) ELSE op[r] = "remove"
          /\ Goto(r, IF op[r] = "setroles" THEN "roles" ELSE "lock")
          /\ target' = [target EXCEPT ![r] = m]
          /\ UNCHANGED <<tables, lock, op, who, grant, wanted, asked, old, overtaken>>

\* ensureRolesAreGrantable, over the roles the request names.
CheckRoles(r, named) ==
    /\ pc[r] = "roles"
    /\ LET grantable == \A q \in named : q \in role /\ Grants(q) \subseteq grant[r]
       IN  \/ ~grantable /\ Refuse(r)
           \/ /\ grantable
              /\ Goto(r, "lock")
              /\ wanted' = [wanted EXCEPT ![r] = named]
              /\ UNCHANGED <<tables, lock, op, who, grant, target, asked, old, overtaken>>

\* Leave: the caller's own memberships in live organizations, whatever their
\* status; no permission is asked for.
Leave(r, u, m) ==
    /\ pc[r] = "idle"
    /\ \/ /\ ~(live /\ Exists(m) /\ member[m].user = u)
          /\ Refuse(r)
       \/ /\ live /\ Exists(m) /\ member[m].user = u
          /\ Goto(r, "lock")
          /\ op' = [op EXCEPT ![r] = "leave"]
          /\ who' = [who EXCEPT ![r] = u]
          /\ target' = [target EXCEPT ![r] = m]
          /\ UNCHANGED <<tables, lock, grant, wanted, asked, old, overtaken>>

\* AppointOwner: the organization is live; then, in a second read, the account is
\* a member already or it is not.
AppointOwner(r, u) ==
    /\ pc[r] = "idle"
    /\ \/ ~live /\ Refuse(r)
       \/ /\ live
          /\ Goto(r, "appoint")
          /\ op' = [op EXCEPT ![r] = "appoint"]
          /\ who' = [who EXCEPT ![r] = u]
          /\ wanted' = [wanted EXCEPT ![r] = {Owner}]
          /\ UNCHANGED <<tables, lock, grant, target, asked, old, overtaken>>

GrantOwnership(r) ==
    /\ pc[r] = "appoint"
    /\ LET rows == {m \in Memberships : Found(m) /\ member[m].user = who[r]}
       IN  \/ \E m \in rows : /\ Goto(r, "lock")
                              /\ target' = [target EXCEPT ![r] = m]
           \/ /\ rows = {}
              /\ Goto(r, "insert")
              /\ UNCHANGED target
    /\ UNCHANGED <<tables, lock, op, who, grant, wanted, asked, old, overtaken>>

\* DeleteRole before its transaction: the role is there and not a shipped one.
CheckDeletedRole(r, q) ==
    /\ pc[r] = "authorized"
    /\ op[r] = "deleterole"
    /\ \/ q \notin role \ {Owner, Admin} /\ Refuse(r)
       \/ /\ q \in role \ {Owner, Admin}
          /\ Goto(r, "lock")
          /\ wanted' = [wanted EXCEPT ![r] = {q}]
          /\ UNCHANGED <<tables, lock, op, who, grant, target, asked, old, overtaken>>

\* SetRolePermissions: the same, and EnsureCanGrant.
CheckPermissions(r, q, set) ==
    /\ pc[r] = "authorized"
    /\ op[r] = "setperms"
    /\ LET allowed == q \in role \ {Owner, Admin} /\ set \subseteq grant[r]
       IN  \/ ~allowed /\ Refuse(r)
           \/ /\ allowed
              /\ Goto(r, "delete")
              /\ wanted' = [wanted EXCEPT ![r] = {q}]
              /\ asked' = [asked EXCEPT ![r] = set]
              /\ UNCHANGED <<tables, lock, op, who, grant, target, old, overtaken>>

(***************************************************************************)
(* Transactions under the lock of the organization row                     *)
(***************************************************************************)

\* Mutant: the row is read without FOR UPDATE.
LockByReading(r) ==
    /\ pc[r] = "lock"
    /\ \/ ~live /\ Refuse(r)
       \/ live /\ Goto(r, "guard") /\ UNCHANGED <<tables, lock, locals, overtaken>>

\* lockOrganization.  A deleted organization has no row to lock.
Lock(r) ==
    /\ pc[r] = "lock"
    /\ lock = None
    /\ \/ ~live /\ Refuse(r)
       \/ /\ live
          /\ lock' = r
          /\ Goto(r, "guard")
          /\ UNCHANGED <<tables, locals, overtaken>>

\* The change takes the owner capability away from its subject.
Losing(r) == \/ op[r] \in {"suspend", "remove", "leave"}
             \/ op[r] = "setroles" /\ Owner \notin wanted[r]

\* RefuseLastOwnerLoss and RefuseRoleInUse, on what the statement before them
\* counted under the lock.
Refused(r) ==
    \/ Losing(r) /\ target[r] \in Owners /\ Cardinality(Owners) <= 1
    \/ /\ op[r] = "deleterole"
       /\ \/ ~(wanted[r] \subseteq role)
          \/ \E m \in Memberships : wanted[r] \cap holds[m] # {}

\* Mutant: a refusal returns without ending the transaction.
GuardLeavingTransactionOpen(r) ==
    /\ pc[r] = "guard"
    /\ \/ Refused(r) /\ Goto(r, "refused") /\ UNCHANGED <<tables, lock, locals, overtaken>>
       \/ /\ ~Refused(r)
          /\ Goto(r, "write")
          /\ overtaken' = FALSE
          /\ UNCHANGED <<tables, lock, locals>>

Guard(r) ==
    /\ pc[r] = "guard"
    /\ \/ Refused(r) /\ Refuse(r)
       \/ /\ ~Refused(r)
          /\ Goto(r, "write")
          /\ overtaken' = FALSE
          /\ UNCHANGED <<tables, lock, locals>>

\* The write finds no row, or names a role that does not exist: rolled back.
Rollback(r) ==
    /\ pc[r] = "write"
    /\ op[r] # "deleterole"
    /\ ~Exists(target[r]) \/ ~(wanted[r] \subseteq role)
    /\ Refuse(r)

SetMemberStatus(r) ==
    /\ pc[r] = "write"
    /\ op[r] \in {"suspend", "reinstate"}
    /\ Exists(target[r])
    /\ member' = [member EXCEPT ![target[r]].status =
                     IF op[r] = "suspend" THEN "suspended" ELSE "active"]
    /\ Answer(r, "ok")
    /\ UNCHANGED <<live, retired, holds, role, grants, overtaken>>

\* Mutant: the row goes, its assignments stay.
RemoveMemberKeepingRoles(r) ==
    /\ pc[r] = "write"
    /\ op[r] \in {"remove", "leave"}
    /\ Exists(target[r])
    /\ member' = [member EXCEPT ![target[r]].status = "gone"]
    /\ Answer(r, "ok")
    /\ UNCHANGED <<live, retired, holds, role, grants, overtaken>>

\* The row, and by cascade its assignments.
RemoveMember(r) ==
    /\ pc[r] = "write"
    /\ op[r] \in {"remove", "leave"}
    /\ Exists(target[r])
    /\ member' = [member EXCEPT ![target[r]].status = "gone"]
    /\ holds' = [holds EXCEPT ![target[r]] = {}]
    /\ Answer(r, "ok")
    /\ UNCHANGED <<live, retired, role, grants, overtaken>>

\* DELETE and INSERT of the assignments; also how an existing member is made owner.
ReplaceMemberRoles(r) ==
    /\ pc[r] = "write"
    /\ op[r] \in {"setroles", "appoint"}
    /\ Exists(target[r])
    /\ wanted[r] \subseteq role
    /\ holds' = [holds EXCEPT ![target[r]] = wanted[r]]
    /\ Answer(r, "ok")
    /\ UNCHANGED <<live, retired, member, role, grants, overtaken>>

\* The role, and by cascade its permissions and whatever assigns it by now.
DeleteRole(r) ==
    /\ pc[r] = "write"
    /\ op[r] = "deleterole"
    /\ role' = role \ wanted[r]
    /\ holds' = [m \in Memberships |-> holds[m] \ wanted[r]]
    /\ grants' = [q \in Roles |-> IF q \in wanted[r] THEN {} ELSE grants[q]]
    /\ Answer(r, "ok")
    /\ UNCHANGED <<live, retired, member, overtaken>>

(***************************************************************************)
(* Transactions without it                                                 *)
(***************************************************************************)

\* Mutant: nothing makes the insertion of a membership wait for the lock.
InsertWithoutWaiting(m, u, some) ==
    /\ Unused(m)
    /\ \A n \in Memberships : ~(Exists(n) /\ member[n].user = u)
    /\ some \subseteq role
    /\ member' = [member EXCEPT ![m] = [user |-> u, status |-> "active"]]
    /\ holds' = [holds EXCEPT ![m] = some]

\* INSERT INTO memberships and membership_roles: one row per account, roles that
\* exist, and a foreign key that waits for the organization row.
Insert(m, u, some) ==
    /\ lock = None
    /\ Unused(m)
    /\ \A n \in Memberships : ~(Exists(n) /\ member[n].user = u)
    /\ some \subseteq role
    /\ member' = [member EXCEPT ![m] = [user |-> u, status |-> "active"]]
    /\ holds' = [holds EXCEPT ![m] = some]

\* The account became a member since MemberByUser, or its row outlived it.
AddMember(r) ==
    /\ pc[r] = "insert"
    /\ \/ /\ \E n \in Memberships : Exists(n) /\ member[n].user = who[r]
          /\ Refuse(r)
       \/ /\ \E m \in Memberships : Insert(m, who[r], wanted[r])
          /\ Answer(r, "ok")
          /\ UNCHANGED <<live, retired, role, grants, overtaken>>

\* A new account joins, or an invitation is accepted, with the roles it names.  That
\* the organization is live was read earlier, and may have stopped being true.
AcceptInvitation(m, u, some) ==
    /\ Insert(m, u, some)
    /\ UNCHANGED <<live, retired, role, grants, lock, pc, locals, overtaken>>

\* EnsureCanGrant, then one INSERT with its permissions.
CheckCreateRole(r, set) ==
    /\ pc[r] = "authorized"
    /\ op[r] = "createrole"
    /\ \/ ~(set \subseteq grant[r]) /\ Refuse(r)
       \/ /\ set \subseteq grant[r]
          /\ Goto(r, "create")
          /\ asked' = [asked EXCEPT ![r] = set]
          /\ UNCHANGED <<tables, lock, op, who, grant, target, wanted, old, overtaken>>

CreateRole(r, q) ==
    /\ pc[r] = "create"
    /\ lock = None
    /\ q \in CustomRoles \ role
    /\ role' = role \cup {q}
    /\ grants' = [grants EXCEPT ![q] = asked[r] \X {r}]
    /\ Answer(r, "ok")
    /\ UNCHANGED <<live, retired, member, holds, overtaken>>

\* ReplaceRolePermissions is a DELETE and an INSERT in one READ COMMITTED
\* transaction: the DELETE takes away the rows its own snapshot showed.
DeletePermissions(r) ==
    /\ pc[r] = "delete"
    /\ \/ ~(wanted[r] \subseteq role) /\ Refuse(r)
       \/ \E q \in wanted[r] \cap role :
             /\ old' = [old EXCEPT ![r] = grants[q]]
             /\ Goto(r, "replace")
             /\ UNCHANGED <<tables, lock, op, who, grant, target, wanted, asked, overtaken>>

\* Commit, or a violation: a role that is gone, a key somebody else has inserted.
ReplaceRolePermissions(r) ==
    /\ pc[r] = "replace"
    /\ \E q \in wanted[r] :
          LET left == grants[q] \ old[r]
              refused == q \notin role \/ \E row \in left : row[1] \in asked[r]
          IN  \/ refused /\ Refuse(r)
              \/ /\ ~refused
                 /\ grants' = [grants EXCEPT ![q] = left \cup (asked[r] \X {r})]
                 /\ Answer(r, "ok")
                 /\ UNCHANGED <<live, retired, member, holds, role, overtaken>>

\* The soft delete is an UPDATE of the locked row.
DeleteOrganization(r) ==
    /\ pc[r] = "authorized"
    /\ op[r] = "deleteorg"
    /\ lock = None
    /\ \/ ~live /\ Refuse(r)
       \/ /\ live
          /\ live' = FALSE
          /\ Answer(r, "ok")
          /\ UNCHANGED <<retired, member, holds, role, grants, overtaken>>

(***************************************************************************)
(* What other actors do                                                    *)
(***************************************************************************)

\* An account is deleted; its memberships stay and no organization is locked.
DeleteUser(u) ==
    /\ u \notin retired
    /\ retired' = retired \cup {u}
    /\ overtaken' = (overtaken \/ \E m \in Owners : member[m].user = u)
    /\ UNCHANGED <<live, member, holds, role, grants, lock, pc, locals>>

\* The client hangs up, a statement fails or the process stops: the transaction,
\* if one is open, is rolled back and its lock released.
Abandon(r) ==
    /\ pc[r] \notin {"idle", "ok", "refused"}
    /\ Refuse(r)

(***************************************************************************)
(* The specification                                                       *)
(***************************************************************************)

TransactionStep(r) ==
    \/ Lock(r)
    \/ Guard(r)
    \/ SetMemberStatus(r)
    \/ RemoveMember(r)
    \/ ReplaceMemberRoles(r)
    \/ DeleteRole(r)
    \/ Rollback(r)

MemberStep(r) ==
    \/ \E u \in Users, o \in DOMAIN Required : Authorize(r, u, o)
    \/ \E m \in Memberships : CheckMember(r, m)
    \/ \E named \in SUBSET Roles : CheckRoles(r, named)
    \/ \E u \in Users, m \in Memberships : Leave(r, u, m)
    \/ \E u \in Users : AppointOwner(r, u)
    \/ GrantOwnership(r)
    \/ AddMember(r)
    \/ AuthorizePlatform(r)
    \/ DeleteOrganization(r)

RoleStep(r) ==
    \/ \E q \in Roles : CheckDeletedRole(r, q)
    \/ \E q \in Roles, set \in PermissionSets : CheckPermissions(r, q, set)
    \/ \E set \in PermissionSets : CheckCreateRole(r, set)
    \/ \E q \in CustomRoles : CreateRole(r, q)
    \/ DeletePermissions(r)
    \/ ReplaceRolePermissions(r)

OthersStep ==
    \/ \E m \in Memberships, u \in Users, some \in SUBSET Roles :
           AcceptInvitation(m, u, some)
    \/ \E u \in Users : DeleteUser(u)

Next ==
    \/ \E r \in Reqs : TransactionStep(r) \/ MemberStep(r) \/ RoleStep(r) \/ Abandon(r)
    \/ OthersStep

Spec == Init /\ [][Next]_vars

\* A statement that can run does, and a request waiting for the row gets it in
\* its turn: PostgreSQL grants a row lock to those queued for it.
FairSpec == Spec /\ \A r \in Reqs : SF_vars(TransactionStep(r))

(***************************************************************************)
(* Properties                                                              *)
(***************************************************************************)

\* Requests that were answered with success in this step.
Succeeded(r) == pc[r] # "ok" /\ pc'[r] = "ok"

\* The accounts that can administer the organization.
Administrators ==
    {u \in Users \ retired : \E m \in Memberships : /\ member[m].user = u
                                                  /\ member[m].status = "active"
                                                  /\ Owner \in holds[m]}

\* An organization that had somebody to administer it keeps somebody, whichever
\* demotions, suspensions, removals and departures overlap, unless an owner's
\* account is deleted in this step or was since the guard counted
\* (lockOrganization, ownerStateTx, RefuseLastOwnerLoss).
LastOwnerIsKept ==
    [][Administrators # {} /\ Administrators' = {}
          => retired' # retired \/ overtaken]_vars

\* Nobody loses a role to its deletion: what DeleteRole counted is still so when the
\* cascade runs, though accepting an invitation takes no lock of its own.
DeletedRoleIsUnheld ==
    [][\A q \in role \ role' : \A m \in Memberships : q \notin holds[m]]_vars

\* Whoever waits for the organization row gets an answer: no path through a
\* transaction keeps the lock.
LockIsPassedOn ==
    \A r \in Reqs : pc[r] = "lock" ~> pc[r] \in {"ok", "refused"}

\* internal/api/v1/roles.go:102: the complete set of permission keys the role should
\* grant; no role grants a mixture of what two requests asked for.
PermissionsAreReplaced ==
    [][\A r \in Reqs, q \in Roles :
          Succeeded(r) /\ op[r] = "setperms" /\ q \in wanted[r]
            => Grants(q)' = asked[r]]_vars

=============================================================================
