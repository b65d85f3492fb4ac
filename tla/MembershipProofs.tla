--------------------------- MODULE MembershipProofs ---------------------------
(***************************************************************************)
(* Proofs about Membership, for any number of accounts, memberships, roles *)
(* and requests.                                                           *)
(*                                                                         *)
(* The argument.  Whoever is between its guard and its write holds the     *)
(* organization's row.  Memberships and their roles change only in such a  *)
(* write, or by an insertion, which waits for the row.  So what the guard  *)
(* counted is still so when the write runs: nobody holds the role that is  *)
(* deleted, and there is another owner than the one who stops being one.   *)
(* Only the deletion of an account needs no lock, and is on record.        *)
(***************************************************************************)
EXTENDS Membership, FiniteSetTheorems, TLAPS

(***************************************************************************)
(* The inductive invariant                                                 *)
(***************************************************************************)

\* Who is between guard and write holds the row.
LockInv == \A r \in Reqs : pc[r] \in {"guard", "write"} => lock = r

\* What a request is about at some places.
PlaceInv ==
    \A r \in Reqs :
        /\ pc[r] \in {"idle", "authorized"} => wanted[r] = {}
        /\ pc[r] = "roles" => op[r] = "setroles"
        /\ pc[r] \in {"appoint", "insert"} => who[r] \in Users
        /\ pc[r] \in {"appoint", "lock", "guard", "write"} /\ op[r] = "appoint" =>
              Owner \in wanted[r]

\* A membership is somebody's.
RowInv == \A m \in Memberships : Exists(m) => member[m].user \in Users

\* The role to be deleted is none of the shipped ones, and past the guard nobody
\* holds it.
RoleInv ==
    \A r \in Reqs : op[r] = "deleterole" =>
        /\ Owner \notin wanted[r]
        /\ pc[r] = "write" => \A m \in Memberships : wanted[r] \cap holds[m] = {}

\* Past the guard, who stops being an owner leaves another one, unless an owner's
\* account went since.
OwnerInv ==
    \A r \in Reqs : pc[r] = "write" /\ Losing(r) /\ ~overtaken
        /\ target[r] \in Owners => \E m \in Owners : m # target[r]

IInv == TypeOK /\ LockInv /\ PlaceInv /\ RowInv /\ RoleInv /\ OwnerInv

\* The parts of TypeOK.
MemberShape ==
    /\ retired \subseteq Users
    /\ member \in [Memberships -> MemberRow]

OneRowEach ==
    /\ \A m, n \in Memberships :
          Exists(m) /\ Exists(n) /\ member[m].user = member[n].user => m = n

HoldShape ==
    /\ holds \in [Memberships -> SUBSET role]
    /\ \A m \in Memberships : ~Exists(m) => holds[m] = {}

RoleShape ==
    /\ role \in SUBSET Roles
    /\ grants \in [Roles -> SUBSET (Permissions \X (Reqs \cup {None}))]

LocalShape ==
    /\ lock \in Reqs \cup {None}
    /\ pc \in [Reqs -> Pcs]
    /\ op \in [Reqs -> Operations \cup {None}]
    /\ who \in [Reqs -> Users \cup {None}]
    /\ grant \in [Reqs -> SUBSET Permissions]
    /\ target \in [Reqs -> Memberships \cup {None}]
    /\ wanted \in [Reqs -> SUBSET Roles]
    /\ asked \in [Reqs -> SUBSET Permissions]
    /\ old \in [Reqs -> SUBSET (Permissions \X (Reqs \cup {None}))]

Flags == live \in BOOLEAN /\ overtaken \in BOOLEAN

(***************************************************************************)
(* Every step keeps the types                                              *)
(***************************************************************************)

\* A grant is made of permissions.
LEMMA ResolvedShape == ASSUME TypeOK, NEW u PROVE Resolved(u) \subseteq Permissions
  BY DEF TypeOK, Resolved, Power, Grants

\* An answered request is as before it came.
LEMMA AnswerShape ==
    ASSUME TypeOK, NEW r \in Reqs, NEW outcome \in {"ok", "refused"}, Answer(r, outcome)
    PROVE  LocalShape'
  BY DEF TypeOK, LocalShape, Answer, Goto, Pcs

\* Each step keeps the requests well-formed.
LEMMA LocalShapeStep == TypeOK /\ PlaceInv /\ Next => LocalShape'
<1> USE NoneAssumption, PermissionsAssumption, AnswerShape, ResolvedShape DEF TypeOK,
       LocalShape, Pcs, Operations, Roles
<1>0. SUFFICES ASSUME TypeOK /\ PlaceInv, Next PROVE LocalShape'
  OBVIOUS
<1>1. ASSUME NEW r \in Reqs, Lock(r) PROVE LocalShape'
  BY <1>0, <1>1 DEF Lock, Goto, Refuse, tables, locals
<1>2. ASSUME NEW r \in Reqs, Guard(r) PROVE LocalShape'
  BY <1>0, <1>2 DEF Guard, Goto, Refuse, tables, locals, Losing, Refused, Owners
<1>3. ASSUME NEW r \in Reqs, SetMemberStatus(r) PROVE LocalShape'
  BY <1>0, <1>3 DEF SetMemberStatus, Exists
<1>4. ASSUME NEW r \in Reqs, RemoveMember(r) PROVE LocalShape'
  BY <1>0, <1>4 DEF RemoveMember, Exists
<1>5. ASSUME NEW r \in Reqs, ReplaceMemberRoles(r) PROVE LocalShape'
  BY <1>0, <1>5 DEF ReplaceMemberRoles, Exists
<1>6. ASSUME NEW r \in Reqs, DeleteRole(r) PROVE LocalShape'
  BY <1>0, <1>6 DEF DeleteRole
<1>7. ASSUME NEW r \in Reqs, Rollback(r) PROVE LocalShape'
  BY <1>0, <1>7 DEF Rollback, Refuse, tables, locals, Exists
<1>8. ASSUME NEW r \in Reqs, \E u \in Users, o \in DOMAIN Required : Authorize(r, u, o)
      PROVE  LocalShape'
  BY <1>0, <1>8 DEF Authorize, Goto, Refuse, tables, locals
<1>9. ASSUME NEW r \in Reqs, \E m \in Memberships : CheckMember(r, m) PROVE LocalShape'
  BY <1>0, <1>9 DEF CheckMember, Goto, Refuse, tables, locals, Exists, Found
<1>10. ASSUME NEW r \in Reqs, \E named \in SUBSET Roles : CheckRoles(r, named)
      PROVE  LocalShape'
  BY <1>0, <1>10 DEF CheckRoles, Goto, Refuse, tables, locals
<1>11. ASSUME NEW r \in Reqs, \E u \in Users, m \in Memberships : Leave(r, u, m)
      PROVE  LocalShape'
  BY <1>0, <1>11 DEF Leave, Goto, Refuse, tables, locals, Exists
<1>12. ASSUME NEW r \in Reqs, \E u \in Users : AppointOwner(r, u) PROVE LocalShape'
  BY <1>0, <1>12 DEF AppointOwner, Goto, Refuse, tables, locals
<1>13. ASSUME NEW r \in Reqs, GrantOwnership(r) PROVE LocalShape'
  BY <1>0, <1>13 DEF GrantOwnership, Goto, tables, locals, Exists, Found
<1>14. ASSUME NEW r \in Reqs, AddMember(r) PROVE LocalShape'
  BY <1>0, <1>14 DEF AddMember, Refuse, tables, locals, Exists, Unused, Insert
<1>15. ASSUME NEW r \in Reqs, AuthorizePlatform(r) PROVE LocalShape'
  BY <1>0, <1>15 DEF AuthorizePlatform, Goto, tables, Required
<1>16. ASSUME NEW r \in Reqs, DeleteOrganization(r) PROVE LocalShape'
  BY <1>0, <1>16 DEF DeleteOrganization, Refuse, tables, locals
<1>17. ASSUME NEW r \in Reqs, \E q \in Roles : CheckDeletedRole(r, q) PROVE LocalShape'
  BY <1>0, <1>17 DEF CheckDeletedRole, Goto, Refuse, tables, locals
<1>18. ASSUME NEW r \in Reqs, \E q \in Roles, set \in PermissionSets : CheckPermissions(r, q, set)
      PROVE  LocalShape'
  BY <1>0, <1>18 DEF CheckPermissions, Goto, Refuse, tables, locals
<1>19. ASSUME NEW r \in Reqs, \E set \in PermissionSets : CheckCreateRole(r, set)
      PROVE  LocalShape'
  BY <1>0, <1>19 DEF CheckCreateRole, Goto, Refuse, tables, locals
<1>20. ASSUME NEW r \in Reqs, \E q \in CustomRoles : CreateRole(r, q) PROVE LocalShape'
  BY <1>0, <1>20 DEF CreateRole
<1>21. ASSUME NEW r \in Reqs, DeletePermissions(r) PROVE LocalShape'
  BY <1>0, <1>21 DEF DeletePermissions, Goto, Refuse, tables, locals
<1>22. ASSUME NEW r \in Reqs, ReplaceRolePermissions(r) PROVE LocalShape'
  BY <1>0, <1>22 DEF ReplaceRolePermissions, Refuse, tables, locals
<1>23. ASSUME NEW r \in Reqs, Abandon(r) PROVE LocalShape'
  BY <1>0, <1>23 DEF Abandon, Refuse, tables, locals
<1>24. ASSUME \E m \in Memberships, u \in Users, some \in SUBSET Roles : AcceptInvitation(m, u, some)
      PROVE  LocalShape'
  BY <1>0, <1>24 DEF AcceptInvitation, tables, locals, Exists, Unused, Insert
<1>25. ASSUME \E u \in Users : DeleteUser(u) PROVE LocalShape'
  BY <1>0, <1>25 DEF DeleteUser, tables, locals, Owners
<1>26. QED
  BY <1>0, <1>1, <1>2, <1>3, <1>4, <1>5, <1>6, <1>7, <1>8, <1>9, <1>10, <1>11, <1>12,
     <1>13, <1>14, <1>15, <1>16, <1>17, <1>18, <1>19, <1>20, <1>21, <1>22, <1>23, <1>24,
     <1>25
     DEF Next, TransactionStep, MemberStep, RoleStep, OthersStep

\* Each step keeps the memberships well-formed.
LEMMA MemberShapeStep == TypeOK /\ PlaceInv /\ Next => MemberShape'
<1> USE NoneAssumption DEF TypeOK, MemberShape, PlaceInv, Exists, MemberRow
<1>0. SUFFICES ASSUME TypeOK /\ PlaceInv, Next PROVE MemberShape'
  OBVIOUS
<1>1. ASSUME NEW r \in Reqs, Lock(r) PROVE MemberShape'
  BY <1>0, <1>1 DEF Lock, Answer, Goto, Refuse, tables, locals
<1>2. ASSUME NEW r \in Reqs, Guard(r) PROVE MemberShape'
  BY <1>0, <1>2 DEF Guard, Answer, Goto, Refuse, tables, locals, Losing, Refused, Owners
<1>3. ASSUME NEW r \in Reqs, SetMemberStatus(r) PROVE MemberShape'
  <2>1. CASE target[r] \in Memberships
    BY <1>0, <1>3, <2>1 DEF SetMemberStatus
  <2>2. CASE target[r] \notin Memberships
    BY <1>0, <1>3, <2>2 DEF SetMemberStatus
  <2>3. QED
    BY <2>1, <2>2
<1>4. ASSUME NEW r \in Reqs, RemoveMember(r) PROVE MemberShape'
  <2>1. CASE target[r] \in Memberships
    BY <1>0, <1>4, <2>1 DEF RemoveMember
  <2>2. CASE target[r] \notin Memberships
    BY <1>0, <1>4, <2>2 DEF RemoveMember
  <2>3. QED
    BY <2>1, <2>2
<1>5. ASSUME NEW r \in Reqs, ReplaceMemberRoles(r) PROVE MemberShape'
  BY <1>0, <1>5 DEF ReplaceMemberRoles, Answer, Goto
<1>6. ASSUME NEW r \in Reqs, DeleteRole(r) PROVE MemberShape'
  BY <1>0, <1>6 DEF DeleteRole, Answer, Goto
<1>7. ASSUME NEW r \in Reqs, Rollback(r) PROVE MemberShape'
  BY <1>0, <1>7 DEF Rollback, Answer, Goto, Refuse, tables, locals
<1>8. ASSUME NEW r \in Reqs, \E u \in Users, o \in DOMAIN Required : Authorize(r, u, o)
      PROVE  MemberShape'
  BY <1>0, <1>8 DEF Authorize, Answer, Goto, Refuse, tables, locals
<1>9. ASSUME NEW r \in Reqs, \E m \in Memberships : CheckMember(r, m)
      PROVE  MemberShape'
  BY <1>0, <1>9 DEF CheckMember, Answer, Goto, Refuse, tables, locals, Found
<1>10. ASSUME NEW r \in Reqs, \E named \in SUBSET Roles : CheckRoles(r, named)
      PROVE  MemberShape'
  BY <1>0, <1>10 DEF CheckRoles, Answer, Goto, Refuse, tables, locals
<1>11. ASSUME NEW r \in Reqs, \E u \in Users, m \in Memberships : Leave(r, u, m)
      PROVE  MemberShape'
  BY <1>0, <1>11 DEF Leave, Answer, Goto, Refuse, tables, locals
<1>12. ASSUME NEW r \in Reqs, \E u \in Users : AppointOwner(r, u) PROVE MemberShape'
  BY <1>0, <1>12 DEF AppointOwner, Answer, Goto, Refuse, tables, locals
<1>13. ASSUME NEW r \in Reqs, GrantOwnership(r) PROVE MemberShape'
  BY <1>0, <1>13 DEF GrantOwnership, Goto, tables, locals, Found
<1>14. ASSUME NEW r \in Reqs, AddMember(r) PROVE MemberShape'
  <2>1. CASE Refuse(r)
    BY <1>0, <2>1 DEF Refuse, tables
  <2>2. CASE \E m \in Memberships : Insert(m, who[r], wanted[r])
    BY <1>0, <1>14, <2>2 DEF AddMember, Insert, Unused
  <2>3. QED
    BY <1>14, <2>1, <2>2 DEF AddMember
<1>15. ASSUME NEW r \in Reqs, AuthorizePlatform(r) PROVE MemberShape'
  BY <1>0, <1>15 DEF AuthorizePlatform, Goto, tables, locals
<1>16. ASSUME NEW r \in Reqs, DeleteOrganization(r) PROVE MemberShape'
  BY <1>0, <1>16 DEF DeleteOrganization, Answer, Goto, Refuse, tables, locals
<1>17. ASSUME NEW r \in Reqs, \E q \in Roles : CheckDeletedRole(r, q)
      PROVE  MemberShape'
  BY <1>0, <1>17 DEF CheckDeletedRole, Answer, Goto, Refuse, tables, locals
<1>18. ASSUME NEW r \in Reqs, \E q \in Roles, set \in PermissionSets : CheckPermissions(r, q, set)
      PROVE  MemberShape'
  BY <1>0, <1>18 DEF CheckPermissions, Answer, Goto, Refuse, tables, locals
<1>19. ASSUME NEW r \in Reqs, \E set \in PermissionSets : CheckCreateRole(r, set)
      PROVE  MemberShape'
  BY <1>0, <1>19 DEF CheckCreateRole, Answer, Goto, Refuse, tables, locals
<1>20. ASSUME NEW r \in Reqs, \E q \in CustomRoles : CreateRole(r, q)
      PROVE  MemberShape'
  BY <1>0, <1>20 DEF CreateRole, Answer, Goto
<1>21. ASSUME NEW r \in Reqs, DeletePermissions(r) PROVE MemberShape'
  BY <1>0, <1>21 DEF DeletePermissions, Answer, Goto, Refuse, tables, locals
<1>22. ASSUME NEW r \in Reqs, ReplaceRolePermissions(r) PROVE MemberShape'
  BY <1>0, <1>22 DEF ReplaceRolePermissions, Answer, Goto, Refuse, tables, locals
<1>23. ASSUME NEW r \in Reqs, Abandon(r) PROVE MemberShape'
  BY <1>0, <1>23 DEF Abandon, Answer, Goto, Refuse, tables, locals
<1>24. ASSUME \E m \in Memberships, u \in Users, some \in SUBSET Roles : AcceptInvitation(m, u, some)
      PROVE  MemberShape'
  BY <1>0, <1>24 DEF AcceptInvitation, tables, locals, Unused, Insert
<1>25. ASSUME \E u \in Users : DeleteUser(u) PROVE MemberShape'
  BY <1>0, <1>25 DEF DeleteUser, tables, locals, Owners
<1>26. QED
  BY <1>0, <1>1, <1>2, <1>3, <1>4, <1>5, <1>6, <1>7, <1>8, <1>9, <1>10, <1>11, <1>12,
     <1>13, <1>14, <1>15, <1>16, <1>17, <1>18, <1>19, <1>20, <1>21, <1>22, <1>23, <1>24,
     <1>25
     DEF Next, TransactionStep, MemberStep, RoleStep, OthersStep

\* Each step leaves an account at most one membership.
LEMMA OneRowEachStep == TypeOK /\ PlaceInv /\ Next => OneRowEach'
<1> USE NoneAssumption DEF TypeOK, OneRowEach, PlaceInv, Exists
<1>0. SUFFICES ASSUME TypeOK /\ PlaceInv, Next PROVE OneRowEach'
  OBVIOUS
<1>1. ASSUME NEW r \in Reqs, Lock(r) PROVE OneRowEach'
  BY <1>0, <1>1 DEF Lock, Answer, Goto, Refuse, tables, locals
<1>2. ASSUME NEW r \in Reqs, Guard(r) PROVE OneRowEach'
  BY <1>0, <1>2 DEF Guard, Answer, Goto, Refuse, tables, locals, Losing, Refused, Owners
<1>3. ASSUME NEW r \in Reqs, SetMemberStatus(r) PROVE OneRowEach'
  BY <1>0, <1>3 DEF SetMemberStatus, Answer, Goto
<1>4. ASSUME NEW r \in Reqs, RemoveMember(r) PROVE OneRowEach'
  BY <1>0, <1>4 DEF RemoveMember, Answer, Goto
<1>5. ASSUME NEW r \in Reqs, ReplaceMemberRoles(r) PROVE OneRowEach'
  BY <1>0, <1>5 DEF ReplaceMemberRoles, Answer, Goto
<1>6. ASSUME NEW r \in Reqs, DeleteRole(r) PROVE OneRowEach'
  BY <1>0, <1>6 DEF DeleteRole, Answer, Goto
<1>7. ASSUME NEW r \in Reqs, Rollback(r) PROVE OneRowEach'
  BY <1>0, <1>7 DEF Rollback, Answer, Goto, Refuse, tables, locals
<1>8. ASSUME NEW r \in Reqs, \E u \in Users, o \in DOMAIN Required : Authorize(r, u, o)
      PROVE  OneRowEach'
  BY <1>0, <1>8 DEF Authorize, Answer, Goto, Refuse, tables, locals
<1>9. ASSUME NEW r \in Reqs, \E m \in Memberships : CheckMember(r, m) PROVE OneRowEach'
  BY <1>0, <1>9 DEF CheckMember, Answer, Goto, Refuse, tables, locals, Found
<1>10. ASSUME NEW r \in Reqs, \E named \in SUBSET Roles : CheckRoles(r, named)
      PROVE  OneRowEach'
  BY <1>0, <1>10 DEF CheckRoles, Answer, Goto, Refuse, tables, locals
<1>11. ASSUME NEW r \in Reqs, \E u \in Users, m \in Memberships : Leave(r, u, m)
      PROVE  OneRowEach'
  BY <1>0, <1>11 DEF Leave, Answer, Goto, Refuse, tables, locals
<1>12. ASSUME NEW r \in Reqs, \E u \in Users : AppointOwner(r, u) PROVE OneRowEach'
  BY <1>0, <1>12 DEF AppointOwner, Answer, Goto, Refuse, tables, locals
<1>13. ASSUME NEW r \in Reqs, GrantOwnership(r) PROVE OneRowEach'
  BY <1>0, <1>13 DEF GrantOwnership, Goto, tables, locals, Found
<1>14. ASSUME NEW r \in Reqs, AddMember(r) PROVE OneRowEach'
  <2>1. CASE Refuse(r)
    BY <1>0, <2>1 DEF Refuse, tables
  <2>2. CASE \E m \in Memberships : Insert(m, who[r], wanted[r])
    BY <1>0, <1>14, <2>2 DEF AddMember, Insert, Unused
  <2>3. QED
    BY <1>14, <2>1, <2>2 DEF AddMember
<1>15. ASSUME NEW r \in Reqs, AuthorizePlatform(r) PROVE OneRowEach'
  BY <1>0, <1>15 DEF AuthorizePlatform, Goto, tables, locals
<1>16. ASSUME NEW r \in Reqs, DeleteOrganization(r) PROVE OneRowEach'
  BY <1>0, <1>16 DEF DeleteOrganization, Answer, Goto, Refuse, tables, locals
<1>17. ASSUME NEW r \in Reqs, \E q \in Roles : CheckDeletedRole(r, q) PROVE OneRowEach'
  BY <1>0, <1>17 DEF CheckDeletedRole, Answer, Goto, Refuse, tables, locals
<1>18. ASSUME NEW r \in Reqs, \E q \in Roles, set \in PermissionSets : CheckPermissions(r, q, set)
      PROVE  OneRowEach'
  BY <1>0, <1>18 DEF CheckPermissions, Answer, Goto, Refuse, tables, locals
<1>19. ASSUME NEW r \in Reqs, \E set \in PermissionSets : CheckCreateRole(r, set)
      PROVE  OneRowEach'
  BY <1>0, <1>19 DEF CheckCreateRole, Answer, Goto, Refuse, tables, locals
<1>20. ASSUME NEW r \in Reqs, \E q \in CustomRoles : CreateRole(r, q) PROVE OneRowEach'
  BY <1>0, <1>20 DEF CreateRole, Answer, Goto
<1>21. ASSUME NEW r \in Reqs, DeletePermissions(r) PROVE OneRowEach'
  BY <1>0, <1>21 DEF DeletePermissions, Answer, Goto, Refuse, tables, locals
<1>22. ASSUME NEW r \in Reqs, ReplaceRolePermissions(r) PROVE OneRowEach'
  BY <1>0, <1>22 DEF ReplaceRolePermissions, Answer, Goto, Refuse, tables, locals
<1>23. ASSUME NEW r \in Reqs, Abandon(r) PROVE OneRowEach'
  BY <1>0, <1>23 DEF Abandon, Answer, Goto, Refuse, tables, locals
<1>24. ASSUME \E m \in Memberships, u \in Users, some \in SUBSET Roles : AcceptInvitation(m, u, some)
      PROVE  OneRowEach'
  BY <1>0, <1>24 DEF AcceptInvitation, tables, locals, Unused, Insert
<1>25. ASSUME \E u \in Users : DeleteUser(u) PROVE OneRowEach'
  BY <1>0, <1>25 DEF DeleteUser, tables, locals, Owners
<1>26. QED
  BY <1>0, <1>1, <1>2, <1>3, <1>4, <1>5, <1>6, <1>7, <1>8, <1>9, <1>10, <1>11, <1>12,
     <1>13, <1>14, <1>15, <1>16, <1>17, <1>18, <1>19, <1>20, <1>21, <1>22, <1>23, <1>24,
     <1>25
     DEF Next, TransactionStep, MemberStep, RoleStep, OthersStep

\* Each step leaves memberships with roles that exist.
LEMMA HoldShapeStep == TypeOK /\ PlaceInv /\ Next => HoldShape'
<1> USE NoneAssumption DEF TypeOK, HoldShape, PlaceInv, Exists
<1>0. SUFFICES ASSUME TypeOK /\ PlaceInv, Next PROVE HoldShape'
  OBVIOUS
<1>1. ASSUME NEW r \in Reqs, Lock(r) PROVE HoldShape'
  BY <1>0, <1>1 DEF Lock, Answer, Goto, Refuse, tables, locals
<1>2. ASSUME NEW r \in Reqs, Guard(r) PROVE HoldShape'
  BY <1>0, <1>2 DEF Guard, Answer, Goto, Refuse, tables, locals, Losing, Refused, Owners
<1>3. ASSUME NEW r \in Reqs, SetMemberStatus(r) PROVE HoldShape'
  BY <1>0, <1>3 DEF SetMemberStatus, Answer, Goto
<1>4. ASSUME NEW r \in Reqs, RemoveMember(r) PROVE HoldShape'
  BY <1>0, <1>4 DEF RemoveMember, Answer, Goto
<1>5. ASSUME NEW r \in Reqs, ReplaceMemberRoles(r) PROVE HoldShape'
  BY <1>0, <1>5 DEF ReplaceMemberRoles, Answer, Goto
<1>6. ASSUME NEW r \in Reqs, DeleteRole(r) PROVE HoldShape'
  BY <1>0, <1>6 DEF DeleteRole, Answer, Goto
<1>7. ASSUME NEW r \in Reqs, Rollback(r) PROVE HoldShape'
  BY <1>0, <1>7 DEF Rollback, Answer, Goto, Refuse, tables, locals
<1>8. ASSUME NEW r \in Reqs, \E u \in Users, o \in DOMAIN Required : Authorize(r, u, o)
      PROVE  HoldShape'
  BY <1>0, <1>8 DEF Authorize, Answer, Goto, Refuse, tables, locals
<1>9. ASSUME NEW r \in Reqs, \E m \in Memberships : CheckMember(r, m) PROVE HoldShape'
  BY <1>0, <1>9 DEF CheckMember, Answer, Goto, Refuse, tables, locals, Found
<1>10. ASSUME NEW r \in Reqs, \E named \in SUBSET Roles : CheckRoles(r, named)
      PROVE  HoldShape'
  BY <1>0, <1>10 DEF CheckRoles, Answer, Goto, Refuse, tables, locals
<1>11. ASSUME NEW r \in Reqs, \E u \in Users, m \in Memberships : Leave(r, u, m)
      PROVE  HoldShape'
  BY <1>0, <1>11 DEF Leave, Answer, Goto, Refuse, tables, locals
<1>12. ASSUME NEW r \in Reqs, \E u \in Users : AppointOwner(r, u) PROVE HoldShape'
  BY <1>0, <1>12 DEF AppointOwner, Answer, Goto, Refuse, tables, locals
<1>13. ASSUME NEW r \in Reqs, GrantOwnership(r) PROVE HoldShape'
  BY <1>0, <1>13 DEF GrantOwnership, Goto, tables, locals, Found
<1>14. ASSUME NEW r \in Reqs, AddMember(r) PROVE HoldShape'
  <2>1. CASE Refuse(r)
    BY <1>0, <2>1 DEF Refuse, tables
  <2>2. CASE \E m \in Memberships : Insert(m, who[r], wanted[r])
    BY <1>0, <1>14, <2>2 DEF AddMember, Insert, Unused
  <2>3. QED
    BY <1>14, <2>1, <2>2 DEF AddMember
<1>15. ASSUME NEW r \in Reqs, AuthorizePlatform(r) PROVE HoldShape'
  BY <1>0, <1>15 DEF AuthorizePlatform, Goto, tables, locals
<1>16. ASSUME NEW r \in Reqs, DeleteOrganization(r) PROVE HoldShape'
  BY <1>0, <1>16 DEF DeleteOrganization, Answer, Goto, Refuse, tables, locals
<1>17. ASSUME NEW r \in Reqs, \E q \in Roles : CheckDeletedRole(r, q) PROVE HoldShape'
  BY <1>0, <1>17 DEF CheckDeletedRole, Answer, Goto, Refuse, tables, locals
<1>18. ASSUME NEW r \in Reqs, \E q \in Roles, set \in PermissionSets : CheckPermissions(r, q, set)
      PROVE  HoldShape'
  BY <1>0, <1>18 DEF CheckPermissions, Answer, Goto, Refuse, tables, locals
<1>19. ASSUME NEW r \in Reqs, \E set \in PermissionSets : CheckCreateRole(r, set)
      PROVE  HoldShape'
  BY <1>0, <1>19 DEF CheckCreateRole, Answer, Goto, Refuse, tables, locals
<1>20. ASSUME NEW r \in Reqs, \E q \in CustomRoles : CreateRole(r, q) PROVE HoldShape'
  BY <1>0, <1>20 DEF CreateRole, Answer, Goto
<1>21. ASSUME NEW r \in Reqs, DeletePermissions(r) PROVE HoldShape'
  BY <1>0, <1>21 DEF DeletePermissions, Answer, Goto, Refuse, tables, locals
<1>22. ASSUME NEW r \in Reqs, ReplaceRolePermissions(r) PROVE HoldShape'
  BY <1>0, <1>22 DEF ReplaceRolePermissions, Answer, Goto, Refuse, tables, locals
<1>23. ASSUME NEW r \in Reqs, Abandon(r) PROVE HoldShape'
  BY <1>0, <1>23 DEF Abandon, Answer, Goto, Refuse, tables, locals
<1>24. ASSUME \E m \in Memberships, u \in Users, some \in SUBSET Roles : AcceptInvitation(m, u, some)
      PROVE  HoldShape'
  BY <1>0, <1>24 DEF AcceptInvitation, tables, locals, Unused, Insert
<1>25. ASSUME \E u \in Users : DeleteUser(u) PROVE HoldShape'
  BY <1>0, <1>25 DEF DeleteUser, tables, locals, Owners
<1>26. QED
  BY <1>0, <1>1, <1>2, <1>3, <1>4, <1>5, <1>6, <1>7, <1>8, <1>9, <1>10, <1>11, <1>12,
     <1>13, <1>14, <1>15, <1>16, <1>17, <1>18, <1>19, <1>20, <1>21, <1>22, <1>23, <1>24,
     <1>25
     DEF Next, TransactionStep, MemberStep, RoleStep, OthersStep

\* Each step keeps the roles well-formed.
LEMMA RoleShapeStep == TypeOK /\ PlaceInv /\ Next => RoleShape'
<1> USE NoneAssumption DEF TypeOK, RoleShape, PlaceInv, Exists, Roles
<1>0. SUFFICES ASSUME TypeOK /\ PlaceInv, Next PROVE RoleShape'
  OBVIOUS
<1>1. ASSUME NEW r \in Reqs, Lock(r) PROVE RoleShape'
  BY <1>0, <1>1 DEF Lock, Answer, Goto, Refuse, tables, locals
<1>2. ASSUME NEW r \in Reqs, Guard(r) PROVE RoleShape'
  BY <1>0, <1>2 DEF Guard, Answer, Goto, Refuse, tables, locals, Losing, Refused, Owners
<1>3. ASSUME NEW r \in Reqs, SetMemberStatus(r) PROVE RoleShape'
  BY <1>0, <1>3 DEF SetMemberStatus, Answer, Goto
<1>4. ASSUME NEW r \in Reqs, RemoveMember(r) PROVE RoleShape'
  BY <1>0, <1>4 DEF RemoveMember, Answer, Goto
<1>5. ASSUME NEW r \in Reqs, ReplaceMemberRoles(r) PROVE RoleShape'
  BY <1>0, <1>5 DEF ReplaceMemberRoles, Answer, Goto
<1>6. ASSUME NEW r \in Reqs, DeleteRole(r) PROVE RoleShape'
  BY <1>0, <1>6 DEF DeleteRole, Answer, Goto
<1>7. ASSUME NEW r \in Reqs, Rollback(r) PROVE RoleShape'
  BY <1>0, <1>7 DEF Rollback, Answer, Goto, Refuse, tables, locals
<1>8. ASSUME NEW r \in Reqs, \E u \in Users, o \in DOMAIN Required : Authorize(r, u, o)
      PROVE  RoleShape'
  BY <1>0, <1>8 DEF Authorize, Answer, Goto, Refuse, tables, locals
<1>9. ASSUME NEW r \in Reqs, \E m \in Memberships : CheckMember(r, m) PROVE RoleShape'
  BY <1>0, <1>9 DEF CheckMember, Answer, Goto, Refuse, tables, locals, Found
<1>10. ASSUME NEW r \in Reqs, \E named \in SUBSET Roles : CheckRoles(r, named)
      PROVE  RoleShape'
  BY <1>0, <1>10 DEF CheckRoles, Answer, Goto, Refuse, tables, locals
<1>11. ASSUME NEW r \in Reqs, \E u \in Users, m \in Memberships : Leave(r, u, m)
      PROVE  RoleShape'
  BY <1>0, <1>11 DEF Leave, Answer, Goto, Refuse, tables, locals
<1>12. ASSUME NEW r \in Reqs, \E u \in Users : AppointOwner(r, u) PROVE RoleShape'
  BY <1>0, <1>12 DEF AppointOwner, Answer, Goto, Refuse, tables, locals
<1>13. ASSUME NEW r \in Reqs, GrantOwnership(r) PROVE RoleShape'
  BY <1>0, <1>13 DEF GrantOwnership, Goto, tables, locals, Found
<1>14. ASSUME NEW r \in Reqs, AddMember(r) PROVE RoleShape'
  BY <1>0, <1>14 DEF AddMember, Answer, Goto, Refuse, tables, locals, Unused, Insert
<1>15. ASSUME NEW r \in Reqs, AuthorizePlatform(r) PROVE RoleShape'
  BY <1>0, <1>15 DEF AuthorizePlatform, Goto, tables, locals
<1>16. ASSUME NEW r \in Reqs, DeleteOrganization(r) PROVE RoleShape'
  BY <1>0, <1>16 DEF DeleteOrganization, Answer, Goto, Refuse, tables, locals
<1>17. ASSUME NEW r \in Reqs, \E q \in Roles : CheckDeletedRole(r, q) PROVE RoleShape'
  BY <1>0, <1>17 DEF CheckDeletedRole, Answer, Goto, Refuse, tables, locals
<1>18. ASSUME NEW r \in Reqs, \E q \in Roles, set \in PermissionSets : CheckPermissions(r, q, set)
      PROVE  RoleShape'
  BY <1>0, <1>18 DEF CheckPermissions, Answer, Goto, Refuse, tables, locals
<1>19. ASSUME NEW r \in Reqs, \E set \in PermissionSets : CheckCreateRole(r, set)
      PROVE  RoleShape'
  BY <1>0, <1>19 DEF CheckCreateRole, Answer, Goto, Refuse, tables, locals
<1>20. ASSUME NEW r \in Reqs, \E q \in CustomRoles : CreateRole(r, q) PROVE RoleShape'
  BY <1>0, <1>20 DEF CreateRole, Answer, Goto
<1>21. ASSUME NEW r \in Reqs, DeletePermissions(r) PROVE RoleShape'
  BY <1>0, <1>21 DEF DeletePermissions, Answer, Goto, Refuse, tables, locals
<1>22. ASSUME NEW r \in Reqs, ReplaceRolePermissions(r) PROVE RoleShape'
  BY <1>0, <1>22 DEF ReplaceRolePermissions, Answer, Goto, Refuse, tables, locals
<1>23. ASSUME NEW r \in Reqs, Abandon(r) PROVE RoleShape'
  BY <1>0, <1>23 DEF Abandon, Answer, Goto, Refuse, tables, locals
<1>24. ASSUME \E m \in Memberships, u \in Users, some \in SUBSET Roles : AcceptInvitation(m, u, some)
      PROVE  RoleShape'
  BY <1>0, <1>24 DEF AcceptInvitation, tables, locals, Unused, Insert
<1>25. ASSUME \E u \in Users : DeleteUser(u) PROVE RoleShape'
  BY <1>0, <1>25 DEF DeleteUser, tables, locals, Owners
<1>26. QED
  BY <1>0, <1>1, <1>2, <1>3, <1>4, <1>5, <1>6, <1>7, <1>8, <1>9, <1>10, <1>11, <1>12,
     <1>13, <1>14, <1>15, <1>16, <1>17, <1>18, <1>19, <1>20, <1>21, <1>22, <1>23, <1>24,
     <1>25
     DEF Next, TransactionStep, MemberStep, RoleStep, OthersStep

\* Each step leaves both flags Booleans.
LEMMA FlagStep == TypeOK /\ Next => Flags'
<1> USE DEF TypeOK, Flags
<1>0. SUFFICES ASSUME TypeOK, Next PROVE Flags'
  OBVIOUS
<1>1. ASSUME NEW r \in Reqs, Lock(r) PROVE Flags'
  BY <1>0, <1>1 DEF Lock, Answer, Goto, Refuse, tables, locals
<1>2. ASSUME NEW r \in Reqs, Guard(r) PROVE Flags'
  BY <1>0, <1>2 DEF Guard, Answer, Goto, Refuse, tables, locals, Losing, Refused, Owners
<1>3. ASSUME NEW r \in Reqs, SetMemberStatus(r) PROVE Flags'
  BY <1>0, <1>3 DEF SetMemberStatus, Answer, Goto, Exists
<1>4. ASSUME NEW r \in Reqs, RemoveMember(r) PROVE Flags'
  BY <1>0, <1>4 DEF RemoveMember, Answer, Goto, Exists
<1>5. ASSUME NEW r \in Reqs, ReplaceMemberRoles(r) PROVE Flags'
  BY <1>0, <1>5 DEF ReplaceMemberRoles, Answer, Goto, Exists
<1>6. ASSUME NEW r \in Reqs, DeleteRole(r) PROVE Flags'
  BY <1>0, <1>6 DEF DeleteRole, Answer, Goto
<1>7. ASSUME NEW r \in Reqs, Rollback(r) PROVE Flags'
  BY <1>0, <1>7 DEF Rollback, Answer, Goto, Refuse, tables, locals, Exists
<1>8. ASSUME NEW r \in Reqs, \E u \in Users, o \in DOMAIN Required : Authorize(r, u, o)
      PROVE  Flags'
  BY <1>0, <1>8 DEF Authorize, Answer, Goto, Refuse, tables, locals
<1>9. ASSUME NEW r \in Reqs, \E m \in Memberships : CheckMember(r, m) PROVE Flags'
  BY <1>0, <1>9 DEF CheckMember, Answer, Goto, Refuse, tables, locals, Exists, Found
<1>10. ASSUME NEW r \in Reqs, \E named \in SUBSET Roles : CheckRoles(r, named)
      PROVE  Flags'
  BY <1>0, <1>10 DEF CheckRoles, Answer, Goto, Refuse, tables, locals
<1>11. ASSUME NEW r \in Reqs, \E u \in Users, m \in Memberships : Leave(r, u, m)
      PROVE  Flags'
  BY <1>0, <1>11 DEF Leave, Answer, Goto, Refuse, tables, locals, Exists
<1>12. ASSUME NEW r \in Reqs, \E u \in Users : AppointOwner(r, u) PROVE Flags'
  BY <1>0, <1>12 DEF AppointOwner, Answer, Goto, Refuse, tables, locals
<1>13. ASSUME NEW r \in Reqs, GrantOwnership(r) PROVE Flags'
  BY <1>0, <1>13 DEF GrantOwnership, Goto, tables, locals, Exists, Found
<1>14. ASSUME NEW r \in Reqs, AddMember(r) PROVE Flags'
  BY <1>0, <1>14 DEF AddMember, Answer, Goto, Refuse, tables, locals, Exists, Unused,
     Insert
<1>15. ASSUME NEW r \in Reqs, AuthorizePlatform(r) PROVE Flags'
  BY <1>0, <1>15 DEF AuthorizePlatform, Goto, tables, locals
<1>16. ASSUME NEW r \in Reqs, DeleteOrganization(r) PROVE Flags'
  BY <1>0, <1>16 DEF DeleteOrganization, Answer, Goto, Refuse, tables, locals
<1>17. ASSUME NEW r \in Reqs, \E q \in Roles : CheckDeletedRole(r, q) PROVE Flags'
  BY <1>0, <1>17 DEF CheckDeletedRole, Answer, Goto, Refuse, tables, locals
<1>18. ASSUME NEW r \in Reqs, \E q \in Roles, set \in PermissionSets : CheckPermissions(r, q, set)
      PROVE  Flags'
  BY <1>0, <1>18 DEF CheckPermissions, Answer, Goto, Refuse, tables, locals
<1>19. ASSUME NEW r \in Reqs, \E set \in PermissionSets : CheckCreateRole(r, set)
      PROVE  Flags'
  BY <1>0, <1>19 DEF CheckCreateRole, Answer, Goto, Refuse, tables, locals
<1>20. ASSUME NEW r \in Reqs, \E q \in CustomRoles : CreateRole(r, q) PROVE Flags'
  BY <1>0, <1>20 DEF CreateRole, Answer, Goto
<1>21. ASSUME NEW r \in Reqs, DeletePermissions(r) PROVE Flags'
  BY <1>0, <1>21 DEF DeletePermissions, Answer, Goto, Refuse, tables, locals
<1>22. ASSUME NEW r \in Reqs, ReplaceRolePermissions(r) PROVE Flags'
  BY <1>0, <1>22 DEF ReplaceRolePermissions, Answer, Goto, Refuse, tables, locals
<1>23. ASSUME NEW r \in Reqs, Abandon(r) PROVE Flags'
  BY <1>0, <1>23 DEF Abandon, Answer, Goto, Refuse, tables, locals
<1>24. ASSUME \E m \in Memberships, u \in Users, some \in SUBSET Roles : AcceptInvitation(m, u, some)
      PROVE  Flags'
  BY <1>0, <1>24 DEF AcceptInvitation, tables, locals, Exists, Unused, Insert
<1>25. ASSUME \E u \in Users : DeleteUser(u) PROVE Flags'
  BY <1>0, <1>25 DEF DeleteUser, tables, locals, Owners
<1>26. QED
  BY <1>0, <1>1, <1>2, <1>3, <1>4, <1>5, <1>6, <1>7, <1>8, <1>9, <1>10, <1>11, <1>12,
     <1>13, <1>14, <1>15, <1>16, <1>17, <1>18, <1>19, <1>20, <1>21, <1>22, <1>23, <1>24,
     <1>25
     DEF Next, TransactionStep, MemberStep, RoleStep, OthersStep

\* Each step leaves a request with what its place needs.
LEMMA PlaceStep == TypeOK /\ PlaceInv /\ Next => PlaceInv'
<1> USE NoneAssumption DEF TypeOK, PlaceInv
<1>0. SUFFICES ASSUME TypeOK /\ PlaceInv, Next PROVE PlaceInv'
  OBVIOUS
<1>1. ASSUME NEW r \in Reqs, Lock(r) PROVE PlaceInv'
  BY <1>0, <1>1 DEF Lock, Answer, Goto, Refuse, tables, locals
<1>2. ASSUME NEW r \in Reqs, Guard(r) PROVE PlaceInv'
  BY <1>0, <1>2 DEF Guard, Answer, Goto, Refuse, tables, locals, Losing, Refused, Owners
<1>3. ASSUME NEW r \in Reqs, SetMemberStatus(r) PROVE PlaceInv'
  BY <1>0, <1>3 DEF SetMemberStatus, Answer, Goto, Exists
<1>4. ASSUME NEW r \in Reqs, RemoveMember(r) PROVE PlaceInv'
  BY <1>0, <1>4 DEF RemoveMember, Answer, Goto, Exists
<1>5. ASSUME NEW r \in Reqs, ReplaceMemberRoles(r) PROVE PlaceInv'
  BY <1>0, <1>5 DEF ReplaceMemberRoles, Answer, Goto, Exists
<1>6. ASSUME NEW r \in Reqs, DeleteRole(r) PROVE PlaceInv'
  BY <1>0, <1>6 DEF DeleteRole, Answer, Goto
<1>7. ASSUME NEW r \in Reqs, Rollback(r) PROVE PlaceInv'
  BY <1>0, <1>7 DEF Rollback, Answer, Goto, Refuse, tables, locals, Exists
<1>8. ASSUME NEW r \in Reqs, \E u \in Users, o \in DOMAIN Required : Authorize(r, u, o)
      PROVE  PlaceInv'
  BY <1>0, <1>8 DEF Authorize, Answer, Goto, Refuse, tables, locals
<1>9. ASSUME NEW r \in Reqs, \E m \in Memberships : CheckMember(r, m) PROVE PlaceInv'
  BY <1>0, <1>9 DEF CheckMember, Answer, Goto, Refuse, tables, locals, Exists, Found
<1>10. ASSUME NEW r \in Reqs, \E named \in SUBSET Roles : CheckRoles(r, named)
      PROVE  PlaceInv'
  BY <1>0, <1>10 DEF CheckRoles, Answer, Goto, Refuse, tables, locals
<1>11. ASSUME NEW r \in Reqs, \E u \in Users, m \in Memberships : Leave(r, u, m)
      PROVE  PlaceInv'
  BY <1>0, <1>11 DEF Leave, Answer, Goto, Refuse, tables, locals, Exists
<1>12. ASSUME NEW r \in Reqs, \E u \in Users : AppointOwner(r, u) PROVE PlaceInv'
  BY <1>0, <1>12 DEF AppointOwner, Answer, Goto, Refuse, tables, locals
<1>13. ASSUME NEW r \in Reqs, GrantOwnership(r) PROVE PlaceInv'
  BY <1>0, <1>13 DEF GrantOwnership, Goto, tables, locals, Exists, Found
<1>14. ASSUME NEW r \in Reqs, AddMember(r) PROVE PlaceInv'
  BY <1>0, <1>14 DEF AddMember, Answer, Goto, Refuse, tables, locals, Exists, Unused,
     Insert
<1>15. ASSUME NEW r \in Reqs, AuthorizePlatform(r) PROVE PlaceInv'
  BY <1>0, <1>15 DEF AuthorizePlatform, Goto, tables, locals
<1>16. ASSUME NEW r \in Reqs, DeleteOrganization(r) PROVE PlaceInv'
  BY <1>0, <1>16 DEF DeleteOrganization, Answer, Goto, Refuse, tables, locals
<1>17. ASSUME NEW r \in Reqs, \E q \in Roles : CheckDeletedRole(r, q) PROVE PlaceInv'
  BY <1>0, <1>17 DEF CheckDeletedRole, Answer, Goto, Refuse, tables, locals
<1>18. ASSUME NEW r \in Reqs, \E q \in Roles, set \in PermissionSets : CheckPermissions(r, q, set)
      PROVE  PlaceInv'
  BY <1>0, <1>18 DEF CheckPermissions, Answer, Goto, Refuse, tables, locals
<1>19. ASSUME NEW r \in Reqs, \E set \in PermissionSets : CheckCreateRole(r, set)
      PROVE  PlaceInv'
  BY <1>0, <1>19 DEF CheckCreateRole, Answer, Goto, Refuse, tables, locals
<1>20. ASSUME NEW r \in Reqs, \E q \in CustomRoles : CreateRole(r, q) PROVE PlaceInv'
  BY <1>0, <1>20 DEF CreateRole, Answer, Goto
<1>21. ASSUME NEW r \in Reqs, DeletePermissions(r) PROVE PlaceInv'
  BY <1>0, <1>21 DEF DeletePermissions, Answer, Goto, Refuse, tables, locals
<1>22. ASSUME NEW r \in Reqs, ReplaceRolePermissions(r) PROVE PlaceInv'
  BY <1>0, <1>22 DEF ReplaceRolePermissions, Answer, Goto, Refuse, tables, locals
<1>23. ASSUME NEW r \in Reqs, Abandon(r) PROVE PlaceInv'
  BY <1>0, <1>23 DEF Abandon, Answer, Goto, Refuse, tables, locals
<1>24. ASSUME \E m \in Memberships, u \in Users, some \in SUBSET Roles : AcceptInvitation(m, u, some)
      PROVE  PlaceInv'
  BY <1>0, <1>24 DEF AcceptInvitation, tables, locals, Exists, Unused, Insert
<1>25. ASSUME \E u \in Users : DeleteUser(u) PROVE PlaceInv'
  BY <1>0, <1>25 DEF DeleteUser, tables, locals, Owners
<1>26. QED
  BY <1>0, <1>1, <1>2, <1>3, <1>4, <1>5, <1>6, <1>7, <1>8, <1>9, <1>10, <1>11, <1>12,
     <1>13, <1>14, <1>15, <1>16, <1>17, <1>18, <1>19, <1>20, <1>21, <1>22, <1>23, <1>24,
     <1>25
     DEF Next, TransactionStep, MemberStep, RoleStep, OthersStep

(***************************************************************************)
(* What was counted under the lock is still so                             *)
(***************************************************************************)

\* Each step leaves who is past its guard with the row.
LEMMA LockStep == TypeOK /\ LockInv /\ Next => LockInv'
<1> USE NoneAssumption DEF TypeOK, LockInv
<1>0. SUFFICES ASSUME TypeOK /\ LockInv, Next PROVE LockInv'
  OBVIOUS
<1>1. ASSUME NEW r \in Reqs, Lock(r) PROVE LockInv'
  BY <1>0, <1>1 DEF Lock, Answer, Goto, Refuse, tables, locals
<1>2. ASSUME NEW r \in Reqs, Guard(r) PROVE LockInv'
  BY <1>0, <1>2 DEF Guard, Answer, Goto, Refuse, tables, locals, Losing, Refused, Owners
<1>3. ASSUME NEW r \in Reqs, SetMemberStatus(r) PROVE LockInv'
  BY <1>0, <1>3 DEF SetMemberStatus, Answer, Goto, Exists
<1>4. ASSUME NEW r \in Reqs, RemoveMember(r) PROVE LockInv'
  BY <1>0, <1>4 DEF RemoveMember, Answer, Goto, Exists
<1>5. ASSUME NEW r \in Reqs, ReplaceMemberRoles(r) PROVE LockInv'
  BY <1>0, <1>5 DEF ReplaceMemberRoles, Answer, Goto, Exists
<1>6. ASSUME NEW r \in Reqs, DeleteRole(r) PROVE LockInv'
  BY <1>0, <1>6 DEF DeleteRole, Answer, Goto
<1>7. ASSUME NEW r \in Reqs, Rollback(r) PROVE LockInv'
  BY <1>0, <1>7 DEF Rollback, Answer, Goto, Refuse, tables, locals, Exists
<1>8. ASSUME NEW r \in Reqs, \E u \in Users, o \in DOMAIN Required : Authorize(r, u, o)
      PROVE  LockInv'
  BY <1>0, <1>8 DEF Authorize, Answer, Goto, Refuse, tables, locals
<1>9. ASSUME NEW r \in Reqs, \E m \in Memberships : CheckMember(r, m) PROVE LockInv'
  BY <1>0, <1>9 DEF CheckMember, Answer, Goto, Refuse, tables, locals, Exists, Found
<1>10. ASSUME NEW r \in Reqs, \E named \in SUBSET Roles : CheckRoles(r, named)
      PROVE  LockInv'
  BY <1>0, <1>10 DEF CheckRoles, Answer, Goto, Refuse, tables, locals
<1>11. ASSUME NEW r \in Reqs, \E u \in Users, m \in Memberships : Leave(r, u, m)
      PROVE  LockInv'
  BY <1>0, <1>11 DEF Leave, Answer, Goto, Refuse, tables, locals, Exists
<1>12. ASSUME NEW r \in Reqs, \E u \in Users : AppointOwner(r, u) PROVE LockInv'
  BY <1>0, <1>12 DEF AppointOwner, Answer, Goto, Refuse, tables, locals
<1>13. ASSUME NEW r \in Reqs, GrantOwnership(r) PROVE LockInv'
  BY <1>0, <1>13 DEF GrantOwnership, Goto, tables, locals, Exists, Found
<1>14. ASSUME NEW r \in Reqs, AddMember(r) PROVE LockInv'
  BY <1>0, <1>14 DEF AddMember, Answer, Goto, Refuse, tables, locals, Exists, Unused,
     Insert
<1>15. ASSUME NEW r \in Reqs, AuthorizePlatform(r) PROVE LockInv'
  BY <1>0, <1>15 DEF AuthorizePlatform, Goto, tables, locals
<1>16. ASSUME NEW r \in Reqs, DeleteOrganization(r) PROVE LockInv'
  BY <1>0, <1>16 DEF DeleteOrganization, Answer, Goto, Refuse, tables, locals
<1>17. ASSUME NEW r \in Reqs, \E q \in Roles : CheckDeletedRole(r, q) PROVE LockInv'
  BY <1>0, <1>17 DEF CheckDeletedRole, Answer, Goto, Refuse, tables, locals
<1>18. ASSUME NEW r \in Reqs, \E q \in Roles, set \in PermissionSets : CheckPermissions(r, q, set)
      PROVE  LockInv'
  BY <1>0, <1>18 DEF CheckPermissions, Answer, Goto, Refuse, tables, locals
<1>19. ASSUME NEW r \in Reqs, \E set \in PermissionSets : CheckCreateRole(r, set)
      PROVE  LockInv'
  BY <1>0, <1>19 DEF CheckCreateRole, Answer, Goto, Refuse, tables, locals
<1>20. ASSUME NEW r \in Reqs, \E q \in CustomRoles : CreateRole(r, q) PROVE LockInv'
  BY <1>0, <1>20 DEF CreateRole, Answer, Goto
<1>21. ASSUME NEW r \in Reqs, DeletePermissions(r) PROVE LockInv'
  BY <1>0, <1>21 DEF DeletePermissions, Answer, Goto, Refuse, tables, locals
<1>22. ASSUME NEW r \in Reqs, ReplaceRolePermissions(r) PROVE LockInv'
  BY <1>0, <1>22 DEF ReplaceRolePermissions, Answer, Goto, Refuse, tables, locals
<1>23. ASSUME NEW r \in Reqs, Abandon(r) PROVE LockInv'
  BY <1>0, <1>23 DEF Abandon, Answer, Goto, Refuse, tables, locals
<1>24. ASSUME \E m \in Memberships, u \in Users, some \in SUBSET Roles : AcceptInvitation(m, u, some)
      PROVE  LockInv'
  BY <1>0, <1>24 DEF AcceptInvitation, tables, locals, Exists, Unused, Insert
<1>25. ASSUME \E u \in Users : DeleteUser(u) PROVE LockInv'
  BY <1>0, <1>25 DEF DeleteUser, tables, locals, Owners
<1>26. QED
  BY <1>0, <1>1, <1>2, <1>3, <1>4, <1>5, <1>6, <1>7, <1>8, <1>9, <1>10, <1>11, <1>12,
     <1>13, <1>14, <1>15, <1>16, <1>17, <1>18, <1>19, <1>20, <1>21, <1>22, <1>23, <1>24,
     <1>25
     DEF Next, TransactionStep, MemberStep, RoleStep, OthersStep

\* Each step leaves every membership somebody's.
LEMMA RowStep == TypeOK /\ LockInv /\ PlaceInv /\ RowInv /\ Next => RowInv'
<1> USE NoneAssumption DEF TypeOK, LockInv, PlaceInv, RowInv, Exists
<1>0. SUFFICES ASSUME TypeOK /\ LockInv /\ PlaceInv /\ RowInv, Next PROVE RowInv'
  OBVIOUS
<1>1. ASSUME NEW r \in Reqs, Lock(r) PROVE RowInv'
  BY <1>0, <1>1 DEF Lock, Answer, Goto, Refuse, tables, locals
<1>2. ASSUME NEW r \in Reqs, Guard(r) PROVE RowInv'
  BY <1>0, <1>2 DEF Guard, Answer, Goto, Refuse, tables, locals, Losing, Refused, Owners
<1>3. ASSUME NEW r \in Reqs, SetMemberStatus(r) PROVE RowInv'
  BY <1>0, <1>3 DEF SetMemberStatus, Answer, Goto
<1>4. ASSUME NEW r \in Reqs, RemoveMember(r) PROVE RowInv'
  BY <1>0, <1>4 DEF RemoveMember, Answer, Goto
<1>5. ASSUME NEW r \in Reqs, ReplaceMemberRoles(r) PROVE RowInv'
  BY <1>0, <1>5 DEF ReplaceMemberRoles, Answer, Goto
<1>6. ASSUME NEW r \in Reqs, DeleteRole(r) PROVE RowInv'
  BY <1>0, <1>6 DEF DeleteRole, Answer, Goto
<1>7. ASSUME NEW r \in Reqs, Rollback(r) PROVE RowInv'
  BY <1>0, <1>7 DEF Rollback, Answer, Goto, Refuse, tables, locals
<1>8. ASSUME NEW r \in Reqs, \E u \in Users, o \in DOMAIN Required : Authorize(r, u, o)
      PROVE  RowInv'
  BY <1>0, <1>8 DEF Authorize, Answer, Goto, Refuse, tables, locals
<1>9. ASSUME NEW r \in Reqs, \E m \in Memberships : CheckMember(r, m) PROVE RowInv'
  BY <1>0, <1>9 DEF CheckMember, Answer, Goto, Refuse, tables, locals, Found
<1>10. ASSUME NEW r \in Reqs, \E named \in SUBSET Roles : CheckRoles(r, named)
      PROVE  RowInv'
  BY <1>0, <1>10 DEF CheckRoles, Answer, Goto, Refuse, tables, locals
<1>11. ASSUME NEW r \in Reqs, \E u \in Users, m \in Memberships : Leave(r, u, m)
      PROVE  RowInv'
  BY <1>0, <1>11 DEF Leave, Answer, Goto, Refuse, tables, locals
<1>12. ASSUME NEW r \in Reqs, \E u \in Users : AppointOwner(r, u) PROVE RowInv'
  BY <1>0, <1>12 DEF AppointOwner, Answer, Goto, Refuse, tables, locals
<1>13. ASSUME NEW r \in Reqs, GrantOwnership(r) PROVE RowInv'
  BY <1>0, <1>13 DEF GrantOwnership, Goto, tables, locals, Found
<1>14. ASSUME NEW r \in Reqs, AddMember(r) PROVE RowInv'
  BY <1>0, <1>14 DEF AddMember, Answer, Goto, Refuse, tables, locals, Unused, Insert
<1>15. ASSUME NEW r \in Reqs, AuthorizePlatform(r) PROVE RowInv'
  BY <1>0, <1>15 DEF AuthorizePlatform, Goto, tables, locals
<1>16. ASSUME NEW r \in Reqs, DeleteOrganization(r) PROVE RowInv'
  BY <1>0, <1>16 DEF DeleteOrganization, Answer, Goto, Refuse, tables, locals
<1>17. ASSUME NEW r \in Reqs, \E q \in Roles : CheckDeletedRole(r, q) PROVE RowInv'
  BY <1>0, <1>17 DEF CheckDeletedRole, Answer, Goto, Refuse, tables, locals
<1>18. ASSUME NEW r \in Reqs, \E q \in Roles, set \in PermissionSets : CheckPermissions(r, q, set)
      PROVE  RowInv'
  BY <1>0, <1>18 DEF CheckPermissions, Answer, Goto, Refuse, tables, locals
<1>19. ASSUME NEW r \in Reqs, \E set \in PermissionSets : CheckCreateRole(r, set)
      PROVE  RowInv'
  BY <1>0, <1>19 DEF CheckCreateRole, Answer, Goto, Refuse, tables, locals
<1>20. ASSUME NEW r \in Reqs, \E q \in CustomRoles : CreateRole(r, q) PROVE RowInv'
  BY <1>0, <1>20 DEF CreateRole, Answer, Goto
<1>21. ASSUME NEW r \in Reqs, DeletePermissions(r) PROVE RowInv'
  BY <1>0, <1>21 DEF DeletePermissions, Answer, Goto, Refuse, tables, locals
<1>22. ASSUME NEW r \in Reqs, ReplaceRolePermissions(r) PROVE RowInv'
  BY <1>0, <1>22 DEF ReplaceRolePermissions, Answer, Goto, Refuse, tables, locals
<1>23. ASSUME NEW r \in Reqs, Abandon(r) PROVE RowInv'
  BY <1>0, <1>23 DEF Abandon, Answer, Goto, Refuse, tables, locals
<1>24. ASSUME \E m \in Memberships, u \in Users, some \in SUBSET Roles : AcceptInvitation(m, u, some)
      PROVE  RowInv'
  BY <1>0, <1>24 DEF AcceptInvitation, tables, locals, Unused, Insert
<1>25. ASSUME \E u \in Users : DeleteUser(u) PROVE RowInv'
  BY <1>0, <1>25 DEF DeleteUser, tables, locals, Owners
<1>26. QED
  BY <1>0, <1>1, <1>2, <1>3, <1>4, <1>5, <1>6, <1>7, <1>8, <1>9, <1>10, <1>11, <1>12,
     <1>13, <1>14, <1>15, <1>16, <1>17, <1>18, <1>19, <1>20, <1>21, <1>22, <1>23, <1>24,
     <1>25
     DEF Next, TransactionStep, MemberStep, RoleStep, OthersStep

\* Each step leaves the role that is being deleted unheld: who would assign it waits.
LEMMA DeletedRoleStep == IInv /\ Next => RoleInv'
<1> USE NoneAssumption DEF IInv, TypeOK, LockInv, PlaceInv, RowInv, RoleInv
<1>0. SUFFICES ASSUME IInv, Next PROVE RoleInv'
  OBVIOUS
<1>1. ASSUME NEW r \in Reqs, Lock(r) PROVE RoleInv'
  BY <1>0, <1>1 DEF Lock, Answer, Goto, Refuse, tables, locals
<1>2. ASSUME NEW r \in Reqs, Guard(r) PROVE RoleInv'
  BY <1>0, <1>2 DEF Guard, Answer, Goto, Refuse, tables, locals, Losing, Refused, Owners
<1>3. ASSUME NEW r \in Reqs, SetMemberStatus(r) PROVE RoleInv'
  BY <1>0, <1>3 DEF SetMemberStatus, Answer, Goto, Exists
<1>4. ASSUME NEW r \in Reqs, RemoveMember(r) PROVE RoleInv'
  BY <1>0, <1>4 DEF RemoveMember, Answer, Goto, Exists
<1>5. ASSUME NEW r \in Reqs, ReplaceMemberRoles(r) PROVE RoleInv'
  BY <1>0, <1>5 DEF ReplaceMemberRoles, Answer, Goto, Exists
<1>6. ASSUME NEW r \in Reqs, DeleteRole(r) PROVE RoleInv'
  BY <1>0, <1>6 DEF DeleteRole, Answer, Goto
<1>7. ASSUME NEW r \in Reqs, Rollback(r) PROVE RoleInv'
  BY <1>0, <1>7 DEF Rollback, Answer, Goto, Refuse, tables, locals, Exists
<1>8. ASSUME NEW r \in Reqs, \E u \in Users, o \in DOMAIN Required : Authorize(r, u, o)
      PROVE  RoleInv'
  BY <1>0, <1>8 DEF Authorize, Answer, Goto, Refuse, tables, locals
<1>9. ASSUME NEW r \in Reqs, \E m \in Memberships : CheckMember(r, m) PROVE RoleInv'
  BY <1>0, <1>9 DEF CheckMember, Answer, Goto, Refuse, tables, locals, Exists, Found
<1>10. ASSUME NEW r \in Reqs, \E named \in SUBSET Roles : CheckRoles(r, named)
      PROVE  RoleInv'
  BY <1>0, <1>10 DEF CheckRoles, Answer, Goto, Refuse, tables, locals
<1>11. ASSUME NEW r \in Reqs, \E u \in Users, m \in Memberships : Leave(r, u, m)
      PROVE  RoleInv'
  BY <1>0, <1>11 DEF Leave, Answer, Goto, Refuse, tables, locals, Exists
<1>12. ASSUME NEW r \in Reqs, \E u \in Users : AppointOwner(r, u) PROVE RoleInv'
  BY <1>0, <1>12 DEF AppointOwner, Answer, Goto, Refuse, tables, locals
<1>13. ASSUME NEW r \in Reqs, GrantOwnership(r) PROVE RoleInv'
  BY <1>0, <1>13 DEF GrantOwnership, Goto, tables, locals, Exists, Found
<1>14. ASSUME NEW r \in Reqs, AddMember(r) PROVE RoleInv'
  BY <1>0, <1>14 DEF AddMember, Answer, Goto, Refuse, tables, locals, Exists, Unused,
     Insert
<1>15. ASSUME NEW r \in Reqs, AuthorizePlatform(r) PROVE RoleInv'
  BY <1>0, <1>15 DEF AuthorizePlatform, Goto, tables, locals
<1>16. ASSUME NEW r \in Reqs, DeleteOrganization(r) PROVE RoleInv'
  BY <1>0, <1>16 DEF DeleteOrganization, Answer, Goto, Refuse, tables, locals
<1>17. ASSUME NEW r \in Reqs, \E q \in Roles : CheckDeletedRole(r, q) PROVE RoleInv'
  BY <1>0, <1>17 DEF CheckDeletedRole, Answer, Goto, Refuse, tables, locals
<1>18. ASSUME NEW r \in Reqs, \E q \in Roles, set \in PermissionSets : CheckPermissions(r, q, set)
      PROVE  RoleInv'
  BY <1>0, <1>18 DEF CheckPermissions, Answer, Goto, Refuse, tables, locals
<1>19. ASSUME NEW r \in Reqs, \E set \in PermissionSets : CheckCreateRole(r, set)
      PROVE  RoleInv'
  BY <1>0, <1>19 DEF CheckCreateRole, Answer, Goto, Refuse, tables, locals
<1>20. ASSUME NEW r \in Reqs, \E q \in CustomRoles : CreateRole(r, q) PROVE RoleInv'
  BY <1>0, <1>20 DEF CreateRole, Answer, Goto
<1>21. ASSUME NEW r \in Reqs, DeletePermissions(r) PROVE RoleInv'
  BY <1>0, <1>21 DEF DeletePermissions, Answer, Goto, Refuse, tables, locals
<1>22. ASSUME NEW r \in Reqs, ReplaceRolePermissions(r) PROVE RoleInv'
  BY <1>0, <1>22 DEF ReplaceRolePermissions, Answer, Goto, Refuse, tables, locals
<1>23. ASSUME NEW r \in Reqs, Abandon(r) PROVE RoleInv'
  BY <1>0, <1>23 DEF Abandon, Answer, Goto, Refuse, tables, locals
<1>24. ASSUME \E m \in Memberships, u \in Users, some \in SUBSET Roles : AcceptInvitation(m, u, some)
      PROVE  RoleInv'
  BY <1>0, <1>24 DEF AcceptInvitation, tables, locals, Exists, Unused, Insert
<1>25. ASSUME \E u \in Users : DeleteUser(u) PROVE RoleInv'
  BY <1>0, <1>25 DEF DeleteUser, tables, locals, Owners
<1>26. QED
  BY <1>0, <1>1, <1>2, <1>3, <1>4, <1>5, <1>6, <1>7, <1>8, <1>9, <1>10, <1>11, <1>12,
     <1>13, <1>14, <1>15, <1>16, <1>17, <1>18, <1>19, <1>20, <1>21, <1>22, <1>23, <1>24,
     <1>25
     DEF Next, TransactionStep, MemberStep, RoleStep, OthersStep

\* Who is not the last owner leaves another one.
LEMMA AnotherOwner ==
    ASSUME NEW m \in Owners, ~(Cardinality(Owners) <= 1)
    PROVE  \E n \in Owners : n # m
<1>1. SUFFICES ASSUME \A n \in Owners : n = m PROVE FALSE
  OBVIOUS
<1>2. Owners = {m}
  BY <1>1
<1>3. Cardinality(Owners) = 1
  BY <1>2, FS_Singleton
<1>4. QED
  BY <1>3

\* Each step leaves another owner than the one who is about to stop being one.
LEMMA OwnerStep == IInv /\ Next => OwnerInv'
<1> USE NoneAssumption DEF IInv, TypeOK, LockInv, PlaceInv, RowInv, OwnerInv, Owners,
       Losing
<1>0. SUFFICES ASSUME IInv, Next PROVE OwnerInv'
  OBVIOUS
<1>1. ASSUME NEW r \in Reqs, Lock(r) PROVE OwnerInv'
  BY <1>0, <1>1 DEF Lock, Answer, Goto, Refuse, tables, locals
<1>2. ASSUME NEW r \in Reqs, Guard(r) PROVE OwnerInv'
  <2>1. CASE Refused(r) /\ Refuse(r)
    BY <1>0, <2>1 DEF Refuse, Answer, Goto, tables, Losing, Owners
  <2>2. CASE ~Refused(r) /\ Goto(r, "write") /\ UNCHANGED <<tables, lock, locals>>
    <3>1. Owners' = Owners /\ \A s \in Reqs : Losing(s)' = Losing(s)
      BY <2>2 DEF tables, locals, Owners, Losing
    <3>2. ASSUME NEW s \in Reqs, pc'[s] = "write", Losing(s), target[s] \in Owners
          PROVE  \E m \in Owners : m # target[s]
      <4>1. s = r
        BY <1>0, <1>2, <2>2, <3>2 DEF Guard, Goto
      <4>2. ~(Cardinality(Owners) <= 1)
        BY <2>2, <3>2, <4>1 DEF Refused
      <4>3. QED
        BY <3>2, <4>2, AnotherOwner
    <3>3. QED
      BY <2>2, <3>1, <3>2 DEF locals
  <2>3. QED
    BY <1>2, <2>1, <2>2 DEF Guard
<1>3. ASSUME NEW r \in Reqs, SetMemberStatus(r) PROVE OwnerInv'
  BY <1>0, <1>3 DEF SetMemberStatus, Answer, Goto, Exists
<1>4. ASSUME NEW r \in Reqs, RemoveMember(r) PROVE OwnerInv'
  BY <1>0, <1>4 DEF RemoveMember, Answer, Goto, Exists
<1>5. ASSUME NEW r \in Reqs, ReplaceMemberRoles(r) PROVE OwnerInv'
  BY <1>0, <1>5 DEF ReplaceMemberRoles, Answer, Goto, Exists
<1>6. ASSUME NEW r \in Reqs, DeleteRole(r) PROVE OwnerInv'
  BY <1>0, <1>6 DEF DeleteRole, Answer, Goto
<1>7. ASSUME NEW r \in Reqs, Rollback(r) PROVE OwnerInv'
  BY <1>0, <1>7 DEF Rollback, Answer, Goto, Refuse, tables, locals, Exists
<1>8. ASSUME NEW r \in Reqs, \E u \in Users, o \in DOMAIN Required : Authorize(r, u, o)
      PROVE  OwnerInv'
  BY <1>0, <1>8 DEF Authorize, Answer, Goto, Refuse, tables, locals
<1>9. ASSUME NEW r \in Reqs, \E m \in Memberships : CheckMember(r, m) PROVE OwnerInv'
  BY <1>0, <1>9 DEF CheckMember, Answer, Goto, Refuse, tables, locals, Exists, Found
<1>10. ASSUME NEW r \in Reqs, \E named \in SUBSET Roles : CheckRoles(r, named)
      PROVE  OwnerInv'
  BY <1>0, <1>10 DEF CheckRoles, Answer, Goto, Refuse, tables, locals
<1>11. ASSUME NEW r \in Reqs, \E u \in Users, m \in Memberships : Leave(r, u, m)
      PROVE  OwnerInv'
  <2>1. /\ pc'[r] # "write"
        /\ UNCHANGED <<member, holds, retired, overtaken>>
        /\ \A s \in Reqs \ {r} : UNCHANGED <<pc[s], op[s], target[s], wanted[s]>>
    BY <1>0, <1>11 DEF Leave, Answer, Goto, Refuse, tables
  <2>2. QED
    BY <1>0, <2>1
<1>12. ASSUME NEW r \in Reqs, \E u \in Users : AppointOwner(r, u) PROVE OwnerInv'
  BY <1>0, <1>12 DEF AppointOwner, Answer, Goto, Refuse, tables, locals
<1>13. ASSUME NEW r \in Reqs, GrantOwnership(r) PROVE OwnerInv'
  BY <1>0, <1>13 DEF GrantOwnership, Goto, tables, locals, Exists, Found
<1>14. ASSUME NEW r \in Reqs, AddMember(r) PROVE OwnerInv'
  <2>1. CASE Refuse(r)
    BY <1>0, <2>1 DEF Refuse, Answer, Goto, tables, Losing, Owners
  <2>2. CASE lock = None /\ Answer(r, "ok")
    BY <1>0, <2>2 DEF Answer, Goto
  <2>3. QED
    BY <1>14, <2>1, <2>2 DEF AddMember, Insert
<1>15. ASSUME NEW r \in Reqs, AuthorizePlatform(r) PROVE OwnerInv'
  BY <1>0, <1>15 DEF AuthorizePlatform, Goto, tables, locals
<1>16. ASSUME NEW r \in Reqs, DeleteOrganization(r) PROVE OwnerInv'
  BY <1>0, <1>16 DEF DeleteOrganization, Answer, Goto, Refuse, tables, locals
<1>17. ASSUME NEW r \in Reqs, \E q \in Roles : CheckDeletedRole(r, q) PROVE OwnerInv'
  BY <1>0, <1>17 DEF CheckDeletedRole, Answer, Goto, Refuse, tables, locals
<1>18. ASSUME NEW r \in Reqs, \E q \in Roles, set \in PermissionSets : CheckPermissions(r, q, set)
      PROVE  OwnerInv'
  BY <1>0, <1>18 DEF CheckPermissions, Answer, Goto, Refuse, tables, locals
<1>19. ASSUME NEW r \in Reqs, \E set \in PermissionSets : CheckCreateRole(r, set)
      PROVE  OwnerInv'
  BY <1>0, <1>19 DEF CheckCreateRole, Answer, Goto, Refuse, tables, locals
<1>20. ASSUME NEW r \in Reqs, \E q \in CustomRoles : CreateRole(r, q) PROVE OwnerInv'
  BY <1>0, <1>20 DEF CreateRole, Answer, Goto
<1>21. ASSUME NEW r \in Reqs, DeletePermissions(r) PROVE OwnerInv'
  BY <1>0, <1>21 DEF DeletePermissions, Answer, Goto, Refuse, tables, locals
<1>22. ASSUME NEW r \in Reqs, ReplaceRolePermissions(r) PROVE OwnerInv'
  BY <1>0, <1>22 DEF ReplaceRolePermissions, Answer, Goto, Refuse, tables, locals
<1>23. ASSUME NEW r \in Reqs, Abandon(r) PROVE OwnerInv'
  BY <1>0, <1>23 DEF Abandon, Answer, Goto, Refuse, tables, locals
<1>24. ASSUME \E m \in Memberships, u \in Users, some \in SUBSET Roles : AcceptInvitation(m, u, some)
      PROVE  OwnerInv'
  BY <1>0, <1>24 DEF AcceptInvitation, tables, locals, Exists, Unused, Insert
<1>25. ASSUME \E u \in Users : DeleteUser(u) PROVE OwnerInv'
  <2>1. PICK u \in Users : DeleteUser(u)
    BY <1>25
  <2>2. ~overtaken' => ~overtaken /\ ~(\E m \in Owners : member[m].user = u)
    BY <2>1, Zenon DEF DeleteUser
  <2>3. ~overtaken' => Owners' = Owners
    BY <2>1, <2>2 DEF DeleteUser, Owners
  <2>4. pc' = pc /\ target' = target /\ \A r \in Reqs : Losing(r)' = Losing(r)
    BY <2>1 DEF DeleteUser, locals, Losing
  <2>5. QED
    BY <1>0, <2>2, <2>3, <2>4
<1>26. QED
  BY <1>0, <1>1, <1>2, <1>3, <1>4, <1>5, <1>6, <1>7, <1>8, <1>9, <1>10, <1>11, <1>12,
     <1>13, <1>14, <1>15, <1>16, <1>17, <1>18, <1>19, <1>20, <1>21, <1>22, <1>23, <1>24,
     <1>25
     DEF Next, TransactionStep, MemberStep, RoleStep, OthersStep

(***************************************************************************)
(* The theorems                                                            *)
(***************************************************************************)

\* It holds at first.
LEMMA InitIInv == Init => IInv
<1> SUFFICES ASSUME Init PROVE IInv
  OBVIOUS
<1>1. TypeOK /\ LockInv /\ PlaceInv
  BY DEF Init, LockInv, PlaceInv
<1>2. RowInv
  BY DEF Init, RowInv, MemberRow, Exists
<1>3. RoleInv /\ OwnerInv
  BY NoneAssumption DEF Init, RoleInv, OwnerInv, Required
<1>4. QED
  BY <1>1, <1>2, <1>3 DEF IInv

\* And every step keeps it.
LEMMA NextIInv == IInv /\ [Next]_vars => IInv'
<1>1. IInv /\ Next => TypeOK'
  BY LocalShapeStep, MemberShapeStep, OneRowEachStep, HoldShapeStep, RoleShapeStep, FlagStep
     DEF IInv, TypeOK, LocalShape, MemberShape, OneRowEach, HoldShape, RoleShape, Flags
<1>2. IInv /\ Next => IInv'
  BY <1>1, LockStep, PlaceStep, RowStep, DeletedRoleStep, OwnerStep DEF IInv
<1>3. IInv /\ UNCHANGED vars => IInv'
  <2> SUFFICES ASSUME IInv, UNCHANGED vars PROVE IInv'
    OBVIOUS
  <2> USE DEF vars, tables, locals
  <2>1. TypeOK'
    BY DEF IInv, TypeOK, Exists
  <2>2. LockInv' /\ PlaceInv' /\ RowInv'
    BY DEF IInv, LockInv, PlaceInv, RowInv, Exists
  <2>3. RoleInv' /\ OwnerInv'
    BY DEF IInv, RoleInv, OwnerInv, Losing, Owners
  <2>4. QED
    BY <2>1, <2>2, <2>3 DEF IInv
<1>4. QED
  BY <1>2, <1>3

\* The inductive invariant holds throughout.
LEMMA Inductive == Spec => []IInv
  BY InitIInv, NextIInv, PTL DEF Spec

\* Memberships, roles and requests are well-formed, and nobody is a member twice.
THEOREM TypeCorrect == Spec => []TypeOK
  BY Inductive, PTL DEF IInv

\* Each step leaves an owner, unless it deletes an account.
LEMMA OwnersStay == IInv /\ Owners # {} /\ ~overtaken /\ retired' = retired /\ Next => Owners' # {}
<1> USE NoneAssumption DEF IInv, TypeOK, LockInv, PlaceInv, RoleInv, OwnerInv, Owners,
       Losing
<1>0. SUFFICES ASSUME IInv /\ Owners # {} /\ ~overtaken /\ retired' = retired, Next PROVE Owners' # {}
  OBVIOUS
<1>1. ASSUME NEW r \in Reqs, Lock(r) PROVE Owners' # {}
  BY <1>0, <1>1 DEF Lock, Answer, Goto, Refuse, tables, locals
<1>2. ASSUME NEW r \in Reqs, Guard(r) PROVE Owners' # {}
  BY <1>0, <1>2 DEF Guard, Answer, Goto, Refuse, tables, locals, Refused
<1>3. ASSUME NEW r \in Reqs, SetMemberStatus(r) PROVE Owners' # {}
  BY <1>0, <1>3 DEF SetMemberStatus, Answer, Goto, Exists
<1>4. ASSUME NEW r \in Reqs, RemoveMember(r) PROVE Owners' # {}
  BY <1>0, <1>4 DEF RemoveMember, Answer, Goto, Exists
<1>5. ASSUME NEW r \in Reqs, ReplaceMemberRoles(r) PROVE Owners' # {}
  <2>1. CASE Losing(r) /\ target[r] \in Owners
    BY <1>0, <1>5, <2>1 DEF ReplaceMemberRoles
  <2>2. CASE ~Losing(r) /\ target[r] \in Owners
    BY <1>0, <1>5, <2>2 DEF ReplaceMemberRoles
  <2>3. CASE target[r] \notin Owners
    BY <1>0, <1>5, <2>3 DEF ReplaceMemberRoles
  <2>4. QED
    BY <2>1, <2>2, <2>3
<1>6. ASSUME NEW r \in Reqs, DeleteRole(r) PROVE Owners' # {}
  BY <1>0, <1>6 DEF DeleteRole, Answer, Goto
<1>7. ASSUME NEW r \in Reqs, Rollback(r) PROVE Owners' # {}
  BY <1>0, <1>7 DEF Rollback, Answer, Goto, Refuse, tables, locals, Exists
<1>8. ASSUME NEW r \in Reqs, \E u \in Users, o \in DOMAIN Required : Authorize(r, u, o)
      PROVE  Owners' # {}
  BY <1>0, <1>8 DEF Authorize, Answer, Goto, Refuse, tables, locals
<1>9. ASSUME NEW r \in Reqs, \E m \in Memberships : CheckMember(r, m)
      PROVE  Owners' # {}
  BY <1>0, <1>9 DEF CheckMember, Answer, Goto, Refuse, tables, locals, Exists, Found
<1>10. ASSUME NEW r \in Reqs, \E named \in SUBSET Roles : CheckRoles(r, named)
      PROVE  Owners' # {}
  BY <1>0, <1>10 DEF CheckRoles, Answer, Goto, Refuse, tables, locals
<1>11. ASSUME NEW r \in Reqs, \E u \in Users, m \in Memberships : Leave(r, u, m)
      PROVE  Owners' # {}
  BY <1>0, <1>11 DEF Leave, Answer, Goto, Refuse, tables, locals, Exists
<1>12. ASSUME NEW r \in Reqs, \E u \in Users : AppointOwner(r, u) PROVE Owners' # {}
  BY <1>0, <1>12 DEF AppointOwner, Answer, Goto, Refuse, tables, locals
<1>13. ASSUME NEW r \in Reqs, GrantOwnership(r) PROVE Owners' # {}
  BY <1>0, <1>13 DEF GrantOwnership, Goto, tables, locals, Exists, Found
<1>14. ASSUME NEW r \in Reqs, AddMember(r) PROVE Owners' # {}
  BY <1>0, <1>14 DEF AddMember, Answer, Goto, Refuse, tables, locals, Exists, Unused,
     Insert
<1>15. ASSUME NEW r \in Reqs, AuthorizePlatform(r) PROVE Owners' # {}
  BY <1>0, <1>15 DEF AuthorizePlatform, Goto, tables, locals
<1>16. ASSUME NEW r \in Reqs, DeleteOrganization(r) PROVE Owners' # {}
  BY <1>0, <1>16 DEF DeleteOrganization, Answer, Goto, Refuse, tables, locals
<1>17. ASSUME NEW r \in Reqs, \E q \in Roles : CheckDeletedRole(r, q)
      PROVE  Owners' # {}
  BY <1>0, <1>17 DEF CheckDeletedRole, Answer, Goto, Refuse, tables, locals
<1>18. ASSUME NEW r \in Reqs, \E q \in Roles, set \in PermissionSets : CheckPermissions(r, q, set)
      PROVE  Owners' # {}
  BY <1>0, <1>18 DEF CheckPermissions, Answer, Goto, Refuse, tables, locals
<1>19. ASSUME NEW r \in Reqs, \E set \in PermissionSets : CheckCreateRole(r, set)
      PROVE  Owners' # {}
  BY <1>0, <1>19 DEF CheckCreateRole, Answer, Goto, Refuse, tables, locals
<1>20. ASSUME NEW r \in Reqs, \E q \in CustomRoles : CreateRole(r, q)
      PROVE  Owners' # {}
  BY <1>0, <1>20 DEF CreateRole, Answer, Goto
<1>21. ASSUME NEW r \in Reqs, DeletePermissions(r) PROVE Owners' # {}
  BY <1>0, <1>21 DEF DeletePermissions, Answer, Goto, Refuse, tables, locals
<1>22. ASSUME NEW r \in Reqs, ReplaceRolePermissions(r) PROVE Owners' # {}
  BY <1>0, <1>22 DEF ReplaceRolePermissions, Answer, Goto, Refuse, tables, locals
<1>23. ASSUME NEW r \in Reqs, Abandon(r) PROVE Owners' # {}
  BY <1>0, <1>23 DEF Abandon, Answer, Goto, Refuse, tables, locals
<1>24. ASSUME \E m \in Memberships, u \in Users, some \in SUBSET Roles : AcceptInvitation(m, u, some)
      PROVE  Owners' # {}
  BY <1>0, <1>24 DEF AcceptInvitation, tables, locals, Exists, Unused, Insert
<1>25. ASSUME \E u \in Users : DeleteUser(u) PROVE Owners' # {}
  BY <1>0, <1>25 DEF DeleteUser, tables, locals
<1>26. QED
  BY <1>0, <1>1, <1>2, <1>3, <1>4, <1>5, <1>6, <1>7, <1>8, <1>9, <1>10, <1>11, <1>12,
     <1>13, <1>14, <1>15, <1>16, <1>17, <1>18, <1>19, <1>20, <1>21, <1>22, <1>23, <1>24,
     <1>25
     DEF Next, TransactionStep, MemberStep, RoleStep, OthersStep

\* Somebody can administer the organization when it has an owner.
LEMMA AdministratorsAreOwners ==
    IInv => (Administrators # {} <=> Owners # {})
  BY DEF IInv, TypeOK, RowInv, Administrators, Owners, Exists, MemberRow

\* Whatever overlaps, the last who can administer the organization stays, unless an
\* account is deleted in between.
THEOREM AnAdministratorStays == Spec => LastOwnerIsKept
<1>1. IInv /\ IInv' /\ [Next]_vars
        => [Administrators # {} /\ Administrators' = {}
              => retired' # retired \/ overtaken]_vars
  <2>1. (IInv => (Administrators # {} <=> Owners # {}))'
    BY AdministratorsAreOwners, PTL
  <2>2. QED
    BY <2>1, AdministratorsAreOwners, OwnersStay
<1>2. QED
  BY <1>1, Inductive, PTL DEF Spec, LastOwnerIsKept

\* Each step that deletes a role deletes one that nobody holds.
LEMMA RolesStay == IInv /\ Next => \A q \in role \ role' : \A m \in Memberships : q \notin holds[m]
<1> USE NoneAssumption DEF IInv, TypeOK, RoleInv
<1>0. SUFFICES ASSUME IInv, Next PROVE \A q \in role \ role' : \A m \in Memberships : q \notin holds[m]
  OBVIOUS
<1>1. ASSUME NEW r \in Reqs, Lock(r)
      PROVE  \A q \in role \ role' : \A m \in Memberships : q \notin holds[m]
  BY <1>0, <1>1 DEF Lock, Answer, Goto, Refuse, tables, locals
<1>2. ASSUME NEW r \in Reqs, Guard(r)
      PROVE  \A q \in role \ role' : \A m \in Memberships : q \notin holds[m]
  BY <1>0, <1>2 DEF Guard, Answer, Goto, Refuse, tables, locals, Losing, Refused, Owners
<1>3. ASSUME NEW r \in Reqs, SetMemberStatus(r)
      PROVE  \A q \in role \ role' : \A m \in Memberships : q \notin holds[m]
  BY <1>0, <1>3 DEF SetMemberStatus, Answer, Goto, Exists
<1>4. ASSUME NEW r \in Reqs, RemoveMember(r)
      PROVE  \A q \in role \ role' : \A m \in Memberships : q \notin holds[m]
  BY <1>0, <1>4 DEF RemoveMember, Answer, Goto, Exists
<1>5. ASSUME NEW r \in Reqs, ReplaceMemberRoles(r)
      PROVE  \A q \in role \ role' : \A m \in Memberships : q \notin holds[m]
  BY <1>0, <1>5 DEF ReplaceMemberRoles, Answer, Goto, Exists
<1>6. ASSUME NEW r \in Reqs, DeleteRole(r)
      PROVE  \A q \in role \ role' : \A m \in Memberships : q \notin holds[m]
  BY <1>0, <1>6 DEF DeleteRole, Answer, Goto
<1>7. ASSUME NEW r \in Reqs, Rollback(r)
      PROVE  \A q \in role \ role' : \A m \in Memberships : q \notin holds[m]
  BY <1>0, <1>7 DEF Rollback, Answer, Goto, Refuse, tables, locals, Exists
<1>8. ASSUME NEW r \in Reqs, \E u \in Users, o \in DOMAIN Required : Authorize(r, u, o)
      PROVE  \A q \in role \ role' : \A m \in Memberships : q \notin holds[m]
  BY <1>0, <1>8 DEF Authorize, Answer, Goto, Refuse, tables, locals
<1>9. ASSUME NEW r \in Reqs, \E m \in Memberships : CheckMember(r, m)
      PROVE  \A q \in role \ role' : \A m \in Memberships : q \notin holds[m]
  BY <1>0, <1>9 DEF CheckMember, Answer, Goto, Refuse, tables, locals, Exists, Found
<1>10. ASSUME NEW r \in Reqs, \E named \in SUBSET Roles : CheckRoles(r, named)
      PROVE  \A q \in role \ role' : \A m \in Memberships : q \notin holds[m]
  BY <1>0, <1>10 DEF CheckRoles, Answer, Goto, Refuse, tables, locals
<1>11. ASSUME NEW r \in Reqs, \E u \in Users, m \in Memberships : Leave(r, u, m)
      PROVE  \A q \in role \ role' : \A m \in Memberships : q \notin holds[m]
  BY <1>0, <1>11 DEF Leave, Answer, Goto, Refuse, tables, locals, Exists
<1>12. ASSUME NEW r \in Reqs, \E u \in Users : AppointOwner(r, u)
      PROVE  \A q \in role \ role' : \A m \in Memberships : q \notin holds[m]
  BY <1>0, <1>12 DEF AppointOwner, Answer, Goto, Refuse, tables, locals
<1>13. ASSUME NEW r \in Reqs, GrantOwnership(r)
      PROVE  \A q \in role \ role' : \A m \in Memberships : q \notin holds[m]
  BY <1>0, <1>13 DEF GrantOwnership, Goto, tables, locals, Exists, Found
<1>14. ASSUME NEW r \in Reqs, AddMember(r)
      PROVE  \A q \in role \ role' : \A m \in Memberships : q \notin holds[m]
  BY <1>0, <1>14 DEF AddMember, Answer, Goto, Refuse, tables, locals, Exists, Unused,
     Insert
<1>15. ASSUME NEW r \in Reqs, AuthorizePlatform(r)
      PROVE  \A q \in role \ role' : \A m \in Memberships : q \notin holds[m]
  BY <1>0, <1>15 DEF AuthorizePlatform, Goto, tables, locals
<1>16. ASSUME NEW r \in Reqs, DeleteOrganization(r)
      PROVE  \A q \in role \ role' : \A m \in Memberships : q \notin holds[m]
  BY <1>0, <1>16 DEF DeleteOrganization, Answer, Goto, Refuse, tables, locals
<1>17. ASSUME NEW r \in Reqs, \E q \in Roles : CheckDeletedRole(r, q)
      PROVE  \A q \in role \ role' : \A m \in Memberships : q \notin holds[m]
  BY <1>0, <1>17 DEF CheckDeletedRole, Answer, Goto, Refuse, tables, locals
<1>18. ASSUME NEW r \in Reqs, \E q \in Roles, set \in PermissionSets : CheckPermissions(r, q, set)
      PROVE  \A q \in role \ role' : \A m \in Memberships : q \notin holds[m]
  BY <1>0, <1>18 DEF CheckPermissions, Answer, Goto, Refuse, tables, locals
<1>19. ASSUME NEW r \in Reqs, \E set \in PermissionSets : CheckCreateRole(r, set)
      PROVE  \A q \in role \ role' : \A m \in Memberships : q \notin holds[m]
  BY <1>0, <1>19 DEF CheckCreateRole, Answer, Goto, Refuse, tables, locals
<1>20. ASSUME NEW r \in Reqs, \E q \in CustomRoles : CreateRole(r, q)
      PROVE  \A q \in role \ role' : \A m \in Memberships : q \notin holds[m]
  BY <1>0, <1>20 DEF CreateRole, Answer, Goto
<1>21. ASSUME NEW r \in Reqs, DeletePermissions(r)
      PROVE  \A q \in role \ role' : \A m \in Memberships : q \notin holds[m]
  BY <1>0, <1>21 DEF DeletePermissions, Answer, Goto, Refuse, tables, locals
<1>22. ASSUME NEW r \in Reqs, ReplaceRolePermissions(r)
      PROVE  \A q \in role \ role' : \A m \in Memberships : q \notin holds[m]
  BY <1>0, <1>22 DEF ReplaceRolePermissions, Answer, Goto, Refuse, tables, locals
<1>23. ASSUME NEW r \in Reqs, Abandon(r)
      PROVE  \A q \in role \ role' : \A m \in Memberships : q \notin holds[m]
  BY <1>0, <1>23 DEF Abandon, Answer, Goto, Refuse, tables, locals
<1>24. ASSUME \E m \in Memberships, u \in Users, some \in SUBSET Roles : AcceptInvitation(m, u, some)
      PROVE  \A q \in role \ role' : \A m \in Memberships : q \notin holds[m]
  BY <1>0, <1>24 DEF AcceptInvitation, tables, locals, Exists, Unused, Insert
<1>25. ASSUME \E u \in Users : DeleteUser(u)
      PROVE  \A q \in role \ role' : \A m \in Memberships : q \notin holds[m]
  BY <1>0, <1>25 DEF DeleteUser, tables, locals, Owners
<1>26. QED
  BY <1>0, <1>1, <1>2, <1>3, <1>4, <1>5, <1>6, <1>7, <1>8, <1>9, <1>10, <1>11, <1>12,
     <1>13, <1>14, <1>15, <1>16, <1>17, <1>18, <1>19, <1>20, <1>21, <1>22, <1>23, <1>24,
     <1>25
     DEF Next, TransactionStep, MemberStep, RoleStep, OthersStep

\* A role goes when nobody holds it, though joining takes no lock of its own.
THEOREM DeletedRolesAreUnheld == Spec => DeletedRoleIsUnheld
<1>1. IInv /\ [Next]_vars
        => [\A q \in role \ role' : \A m \in Memberships : q \notin holds[m]]_vars
  BY RolesStay DEF vars, tables
<1>2. QED
  BY <1>1, Inductive, PTL DEF Spec, DeletedRoleIsUnheld

=============================================================================
