----------------------------- MODULE SystemRoles -----------------------------
(***************************************************************************)
(* The one installation-wide role, platform_admin: who holds it, and what  *)
(* keeps the installation from being left with nobody who can grant it.    *)
(*                                                                         *)
(* A request is authorized once; a revocation of the caller's own role     *)
(* then looks for another holder, and the DELETE follows outside whatever  *)
(* that read saw.  Suspending and deleting accounts asks for the same role *)
(* and looks for no other holder.                                          *)
(***************************************************************************)
EXTENDS FiniteSets

CONSTANTS
    Users,      \* accounts
    Protected,  \* accounts with is_protected set
    Reqs,       \* HTTP requests
    None        \* no account

VARIABLES
    holder,     \* user_system_roles: accounts with platform_admin
    suspended,  \* accounts with suspended_at set
    retired,    \* accounts with deleted_at set
    pc,         \* where each request is
    caller,     \* who sends it
    target      \* whose role or account it is about

accounts == <<suspended, retired>>
vars == <<holder, accounts, pc, caller, target>>

Pcs == {"idle", "grant", "check", "revoke", "suspend", "reinstate", "delete", "ok", "refused"}

\* Every request has somebody behind it and somebody it is about.
TypeOK ==
    /\ holder \subseteq Users
    /\ suspended \subseteq Users
    /\ retired \subseteq Users \ Protected
    /\ pc \in [Reqs -> Pcs]
    /\ caller \in [Reqs -> Users \cup {None}]
    /\ target \in [Reqs -> Users \cup {None}]
    /\ \A r \in Reqs : pc[r] # "idle" => caller[r] # None /\ target[r] # None

\* The bootstrap command has made somebody an administrator.
Init ==
    /\ holder \in SUBSET Users \ {{}}
    /\ suspended = {}
    /\ retired = {}
    /\ pc = [r \in Reqs |-> "idle"]
    /\ caller = [r \in Reqs |-> None]
    /\ target = [r \in Reqs |-> None]

Goto(r, next) == pc' = [pc EXCEPT ![r] = next]

Answer(r, outcome) == Goto(r, outcome) /\ UNCHANGED <<caller, target>>

\* Refused by the bearer check: no such account, or a suspended one.
Usable(u) == u \notin retired \cup suspended

\* Who passes it and authorizeSystem.
Able(u) == u \in holder /\ Usable(u)

\* requireBearer, requirePermission, and what the handler checks at once: nobody
\* suspends or deletes their own account.
Authorize(r, u, v, op) ==
    /\ pc[r] = "idle"
    /\ caller' = [caller EXCEPT ![r] = u]
    /\ target' = [target EXCEPT ![r] = v]
    /\ Goto(r, IF ~Able(u) \/ (u = v /\ op \in {"suspend", "delete"}) THEN "refused"
               ELSE IF op = "revoke" /\ u = v THEN "check" ELSE op)
    /\ UNCHANGED <<holder, accounts>>

\* The account a grant is for has a row, if a deleted one.
Grant(r) ==
    /\ pc[r] = "grant"
    /\ holder' = holder \cup {target[r]}
    /\ Answer(r, "ok")
    /\ UNCHANGED accounts

\* lastHolderOf: SystemRoleHolders leaves out deleted accounts.
Check(r) ==
    /\ pc[r] = "check"
    /\ Answer(r, IF holder \ retired \subseteq {caller[r]} THEN "refused" ELSE "revoke")
    /\ UNCHANGED <<holder, accounts>>

Revoke(r) ==
    /\ pc[r] = "revoke"
    /\ holder' = holder \ {target[r]}
    /\ Answer(r, "ok")
    /\ UNCHANGED accounts

\* SetSuspended.
Suspend(r) ==
    /\ pc[r] \in {"suspend", "reinstate"}
    /\ \/ target[r] \in retired /\ Answer(r, "refused") /\ UNCHANGED accounts
       \/ /\ target[r] \notin retired
          /\ suspended' = IF pc[r] = "suspend" THEN suspended \cup {target[r]}
                                               ELSE suspended \ {target[r]}
          /\ Answer(r, "ok")
          /\ UNCHANGED retired
    /\ UNCHANGED holder

\* A soft delete: the role's row stays.
Delete(r) ==
    /\ pc[r] = "delete"
    /\ \/ target[r] \in retired \cup Protected /\ Answer(r, "refused") /\ UNCHANGED retired
       \/ /\ target[r] \notin retired \cup Protected
          /\ retired' = retired \cup {target[r]}
          /\ Answer(r, "ok")
    /\ UNCHANGED <<holder, suspended>>

Step(r) ==
    \/ \E u, v \in Users, op \in {"grant", "revoke", "suspend", "reinstate", "delete"} :
          Authorize(r, u, v, op)
    \/ Grant(r)
    \/ Check(r)
    \/ Revoke(r)
    \/ Suspend(r)
    \/ Delete(r)

Next == \E r \in Reqs : Step(r)

Spec == Init /\ [][Next]_vars

\* Revoking one's own role is refused when it would leave nobody able to grant it back
\* (RevokeSystemRole, ErrCannotRevokeOwnLastSystemRole).
SomebodyCanGrantItBack ==
    [][\A r \in Reqs :
          Revoke(r) /\ target[r] = caller[r] => (\E u \in Users : Able(u))']_vars

=============================================================================
