---------------------------- MODULE Invitations ----------------------------
(***************************************************************************)
(* Offers of membership in one organization: sent to an address, re-sent,  *)
(* accepted with the token that was mailed, declined or withdrawn.  The    *)
(* organization may be the default one, which a new account joins as a     *)
(* plain member unless it has an offer.                                    *)
(*                                                                         *)
(* Accepting locks the invitation's row; declining and withdrawing read it *)
(* without a lock and delete it by id, which waits for whoever holds it.   *)
(* One row per address is left to a unique index, which counts accepted    *)
(* and expired rows too.                                                   *)
(*                                                                         *)
(* A role is deleted under the organization's FOR UPDATE lock, which the   *)
(* insertion of an invitation or a membership waits for and holds off      *)
(* (its foreign key takes KEY SHARE).  Those three are one action each.    *)
(***************************************************************************)
EXTENDS Integers, FiniteSets

CONSTANTS
    Users,      \* accounts
    Emails,     \* addresses, of accounts and of offers
    Invites,    \* ids of invitations rows; an id is used once
    Roles,      \* roles of the organization
    Reqs,       \* HTTP requests
    None,       \* no account, address, row, request or token
    MaxTokens   \* bound: invitation tokens generated

ASSUME NoneAssumption == None \notin Users \cup Emails \cup Invites \cup Reqs

ASSUME BoundAssumption == MaxTokens \in Nat

VARIABLES
    live,       \* organizations.deleted_at IS NULL
    address,    \* users.email; None before the account is registered
    members,    \* accounts with a memberships row
    holds,      \* membership_roles
    role,       \* roles that exist
    invite,     \* invitations rows
    offers,     \* invitation_roles
    locked,     \* the request that holds a row FOR UPDATE
    tokens,     \* tokens generated so far; a token is its number
    mailed,     \* tokens that reached their address
    pc,         \* where each request is
    who,        \* the account it acts for
    addr,       \* the address it read, or is about to invite
    todo,       \* addresses of a batch still to be invited
    wanted,     \* the roles it read or was given
    target,     \* the invitation it is about
    sent,       \* tokens it will mail
    since,      \* history: how many tokens there were when it registered an account
    fresh,      \* history: registered accounts that were never looked after
    joined,     \* history: <<invitation, request>> of every membership made
    promised,   \* history: the roles an invitation was made with
    ended       \* history: invitations whose withdrawal or refusal was answered

tables == <<live, address, members, holds, role, invite, offers, tokens, mailed>>
locals == <<who, addr, todo, wanted, target, sent>>
history == <<fresh, joined, promised, ended>>
vars == <<tables, locked, pc, locals, since, history>>

\* No token is 0.
Tokens == 1..MaxTokens

Row == [state: {"unused", "open", "accepted", "gone"},
        email: Emails \cup {None}, token: 0..MaxTokens, expired: BOOLEAN]

Pcs == {"idle", "count", "insert", "mail", "lookup", "lock", "check", "roles",
        "join", "find", "delete", "rows", "plain", "done"}

Registered == {u \in Users : address[u] # None}

Present(i) == invite[i].state \in {"open", "accepted"}

\* Every table holds rows of its shape, tokens and the addresses of accounts and of
\* present rows are unique, and roles are held and offered only while they and their rows exist.
TypeOK ==
    /\ live \in BOOLEAN
    /\ address \in [Users -> Emails \cup {None}]
    /\ \A u, v \in Registered : address[u] = address[v] => u = v
    /\ members \subseteq Registered
    /\ holds \in [Users -> SUBSET role]
    /\ \A u \in Users \ members : holds[u] = {}
    /\ role \subseteq Roles
    /\ invite \in [Invites -> Row]
    /\ \A i, j \in Invites : i # j /\ Present(i) /\ Present(j)
          => invite[i].email # invite[j].email /\ invite[i].token # invite[j].token
    /\ offers \in [Invites -> SUBSET role]
    /\ \A i \in Invites : ~Present(i) => offers[i] = {}
    /\ locked \in [Invites -> Reqs \cup {None}]
    /\ tokens \in 0..MaxTokens
    /\ mailed \subseteq 1..tokens
    /\ pc \in [Reqs -> Pcs]
    /\ who \in [Reqs -> Users \cup {None}]
    /\ addr \in [Reqs -> Emails \cup {None}]
    /\ todo \in [Reqs -> SUBSET Emails]
    /\ wanted \in [Reqs -> SUBSET Roles]
    /\ target \in [Reqs -> Invites \cup {None}]
    /\ sent \in [Reqs -> SUBSET (1..tokens)]
    /\ since \in [Reqs -> 0..tokens]
    /\ fresh \subseteq Registered
    /\ joined \subseteq Invites \X Reqs
    /\ promised \in [Invites -> SUBSET Roles]
    /\ ended \subseteq Invites

\* An organization with all its roles, some accounts, of which some are members
\* without any role, and no invitation.
Init ==
    /\ live = TRUE
    /\ address \in {a \in [Users -> Emails \cup {None}] :
                       \A u, v \in Users : a[u] = a[v] => u = v \/ a[u] = None}
    /\ members \in SUBSET Registered
    /\ holds = [u \in Users |-> {}]
    /\ role = Roles
    /\ invite = [i \in Invites |->
           [state |-> "unused", email |-> None, token |-> 0, expired |-> FALSE]]
    /\ offers = [i \in Invites |-> {}]
    /\ locked = [i \in Invites |-> None]
    /\ tokens = 0
    /\ mailed = {}
    /\ pc = [r \in Reqs |-> "idle"]
    /\ who = [r \in Reqs |-> None]
    /\ addr = [r \in Reqs |-> None]
    /\ todo = [r \in Reqs |-> {}]
    /\ wanted = [r \in Reqs |-> {}]
    /\ target = [r \in Reqs |-> None]
    /\ sent = [r \in Reqs |-> {}]
    /\ since = [r \in Reqs |-> 0]
    /\ fresh = {}
    /\ joined = {}
    /\ promised = [i \in Invites |-> {}]
    /\ ended = {}

Goto(r, next) == pc' = [pc EXCEPT ![r] = next]

Set(f, r, value) == [f EXCEPT ![r] = value]

\* The request is answered, its transaction over; nothing it held is used again.
Answer(r) ==
    /\ Goto(r, "done")
    /\ locked' = [i \in Invites |-> IF locked[i] = r THEN None ELSE locked[i]]
    /\ who' = Set(who, r, None)
    /\ addr' = Set(addr, r, None)
    /\ todo' = Set(todo, r, {})
    /\ wanted' = Set(wanted, r, {})
    /\ target' = Set(target, r, None)
    /\ sent' = Set(sent, r, {})
    /\ since' = Set(since, r, 0)

Refuse(r) == Answer(r) /\ UNCHANGED <<tables, history>>

(***************************************************************************)
(* Inviting and re-sending                                                 *)
(***************************************************************************)

\* An address a membership stands for; deleted accounts are not modelled.
MemberAddress(e) == \E u \in members : address[u] = e

\* One or many addresses and one set of roles, which have to exist before
\* anything is written (ensureRolesAreGrantable).
InviteMany(r, emails, some) ==
    /\ pc[r] = "idle"
    /\ \/ ~(some \subseteq role) /\ Refuse(r)
       \/ /\ some \subseteq role
          /\ Goto(r, "count")
          /\ todo' = Set(todo, r, emails)
          /\ wanted' = Set(wanted, r, some)
          /\ UNCHANGED <<tables, locked, who, addr, target, sent, since, history>>

\* The batch has dealt with an address, and goes on with the others.
NextAddress(r, e) ==
    /\ todo' = Set(todo, r, todo[r] \ {e})
    /\ addr' = Set(addr, r, None)
    /\ Goto(r, IF todo[r] = {e} THEN "mail" ELSE "count")

\* Invite for the next address: the roles again, then, in the transaction, whether
\* a member has the address.  A role that is gone ends the whole batch.
InviteCount(r, e) ==
    /\ pc[r] = "count"
    /\ e \in todo[r]
    /\ \/ ~(wanted[r] \subseteq role) /\ Refuse(r)
       \/ /\ wanted[r] \subseteq role
          /\ IF MemberAddress(e)
                THEN NextAddress(r, e)
                ELSE addr' = Set(addr, r, e) /\ Goto(r, "insert") /\ UNCHANGED todo
          /\ UNCHANGED <<tables, locked, who, wanted, target, sent, since, history>>

\* Mutant: only outstanding rows are looked at, without an index.
HasOutstandingRow(e) ==
    \E i \in Invites : /\ invite[i].state = "open"
                       /\ ~invite[i].expired
                       /\ invite[i].email = e

\* A row for the address is there already, whatever has become of it.
HasRow(e) == \E i \in Invites : Present(i) /\ invite[i].email = e

\* INSERT INTO invitations and invitation_roles, and the commit.
InviteInsert(r, i) ==
    /\ pc[r] = "insert"
    /\ \/ /\ HasRow(addr[r])
          /\ NextAddress(r, addr[r])
          /\ UNCHANGED <<tables, locked, who, wanted, target, sent, since, history>>
       \/ /\ ~HasRow(addr[r])
          /\ ~(wanted[r] \subseteq role)
          /\ Refuse(r)
       \/ /\ ~HasRow(addr[r])
          /\ wanted[r] \subseteq role
          /\ invite[i].state = "unused"
          /\ tokens < MaxTokens
          /\ tokens' = tokens + 1
          /\ invite' = [invite EXCEPT ![i] =
                 [state |-> "open", email |-> addr[r], token |-> tokens', expired |-> FALSE]]
          /\ offers' = Set(offers, i, wanted[r])
          /\ promised' = Set(promised, i, wanted[r])
          /\ sent' = Set(sent, r, sent[r] \cup {tokens'})
          /\ NextAddress(r, addr[r])
          /\ UNCHANGED <<live, address, members, holds, role, mailed, locked, who,
                         wanted, target, since, fresh, joined, ended>>

\* The messages go out when all addresses are done; one that fails is only logged.
Mail(r, some) ==
    /\ pc[r] = "mail"
    /\ mailed' = mailed \cup some
    /\ Answer(r)
    /\ UNCHANGED <<live, address, members, holds, role, invite, offers, tokens, history>>

\* ReissueInvitation: under the row's lock, a new token and a new expiry.
Reissue(r, i) ==
    /\ pc[r] = "idle"
    /\ locked[i] = None
    /\ \/ invite[i].state # "open" /\ Refuse(r)
       \/ /\ invite[i].state = "open"
          /\ tokens < MaxTokens
          /\ tokens' = tokens + 1
          /\ invite' = [invite EXCEPT ![i] =
                 [state |-> "open", email |-> @.email, token |-> tokens', expired |-> FALSE]]
          /\ sent' = Set(sent, r, {tokens'})
          /\ Goto(r, "mail")
          /\ UNCHANGED <<live, address, members, holds, role, offers, mailed, locked,
                         who, addr, todo, wanted, target, since, history>>

(***************************************************************************)
(* Accepting                                                               *)
(***************************************************************************)

\* InvitationByToken.
Pending(t) == {i \in Invites : /\ live
                               /\ invite[i].state = "open"
                               /\ invite[i].token = t
                               /\ ~invite[i].expired}

\* accountEmail: the address comes from the account.
ReadAddress(r, u) ==
    /\ pc[r] = "idle"
    /\ u \in Registered
    /\ Goto(r, "lookup")
    /\ who' = Set(who, r, u)
    /\ addr' = Set(addr, r, address[u])
    /\ UNCHANGED <<tables, locked, todo, wanted, target, sent, since, history>>

\* The token of some message, and the address has to match.
AcceptLookup(r, t) ==
    /\ pc[r] = "lookup"
    /\ LET mine == {i \in Pending(t) : invite[i].email = addr[r]}
       IN  \/ mine = {} /\ Refuse(r)
           \/ \E i \in mine :
                 /\ target' = Set(target, r, i)
                 /\ Goto(r, "lock")
                 /\ UNCHANGED <<tables, locked, who, addr, todo, wanted, sent, since, history>>

\* SELECT ... FOR UPDATE of a row that is not accepted; its token, expiry and
\* address are not looked at again.
AcceptLock(r) ==
    /\ pc[r] = "lock"
    /\ locked[target[r]] = None
    /\ \/ invite[target[r]].state # "open" /\ Refuse(r)
       \/ /\ invite[target[r]].state = "open"
          /\ locked' = [locked EXCEPT ![target[r]] = r]
          /\ Goto(r, "check")
          /\ UNCHANGED <<tables, locals, since, history>>

\* The organization is counted inside the transaction.
AcceptCheck(r) ==
    /\ pc[r] = "check"
    /\ \/ ~live /\ Refuse(r)
       \/ live /\ Goto(r, "roles") /\ UNCHANGED <<tables, locked, locals, since, history>>

\* Mutant: the invitee chooses.
AcceptChosenRoles(r) ==
    /\ pc[r] = "roles"
    /\ \E some \in SUBSET role : wanted' = Set(wanted, r, some)
    /\ Goto(r, "join")
    /\ UNCHANGED <<tables, locked, who, addr, todo, target, sent, since, history>>

\* The roles come from the offer.
AcceptRoles(r) ==
    /\ pc[r] = "roles"
    /\ wanted' = Set(wanted, r, offers[target[r]])
    /\ Goto(r, "join")
    /\ UNCHANGED <<tables, locked, who, addr, todo, target, sent, since, history>>

\* Mutant: accepted_at is not written.
JoinLeavingItOpen(r) ==
    /\ pc[r] = "join"
    /\ LET whole == /\ who[r] \notin members
                    /\ wanted[r] \subseteq role
                    /\ Present(target[r])
       IN  \/ ~whole /\ Refuse(r)
           \/ /\ whole
              /\ members' = members \cup {who[r]}
              /\ holds' = Set(holds, who[r], wanted[r])
              /\ joined' = joined \cup {<<target[r], r>>}
              /\ Answer(r)
              /\ fresh' = fresh \ {who[r]}
              /\ UNCHANGED <<live, address, role, invite, offers, tokens, mailed, promised, ended>>

\* INSERT INTO memberships, its roles, accepted_at on a row that has to be there,
\* and the commit.  A member already, or a role that is gone, rolls all of it back.
Join(r) ==
    /\ pc[r] = "join"
    /\ LET whole == /\ who[r] \notin members
                    /\ wanted[r] \subseteq role
                    /\ Present(target[r])
       IN  \/ ~whole /\ Refuse(r)
           \/ /\ whole
              /\ members' = members \cup {who[r]}
              /\ holds' = Set(holds, who[r], wanted[r])
              /\ invite' = [invite EXCEPT ![target[r]].state = "accepted"]
              /\ joined' = joined \cup {<<target[r], r>>}
              /\ Answer(r)
              /\ fresh' = fresh \ {who[r]}
              /\ UNCHANGED <<live, address, role, offers, tokens, mailed, promised, ended>>

(***************************************************************************)
(* Declining and withdrawing                                               *)
(***************************************************************************)

\* DeclineInvitation, whoever holds the token.
Decline(r, t) ==
    /\ pc[r] = "idle"
    /\ \/ Pending(t) = {} /\ Refuse(r)
       \/ \E i \in Pending(t) :
             /\ target' = Set(target, r, i)
             /\ Goto(r, "find")
             /\ UNCHANGED <<tables, locked, who, addr, todo, wanted, sent, since, history>>

\* The first statement of either transaction: by id, not accepted, no lock.
Find(r, i) ==
    \/ invite[i].state # "open" /\ Refuse(r)
    \/ /\ invite[i].state = "open"
       /\ target' = Set(target, r, i)
       /\ Goto(r, "delete")
       /\ UNCHANGED <<tables, locked, who, addr, todo, wanted, sent, since, history>>

FindDeclined(r) == pc[r] = "find" /\ Find(r, target[r])

Withdraw(r, i) == pc[r] = "idle" /\ Find(r, i)

\* Mutant: an offer is taken back by ending its time.
DeleteByExpiring(r) ==
    /\ pc[r] = "delete"
    /\ locked[target[r]] = None
    /\ invite' = [invite EXCEPT ![target[r]].expired = TRUE]
    /\ ended' = IF invite[target[r]].state = "open" THEN ended \cup {target[r]} ELSE ended
    /\ Answer(r)
    /\ UNCHANGED <<live, address, members, holds, role, offers, tokens, mailed, fresh, joined,
                         promised>>

\* DELETE by id: waits for the row's lock, and then asks no more than the id.
Delete(r) ==
    /\ pc[r] = "delete"
    /\ locked[target[r]] = None
    /\ \/ ~Present(target[r]) /\ Refuse(r)
       \/ /\ Present(target[r])
          /\ invite' = [invite EXCEPT ![target[r]] =
                 [state |-> "gone", email |-> None, token |-> 0, expired |-> FALSE]]
          /\ offers' = Set(offers, target[r], {})
          /\ ended' = IF invite[target[r]].state = "open" THEN ended \cup {target[r]}
                      ELSE ended
          /\ Answer(r)
          /\ UNCHANGED <<live, address, members, holds, role, tokens, mailed, fresh, joined,
                         promised>>

(***************************************************************************)
(* Registering                                                             *)
(***************************************************************************)

\* users.Create.  An address that is taken is answered like a success.
Register(r, u, e) ==
    /\ pc[r] = "idle"
    /\ \/ /\ \E v \in Registered : address[v] = e
          /\ Answer(r)
          /\ UNCHANGED <<tables, history>>
       \/ /\ \A v \in Registered : address[v] # e
          /\ u \notin Registered
          /\ address' = Set(address, u, e)
          /\ who' = Set(who, r, u)
          /\ addr' = Set(addr, r, e)
          /\ since' = Set(since, r, tokens)
          /\ fresh' = fresh \cup {u}
          /\ Goto(r, "rows")
          /\ UNCHANGED <<live, members, holds, role, invite, offers, tokens, mailed, locked,
                         todo, wanted, target, sent, joined, promised, ended>>

\* InvitationsForEmail: offers to e that can still be taken up.
OfferedTo(e) == {i \in Invites : /\ invite[i].state = "open"
                                 /\ invite[i].email = e
                                 /\ ~invite[i].expired}

\* The registration is over, and its account has what it was to have.
LookedAfter(r) ==
    /\ fresh' = fresh \ {who[r]}
    /\ Answer(r)
    /\ UNCHANGED <<joined, promised, ended>>

\* Mutant: only memberships are looked at.
CheckMemberships(r) ==
    /\ pc[r] = "rows"
    /\ \/ /\ ~live \/ who[r] \in members
          /\ LookedAfter(r)
          /\ UNCHANGED tables
       \/ /\ live
          /\ who[r] \notin members
          /\ Goto(r, "plain")
          /\ UNCHANGED <<tables, locked, locals, since, history>>

\* EnsureDefaultOrganization and hasRowIn.  Where this organization is gone there is
\* another by now; but its offers are still listed, and looking it up for one of them
\* is an error that ends the registration.
CheckRows(r) ==
    /\ pc[r] = "rows"
    /\ LET waiting == OfferedTo(addr[r]) # {}
       IN  \/ /\ ~live /\ waiting
              /\ Refuse(r)
           \/ /\ IF live THEN who[r] \in members \/ waiting ELSE ~waiting
              /\ LookedAfter(r)
              /\ UNCHANGED tables
           \/ /\ live /\ who[r] \notin members /\ ~waiting
              /\ Goto(r, "plain")
              /\ UNCHANGED <<tables, locked, locals, since, history>>

\* AddMember, with the role every organization keeps for plain members; being one
\* already is no error.
JoinPlain(r) ==
    /\ pc[r] = "plain"
    /\ members' = members \cup {who[r]}
    /\ LookedAfter(r)
    /\ UNCHANGED <<live, address, holds, role, invite, offers, tokens, mailed>>

(***************************************************************************)
(* What other actors do                                                    *)
(***************************************************************************)

\* Seven days pass.
Expire(i) ==
    /\ invite[i].state = "open"
    /\ ~invite[i].expired
    /\ invite' = [invite EXCEPT ![i].expired = TRUE]
    /\ UNCHANGED <<live, address, members, holds, role, offers, tokens, mailed, locked,
                   pc, locals, since, history>>

\* Under the organization's lock; the cascade takes the role out of every offer.
DeleteRole(q) ==
    /\ live
    /\ q \in role
    /\ \A u \in Users : q \notin holds[u]
    /\ role' = role \ {q}
    /\ offers' = [i \in Invites |-> offers[i] \ {q}]
    /\ UNCHANGED <<live, address, members, holds, invite, tokens, mailed, locked, pc,
                   locals, since, history>>

DeleteOrganization ==
    /\ live
    /\ live' = FALSE
    /\ UNCHANGED <<address, members, holds, role, invite, offers, tokens, mailed, locked,
                   pc, locals, since, history>>

\* A member leaves or is removed; no invitation is touched.
RemoveMember(u) ==
    /\ live
    /\ u \in members
    /\ members' = members \ {u}
    /\ holds' = Set(holds, u, {})
    /\ UNCHANGED <<live, address, role, invite, offers, tokens, mailed, locked, pc, locals,
                   since, history>>

\* An email change takes effect.
ChangeEmail(u, e) ==
    /\ u \in Registered
    /\ \A v \in Users : address[v] # e
    /\ address' = Set(address, u, e)
    /\ UNCHANGED <<live, members, holds, role, invite, offers, tokens, mailed, locked, pc,
                   locals, since, history>>

\* The client hangs up, a statement fails or the process stops: an open transaction
\* is rolled back, what a batch committed stays.
Abandon(r) ==
    /\ pc[r] \notin {"idle", "done"}
    /\ Refuse(r)

(***************************************************************************)
(* The specification                                                       *)
(***************************************************************************)

InviteStep(r) ==
    \/ \E emails \in SUBSET Emails \ {{}}, some \in SUBSET Roles : InviteMany(r, emails, some)
    \/ \E e \in Emails : InviteCount(r, e)
    \/ \E i \in Invites : InviteInsert(r, i)
    \/ \E some \in SUBSET sent[r] : Mail(r, some)
    \/ \E i \in Invites : Reissue(r, i)

AcceptStep(r) ==
    \/ \E u \in Users : ReadAddress(r, u)
    \/ \E t \in mailed : AcceptLookup(r, t)
    \/ AcceptLock(r)
    \/ AcceptCheck(r)
    \/ AcceptRoles(r)
    \/ Join(r)

EndStep(r) ==
    \/ \E t \in mailed : Decline(r, t)
    \/ FindDeclined(r)
    \/ \E i \in Invites : Withdraw(r, i)
    \/ Delete(r)

RegisterStep(r) ==
    \/ \E u \in Users, e \in Emails : Register(r, u, e)
    \/ CheckRows(r)
    \/ JoinPlain(r)

OthersStep ==
    \/ \E i \in Invites : Expire(i)
    \/ \E q \in Roles : DeleteRole(q)
    \/ DeleteOrganization
    \/ \E u \in Users : RemoveMember(u)
    \/ \E u \in Users, e \in Emails : ChangeEmail(u, e)

Next ==
    \/ \E r \in Reqs :
          InviteStep(r) \/ AcceptStep(r) \/ EndStep(r) \/ RegisterStep(r) \/ Abandon(r)
    \/ OthersStep

Spec == Init /\ [][Next]_vars

(***************************************************************************)
(* Properties                                                              *)
(***************************************************************************)

\* However many requests present a link at once, and whoever is removed or changes
\* their address in between, an invitation makes one membership (AcceptInvitation's
\* FOR UPDATE and accepted_at), and while no row says it was spent, none.
OneMembershipPerInvitation ==
    \A i \in Invites :
        /\ \A r, s \in Reqs : <<i, r>> \in joined /\ <<i, s>> \in joined => r = s
        /\ invite[i].state = "open" => \A r \in Reqs : <<i, r>> \notin joined

\* Once a refusal or a withdrawal has been answered, nobody joins by that offer, not
\* even a request that had found it before (the row's deletion waits for its lock).
EndedOfferAdmitsNobody ==
    [][\A i \in ended, r \in Reqs : <<i, r>> \in joined' => <<i, r>> \in joined]_vars

\* A membership starts with the roles its invitation was made with, all of them that
\* still exist and no other: neither the invitee nor a deletion on the way can make
\* it more or less (invitation_roles, ownedRoleIDs).
JoinsWithWhatWasOffered ==
    [][\A i \in Invites, r \in Reqs :
          <<i, r>> \in joined' \ joined
              => holds'[who[r]] = promised[i] \cap role]_vars

\* A registration makes nobody a plain member who has an offer that stood when the
\* account was made and still stands: the offer could not be accepted any more, and
\* they would have less than they were offered (JoinDefaultOrganization, hasRowIn).
OfferIsNotPreempted ==
    [][\A r \in Reqs :
          JoinPlain(r) /\ who[r] \notin members
              => \A i \in OfferedTo(addr[r]) : invite[i].token > since[r]]_vars

\* internal/api/v1/users.go:244: a new account joins the default organization, so that
\* it can do something.  Who asks again for an address and is told that all is well has
\* an account that was looked after, or soon will be.
RetryMeansLookedAfter ==
    [][\A r \in Reqs, u \in Registered :
          Register(r, u, address[u]) /\ u \in fresh
              => \E s \in Reqs : who[s] = u /\ pc[s] \in {"rows", "plain"}]_vars

=============================================================================
