# Verification of the multi-tenant service

TLA+ specifications of the service's own logic (`src/internal`), the TLC configurations that
check them on small instances, and theorems that TLAPS proves for instances of every size.

The service is an HTTP API in Go over PostgreSQL. It has one process with many request
goroutines and no background jobs; several processes may share the database. A request therefore is a short
program whose steps are SQL statements and transactions, and between any two of them other requests commit. That
is where the rules of this system can go wrong, and it is what the modules model: **every action is one
statement or one transaction of the code, every local variable of a request is what the code remembers from a
row it read earlier, and a request may be abandoned between any two steps** (the client hangs up, a
statement fails, the process stops).

Transactions run under READ COMMITTED, PostgreSQL's default (`store/repositories/enttx.go` asks for
nothing else): a statement sees what was committed when it began, its effects become visible when the transaction
commits, and an UPDATE or DELETE that meets a locked row waits and looks at it again. The modules name the cases
where two statements of one transaction see different states as separate actions (`...Begin`, `...Commit`).

## 1. The system

| Part | State it keeps | Operations | Talks to |
|---|---|---|---|
| Sign-in, two-factor, sessions (`domain/user/sign_in.go`, `two_factor.go`, `password_change.go`, `api/v1/sessions.go`) | `users.password_hash`, `session_epoch`, `two_factor_enabled`; `devices`; `two_factor_challenges`; `login_events`; the tokens clients hold | sign in, verify a code, change the password, sign out everywhere, revoke a device, switch two-factor | mail, bearer check |
| Bearer authentication (`api/middleware.go`) | none | accept or refuse a token | users, devices |
| Password reset, email change (`domain/user/service.go`, `email_change.go`) | `password_resets`, `email_changes`, `users.email` | ask for a code, redeem it | mail |
| Account registration and administration (`api/v1/users.go`, `platform.go`) | `users` | register (and join the default organization), suspend, restore, delete | devices, memberships, invitations |
| Organizations, memberships, roles (`domain/orgs/service.go`, `provision.go`, `leave.go`) | `organizations`, `memberships`, `membership_roles`, `roles`, `role_permissions` | suspend, remove, re-role, leave, appoint, create/change/delete roles, delete the organization | authorization |
| Authorization (`domain/authz`, `api/authz.go`) | none: resolved from the tables on every request | resolve a grant, `EnsureCanAffect`, `EnsureCanGrant` | every handler |
| Invitations (`domain/orgs/invitation.go`, `invite_many.go`) | `invitations`, `invitation_roles` | invite one or many, re-send, withdraw, accept, decline | memberships, mail |
| System roles (`domain/orgs/system_roles.go`) | `user_system_roles` | assign, revoke, list | accounts |
| Files and avatars (`domain/files`, `filestore`) | `files` rows and blobs on disk, `users.avatar_id` | upload, download, delete, set and remove an avatar | virus scanner |
| Rate limiter (`api/limit.go`) | token buckets in memory | allow or refuse | all routes |
| bcrypt semaphore (`domain/user/service.go:115`) | a counted set of slots | acquire, release | sign-in and every password proof |
| Audit log | `authz_events`, `login_events` | append in the transaction of the change, list | |
| Mail, telemetry, logging, configuration, i18n, problem documents, seeding, generated client, web client | nothing the rules depend on | | |

### What is hard here

* **Rows read before, used after.** `SignIn` reads the account, spends a quarter of a second in bcrypt, writes a device,
  a challenge, a login event, and then mints a token from the row it read first. The rank of a member and
  the permissions of a role are read before the transaction that relies on them.
* **Two requests with the same code.** Right, wrong and late answers to one emailed code overlap, with a counter that must
  not lose an increment and a code that must be spent once.
* **Two requests that each leave the other as the last owner.** Only a lock both of them take prevents it.
* **READ COMMITTED.** A DELETE does not see rows an overlapping transaction is about to commit, so "replace" is not atomic
  unless something serialises it.
* **Rows that outlive what they refer to.** Accounts and organizations are soft-deleted; memberships, challenges and
  codes stay.
* **Two stores.** A file is a blob on disk and a row in the database, with no transaction around both; a new account and its
  membership are two transactions. Something can fail, or the process stop, in between.
* **Time.** The rate limiter reads the clock before it takes its mutex, so its clock may run backwards; buckets are thrown away.
* **Waiting.** Changes to one organization queue for one row, password hashes for one pool of slots.

`PROJECT.json` lists each hazard at its line, with the property that covers it, or the reason why none does.

### What makes each part correct

* *Sessions*: a usable token always stands for the current password; a refused token stays refused; a code opens one session
  and none after the cap; trust is earned; no token without the second factor when it was asked for.
* *Account codes*: the cap is not exceeded, spent stays spent, effect and spending commit together, one live account per
  address, the newest code supersedes, a code proves the mailbox it lands in.
* *Membership*: an organization keeps an owner; nobody acts on a superior or hands out what they do not hold; a role in use is
  not deleted; a role grants what was last asked; whoever waits for the lock gets an answer.
* *Invitations*: one offer makes one membership, with the roles offered; a refused or withdrawn offer admits nobody; a registration does
  not pre-empt an offer.
* *System roles*: revoking one's own role leaves somebody who can grant it back (the code does not keep this, section 4).
* *Files*: what was answered to be stored is whole, what was answered to be deleted is gone, and a deletion that failed can be repeated;
  neither the disk nor a stop leaves a photo that cannot be shown or a row without its blob; nothing is left behind unless something failed.
* *Limiter*: no stretch of time lets more pass than a full bucket and its refill, whatever is collected.
* *Semaphore*: no slot is lost, none idles beside a queue, whoever waits is answered.

## 2. The modules

| Module | What it is |
|---|---|
| `Sessions` | accounts, devices, two-factor codes and the requests that sign in, verify, and act with a token |
| `AccountCodes` | password reset and email change codes, with registration and deletion around them |
| `Membership` | one organization: members, roles, permissions, the lock and the guards |
| `Invitations` | offers of membership in one organization, and new accounts that join it |
| `SystemRoles` | who holds the installation-wide role |
| `Files` | blobs and rows of files, photos of accounts |
| `Limiter` | token buckets with a clock |
| `HashSlots` | the channel of bcrypt slots |
| `TokenGate` | the abstract specification of what signing in promises |
| `SessionsGate` | the refinement mapping: `Sessions` implements `TokenGate` |
| `SessionsProofs`, `AccountCodesProofs`, `MembershipProofs`, `InvitationsProofs`, `FilesProofs`, `LimiterProofs`, `HashSlotsProofs` | the theorems about each of these modules and their proofs |
| `SessionsGateProofs` | the proof of the refinement |
| `MCSessions`, `MCAccountCodes`, `MCMembership`, `MCInvitations`, `MCSystemRoles`, `MCFiles`, `MCLimiter`, `MCHashSlots` | symmetry sets and small constant values for TLC |

How the parts meet: `AccountCodes`' resets appear in `Sessions` as `OthersStep` (a new password and a new epoch), `Invitations`' acceptance
in `Membership` as `AcceptInvitation`, and `Membership`'s removals, role deletions and the deletion of the organization in `Invitations` as
`OthersStep`. Each of these stands-in allows at least what the other module does.

Each specification has the same build: the database tables first, then one function per local variable of a request (indexed
by `Reqs`), a program counter `pc`, and history variables that only properties read. A finished request forgets what it held.

### Sessions

* *Tables.* `user` (password, suspended, deleted, two-factor), `epoch` (`session_epoch`), `device`, `challenge`, `logins`. A hash
  is the password it stands for; a device token is the device it names; a code is the number of its row, so that
  comparing hashes is equality. `stamped` gives challenges their order of creation.
* *Requests.* `seen` is the `ent.User` a handler holds, plus the password it proved; `dev`, `ch`, `old`, `flag` are the device, the
  challenge, the outstanding challenges a DELETE found, and whether the device was trusted when it was read. A request in
  `pc = "issued"` **is** the token it was answered with (`auth.Session`: subject, device, epoch), which any request may present.
* *Actions.* `SignInStep`: password comparison, recognising or creating the device, touching it, replacing
  the challenge (the DELETE's snapshot and the commit apart), recording and issuing. `VerifyStep`: account, device, code, then
  counting a miss or spending the code, then re-reading the device. `AccountStep`: the two reads of the bearer check, password change, sign-out everywhere,
  revoking a device, two-factor on and off. `OthersStep`: suspension, restoration, deletion, a reset that takes effect, a code that
  expires. `Abandon`: a request stops where it is.

### AccountCodes

* *Tables.* `account` (state, password, address, epoch), `code` (both kinds, numbered by creation, resets first), and `mail`, the set of
  messages delivered.
* *Actions.* `ResetStep` and `ChangeStep`, statement by statement: look up, replace (two actions), read back the address
  (`PendingEmailChange`), mail; then read the newest outstanding code and compare it, count a miss, or spend it with its
  effect. `OthersStep`: `Create`, `DeleteUser`, `Expire`.
* *What a guess is.* A submitted code is the number of the row it was mailed for or `None`; any request may submit any of them,
  since whoever knows a code may send it twice.

### Membership

* *Tables.* `live` (organization not deleted), `retired` (accounts deleted), `member`, `holds` (`membership_roles`), `role`,
  `grants` (`role_permissions`, with the request that inserted each row, so that a DELETE's snapshot can be told from later rows).
* *The lock.* `lock` is the holder of the organization row `FOR UPDATE` (`lockOrganization`). The INSERT of a membership or a role takes
  a `KEY SHARE` lock on the same row through its foreign key (`migrations/20260818122056_baseline.sql:134,186`), which `FOR UPDATE` conflicts
  with: so `Insert` and `CreateRole` wait for `lock = None`, although no line of Go says so. That is what makes
  `DeletedRoleIsUnheld` hold against invitations; `InsertWithoutWaiting` shows it. The soft delete is an UPDATE of that row and waits too.
  `ReplaceRolePermissions` touches neither.
* *Actions.* `Authorize` (resolve the grant; it is a snapshot from here on), the rules outside the transaction (`CheckMember`,
  `CheckRoles`, `CheckPermissions`, `CheckDeletedRole`, `CheckCreateRole`, `Leave`, `AppointOwner`, `GrantOwnership`), the
  transaction (`Lock`, `Guard`, and one action per change, or `Rollback`), the transactions without the lock, and `DeleteUser`
  and `AcceptInvitation` by others.
* *Permissions* are the eight that the modelled operations ask for; owner has all of them, admin all but `organization.delete`,
  as in `domain/authz/role.go`. `member` and `viewer` grant none of the eight, so holding them is like holding nothing.

### Invitations

* *Tables.* `address` (`None` before an account is registered), `members`, `holds`, `role`, `invite` (the row, with its token and whether
  its time has run out), `offers` (`invitation_roles`). A token is its number, so comparing hashes is equality; `mailed` are those
  that reached somebody, and any request may present any of them.
* *Rows.* `HasRow` is the unique index on organization and address: it counts accepted and expired rows too. `locked` is
  the holder of an invitation's row `FOR UPDATE`; the DELETE of a withdrawal waits for it, its first SELECT does not.
* *Actions.* `InviteStep`: a batch address by address (`InviteCount`, `InviteInsert`), each its own transaction, the mails
  at the end (`Mail`, any of which may fail); `Reissue`. `AcceptStep`: address, token, lock, organization, roles, insertion, statement by statement.
  `EndStep`: declining and withdrawing. `RegisterStep`: the account (`Register`), whether it has a membership or an offer (`CheckRows`, which
  errs over an offer of the deleted organization), the membership (`JoinPlain`). `OthersStep`: time, roles deleted, the organization deleted, members removed, addresses changed.
* *History.* `since` and `fresh` let properties tell offers that stood before a registration from later ones, and accounts nobody
  has looked after yet.

### SystemRoles

`Authorize` is the bearer check and `authorizeSystem` with what the handler compares at once; `Check` is `lastHolderOf`, which the code runs
only for the caller's own role and outside the DELETE's transaction; then one action per statement that changes `user_system_roles` or
`users`.

### Files

* *Stores.* `blob` and `row` are sets of ids; `avatar` is `users.avatar_id`, whose foreign key sets it to NULL when the row goes
  (`DropRow`). An id is used once.
* *Actions* are single accesses to either store, in the code's order, each with its errors and what the code does then:
  compensate (`Unput`, `Unrow`), report, or drop the error (`RemovePrevious`, `DropPrevious`). `Crash` stops a request anywhere.
* *Errors.* `Fail` is an access without effect. A write of the database may also take effect and be answered with an error (`Err` with the
  effect beside it, in `Insert`, `Point`, `Clear` and `Drop`): the answer to its COMMIT is lost, or the client hangs up. A hang-up ends the
  context of the statements that follow, so the row of a photo stays (`Unrow`), but not that of `os.Remove`, so its blob goes (`Unput`).
* *History.* `stored` are files whose upload was answered with success, `parting` those whose removal was begun by a deletion or a replacement
  (not by a compensation), `gone` those whose deletion was answered; `stranded` are files of uploads that the database failed, with a row it
  inserted without saying so or did not take back; `disturbed` says that something failed or that two changes of one photo overlapped.

### Limiter and HashSlots

`Limiter` is `Allow` in two actions, because the clock is read before the mutex is taken (`Arrive`, `Allow`), and `Tick`.
`HashSlots` is `acquire` (`Ask`, `Select`, `GiveUp`), the hash with its deferred receive (`Hash`), and clients that come and hang up. A
full channel keeps its senders in a queue, and a receive hands the place to the first of them: that is the runtime's rule for
buffered channels, and what nobody being overtaken for ever rests on. `late` is history: the requests whose context had ended before
they asked for a place, which `acquire` must turn away at its first check.

### TokenGate and SessionsGate

`TokenGate` knows accounts with a password and tokens that are not issued, open or shut. A token is issued for the current password or for an unused
code, a new password shuts every token of its account in the same step, and no step opens a shut one. `SessionsGate` maps an issued request of
`Sessions` to a token, open exactly when `requireBearer` would accept it, and `KeepsItsPromise` is the abstract specification under that
mapping: every statement of every request is one abstract step or none.

### Coarsenings

* Reads that one check makes one after another are one action in `Membership` (a member and its permissions; the roles of a
  request and theirs). The violations there do not need the gap between them, and the guarantees do not rest on these reads.
* The effects of a transaction appear at its commit. Where a row lock orders two statements (an UPDATE by id waits
  for the transaction that updated the row), the second is taken to run after the first one's commit.
* Recording a successful sign-in and minting its token are one action: nothing between them reads a table.
* A row is given its `created_at` when its transaction's INSERT is modelled, at the commit.
* `Expire` lets any code lapse at any moment; lapse times are not ordered. In the trace of `unproven_address` the newer of two
  codes lapses first; spending it instead, which the model also allows, has the same effect and needs no such order.
* The protected account and the protected default organization, which refuse deletion, are left out: every account and
  organization here may be deleted, which only adds behaviour.
* In `Membership`, acceptance of an invitation is the insertion of a membership with any set of existing roles, at any
  time, deleted organization or not; the invitation's row and its lock are in `Invitations`.
* In `Invitations`, the insertion of an invitation, its re-sending and the deletion of a role are one action each: the first two are one transaction that conflicts
  with the third on the organization's row. `CheckRows` reads the organization, memberships and offers at once; an offer of the deleted organization makes it an error, as
  looking that organization up does. Accounts are not deleted
  and the default organization exists; several accounts share one organization.
* In `SystemRoles` there is one role, as in the code's catalog, and every account has an administrator's password or none.
* In `Files` an access to the disk that fails has had no effect, and a statement that is answered with an error has taken effect by then or never
  does. Deleting an organization is left out: its files stay where they are, reachable for nobody. In the other modules a request whose
  write took effect and was answered with an error ends there, as `Abandon` lets it: no code there takes anything back.
* In `Limiter` time is counted in the units that refill one token, one limiter stands for all (they share nothing), and nobody is kept from the
  mutex for longer than half the time a bucket takes to fill (`LagAssumption`): that is half a minute, whatever the limit. With a longer lag
  the rule is false: a request with an old reading of the clock sets `last` back, even one that is refused; the bucket then looks idle for
  longer than it was, is collected, and the fresh one lets more pass than flowed in. TLC shows it with six requests, a burst of two and a lag
  of two; a goroutine that waits so long for this mutex is not a behaviour the program can be held to.
* Answers are `done`, or `ok` and `refused`; which problem document is sent is not modelled.

## 3. The runs

| Run | Instance | Shows |
|---|---|---|
| `sessions` | 1 account, 2 devices, 2 passwords, 3 requests, 2 challenges, cap 1, epoch ≤ 2 | `TypeOK`, `AcceptedTokenProvesCurrentPassword`, `OneCodeOneSession`, `CapHoldsForRedemption`, `TrustIsEarned`, `SecondFactorStands`, `BearerCheckIsLinearizable`, `DeadTokenStaysDead` |
| | | also `KeepsItsPromise`: the refinement of `TokenGate` |
| `account_codes` | 2 accounts, 2 addresses, 2 passwords, 3 requests, 2 resets, 2 changes, cap 2 | `TypeOK`, `OpenCodeIsBelowTheCap`, `RedeemedCodeIsSpent`, `NoTwoAccountsShareAnAddress`, `SpentStaysSpent` |
| `membership` | 2 accounts, 2 membership rows, 1 custom role, 2 requests | `TypeOK`, `LastOwnerIsKept`, `DeletedRoleIsUnheld` |
| `lock_queue` | 2 accounts, 1 row, 2 requests, `FairSpec` | `LockIsPassedOn` |
| `invitations` | 1 account, 2 addresses, 2 invitations, 1 role, 3 requests, 2 tokens | `TypeOK`, `OneMembershipPerInvitation`, `EndedOfferAdmitsNobody`, `JoinsWithWhatWasOffered`, `OfferIsNotPreempted` |
| `files` | 2 accounts and the organization, 3 files, 3 requests | `TypeOK`, `AvatarIsThere`, `RowHasItsBlob`, `StoredIsThere`, `DeletionCanBeRepeated`, `DeletedMeansGone`, `NothingIsLeftBehind` |
| `limiter` | 6 requests, 2 addresses, burst 2, crowd 1, time ≤ 5, lag ≤ 1 | `TypeOK`, `WindowIsKept` |
| `hash_slots` | 4 requests, 2 slots, ≤ 2 hashes each, `FairSpec` | `TypeOK`, `PlacesAreInUse`, `NoHashForTheGone`, `EverybodyIsAnswered` |

Four more runs expect a violation (section 4).

**Why the bounds are enough.** Every hazard above is a race between a read and the write that relies on it, so two requests show
most of them; a third is there to be the token that is presented or the session that was opened before, to miss once more while a right
answer is in flight, or to have issued the invitation two others then contest. Two devices are needed for a code raised for the other device, two
passwords to tell an old one from a new one, two challenges or codes for superseding. `MaxEpoch` = 2 lets a token be ended, another opened and
ended as well. In `membership` two
rows may be owners and contested, or one is inserted while the other is; ids of rows and roles are used once. A cap of one makes the first miss burn a code
and a cap of two makes the counter matter; for two-factor codes theorem `Cap` covers every cap. In `invitations` two addresses let an account move away
from, or to, an offer, and two tokens let an offer be re-sent or a second one be made. In `files` a photo is replaced and its
replacement replaced, or removed, with a file of the organization beside them. In `limiter` six
requests exceed a burst of two by more than what the longest lag can hide, and five units of time let a bucket be idle for more than twice its
refill, which is when it is collected. In `hash_slots` two slots are held and two requests queue, each for a first or a second hash. These arguments are for the
runs only: the theorems (section 5) hold for every instance.

Symmetry is used in every run but `lock_queue` and `hash_slots`, where liveness is checked. Deadlock is checked in `hash_slots`, whose requests
come again and again; everywhere else `CHECK_DEADLOCK FALSE` is set, since the requests of an instance end, and an instance in which all have
ended has nothing left to do.

**Fairness.** Two runs assume any. `lock_queue`: `FairSpec` asks for strong fairness of each request's transaction steps. A
statement that can run does, and a request that waits for the row gets it in its turn, because PostgreSQL grants a row lock to
those queued for it; strong, because the lock may be taken by others in between. `hash_slots`: weak fairness of each request's own steps: a
goroutine that can run does, and bcrypt ends. Waiting in the channel's queue needs no more, because a place is handed on by the
request that gives it back. Neither asks anything of clients, who need neither come nor hang up. All other properties are safety properties.

**Mutants.** Each property of each passing run has a plausible bug of the code beside the definition it replaces (`Mutant:` in the modules)
that breaks it under the same configuration: an epoch that a password change forgets, a code spent by id only, an owner count that
includes deleted accounts, a path that leaves its transaction open, a withdrawal that only lets the offer lapse, a deletion that goes on after the disk failed, a bucket collected as soon as it is full.

## 4. Where the code and its documentation disagree

Four runs expect a violation; each checks one sentence of the repository. Details and quotes are in `PROJECT.json`, "findings".

| Run | What TLC shows |
|---|---|
| `unproven_address` | the address to mail a change code to is read back and may be another request's: an account can move to an address that never received a code |
| `mixed_permissions` | two overlapping replacements of a role's permissions leave the union |
| `last_administrator` | two administrators lose the role by two requests, one of which had seen the other as the remaining holder: nobody is left who can grant it |
| `lost_registration` | a registration that stops between the account and its membership leaves the account belonging to nothing, and registering again is answered like a success |

The models contain further gaps of this kind that no run singles out, because the repository promises nothing about them or they have the same cause:

* a sign-in past its password check creates a device row after the account's deletion revoked the others (its token is refused);
* two overlapping requests for a reset leave two outstanding codes;
* a reset code that was compared still takes effect when another confirmation, or the last permitted guess, spent it meanwhile;
* a member promoted between the rank check and the lock is acted on by somebody who holds less, and a role whose permissions grow between
  check and assignment is assigned by somebody who lacks them;
* appointing a suspended member owner succeeds and restores nobody;
* an organization deleted between the count and the insertion of an acceptance gets a member nobody authorizes any more;
* somebody who accepted an invitation and was removed cannot be invited again, because the unique index counts the accepted row;
* an offer made while its addressee registers cannot be accepted (`hasRowIn`'s comment says so);
* a suspended holder of the system role counts as one who remains (`lastHolderOf`);
* a registration with an open offer of a deleted organization at its address errs after the account was made, and the account belongs to
  nothing: the edge predicate `HasOrganization()` does not hide deleted organizations, although the comment at
  `store/repositories/invitations.go:144-145` says it does, and looking the organization up afterwards finds nothing (`Orgs.invitation`);
* two overlapping changes of one photo may leave a complete file that is nobody's photo, and so may a removal whose later steps fail;
* the compensation of an upload uses the context of the request. When the client hangs up while a photo is attached, the deletion of its
  row is cancelled and that of its blob is not (`domain/files/service.go:417-420`, `filestore/local.go:125`): a row stays without its blob.
  If attaching took effect and only its answer was lost, the account points at that row, and at a photo that cannot be shown, although
  `docs/design/011_files.md:138` takes a set `users.avatar_id` for the presence of a photo. The models contain this: `stranded` names it, and
  `AvatarIsThere` and `RowHasItsBlob` exclude this cause and no other. A stop between blob and row leaves the blob.

## 5. What is proved

Every safety property and every action property that a passing run checks is also a theorem, for every value of the constants that satisfies
the named assumptions. TLC evaluates these assumptions in every run of the module that declares them.

### Sessions

`SessionsProofs` proves, for every set of accounts, devices, passwords and requests and every value of `MaxAttempts`, `MaxEpoch` and
`MaxChallenges`, that `Spec` implies

| Theorem | Property |
|---|---|
| `TypeCorrect` | `TypeOK` |
| `PasswordCorrect` | `AcceptedTokenProvesCurrentPassword` |
| `DeadTokens` | `DeadTokenStaysDead` |
| `OneCode` | `OneCodeOneSession` |
| `Cap` | `CapHoldsForRedemption` |
| `Trust` | `TrustIsEarned` |
| `SecondFactor` | `SecondFactorStands` |
| `Bearer` | `BearerCheckIsLinearizable` |

**Assumptions**: `AttemptsAssumption` (the cap is a positive number), `BoundsAssumption` (the bounds are numbers) and `NoneAssumption` (`None`
is none of the values it stands apart from). TLC evaluates them in every run.

**The argument.** None of the properties is inductive. `IInv` strengthens them with what the code relies on and never writes down:

* `TypeInv`: what a request holds refers to rows that exist (`UserInv`, `DeviceInv`, `CodeInv`), and a code that is still open has
  been missed fewer times than the cap (`AttemptsInv`).
* `EpochInv`: *a snapshot whose epoch is still the account's was taken of an account that is not suspended and whose password is
  still the one that was proved.* This carries `PasswordCorrect`: every write to the password or to `suspended_at` moves the epoch in the same
  UPDATE, and no write moves it back.
* `RowInv`, `InsertInv`: a code's row is written once, by the one request that holds its number; a redeemed code stays consumed.
* `MatchInv`, `HolderInv`: a request about to spend a code compared it with the device it came from; a finished one refers to a redeemed code or none.
* `TrustInv`, `FactorInv`: a device's trust was earned, and whoever acts on having seen a trusted device acts on one that had earned it;
  having earned it is never undone, so the age of the read does not matter.
* `BearerInv`: between the two reads of the bearer check, the token it looks at is still issued, and was good at the first read unless
  its device is revoked by now; revocation is never undone.

The proof goes through two lemmas. `WritersStep` sorts the actions by which table they write and how (`WritesAccount`, `WritesDevice`,
`WritesChallenge`), and `MovesStep` by where they take a request. Each conjunct of `IInv` is then preserved by a lemma
of its own (`EpochStep`, `RowStep`, ..., `BearerStep`) that looks only at the writers it depends on. `NextIInv` collects them, and `Inductive` closes
the argument. `DeadTokens` is an action property and follows from `DeadStep` on a state of `IInv`.

### Files

`FilesProofs` proves, for every set of accounts, files and requests, that `Spec` of `Files` implies

| Theorem | Property |
|---|---|
| `TypeCorrect` | `TypeOK` |
| `PhotoIsThere` | `AvatarIsThere` |
| `RowsHaveBlobs` | `RowHasItsBlob` |
| `StoredStays` | `StoredIsThere` |
| `DeletionRepeats` | `DeletionCanBeRepeated` |
| `DeletedIsGone` | `DeletedMeansGone` |
| `NothingIsLeft` | `NothingIsLeftBehind` |

**Assumption**: `NoneAssumption` (`None` is no account, file or request, and the organization is not an account), evaluated by TLC in the `files` run.

**What `PhotoIsThere` and `RowsHaveBlobs` leave open.** `PhotoIsThere` gives every photo that is pointed at its row, whatever happens, and its blob unless the
file is `stranded`: attaching it took effect but was answered with an error, and then its row was not taken back. `RowsHaveBlobs`
excepts such uploads and removals under way. Uploads that were answered with success are in neither exception: `StoredStays`.

**The argument.** `IInv` has three parts.

* `MakingInv`: *a file that is being made is held by the request that makes it and by nobody else, and it is no photo yet* (`HoldInv`,
  `MakeInv`), and it is as far as its request says (`PlaceInv`); what is stored or deleted has an owner (`OwnedInv`). A file that is
  taken back may be known to others by then, because inserting or attaching it took effect; but its maker has not answered, so it
  is not `stored`, and taking it back breaks no promise.
* `RemovingInv`: *what is about to be removed is no photo any more* (`AwayInv`). A photo becomes an account's only while it is being
  made, so one that was detached or replaced is nobody's for good, however long its removal takes. `AvatarIsThere`, `RowHasItsBlob`,
  `StoredIsThere`, `DeletionCanBeRepeated` and `DeletedMeansGone` are carried along with it.
* `WholeInv`: while nothing has failed and no two changes of one photo overlapped, *each blob has its row or a request that is about to
  give or take it* (`AloneInv`, `UnheldInv`, `HeldInv`, and `StrandedInv`: nothing is stranded). When all requests are over, that is
  `NothingIsLeftBehind`.

`MakingStep`, `RemovingStep`, `AloneStep`, `UnheldStep`, `HeldStep` and `StrandedStep` show that each part is preserved, action by action; `ShapeStep`
and `FlagStep` are the two halves of `TypeOK`.

### Membership

`MembershipProofs` proves, for every set of accounts, membership rows, roles and requests, that `Spec` of `Membership` implies

| Theorem | Property |
|---|---|
| `TypeCorrect` | `TypeOK` |
| `AnAdministratorStays` | `LastOwnerIsKept` |
| `DeletedRolesAreUnheld` | `DeletedRoleIsUnheld` |

**Assumptions**: `NoneAssumption` (`None` is no account, row or request), `RolesAssumption` and `PermissionsAssumption` (the shipped roles are two and
not made here; requests ask for permissions that exist).

**The argument.** `LastOwnerIsKept` and `DeletedRoleIsUnheld` are about single steps. `IInv` says what those steps rely on:

* `LockInv`: *whoever is between its guard and its write holds the organization's row.* So at most one request is.
* `OwnerInv`: *past the guard, whoever stops being an owner leaves another one, unless an owner's account was deleted since.* The guard counted
  two owners; nobody else is past a guard, and the one write without the lock is `DeleteUser`, which sets `overtaken`.
* `RoleInv`: *past the guard, nobody holds the role that is being deleted*, and it is no shipped role. Joining inserts a row that waits for
  the lock, and so cannot bring a holder.
* `RowInv`, `PlaceInv`: a membership is somebody's, and what a request is about at the places where the others need it.

`OwnersStay` and `RolesStay` then look at one step from a state of `IInv`. `TypeOK` includes the uniqueness of memberships and is shown part by part.

### SessionsGate

`SessionsGateProofs` proves, under the assumptions of `Sessions`, that `Spec` of `Sessions` implies

| Theorem | Property |
|---|---|
| `Promise` | `KeepsItsPromise`, the specification `TokenGate` under the mapping of `SessionsGate` |

**The argument.** Seen through the mapping, a step issues one token and changes nothing else (`IssuingRefines`), or touches one account: it
may shut tokens of that account, and if it changes the password it shuts all of them (`OtherStepsRefine`). That no step touches two accounts
is `OneAccount`, that a moved epoch shuts everything is `BumpShuts`, that nothing is opened again is `DeadStep` of `SessionsProofs`. `IInv`
is extended by `EarnedInv`: *a sign-in has proved a password, a verification has not and goes by its code*, so that each token was earned in
exactly one of the two ways `TokenGate` knows. `OneCodeOneSession` supplies that the code was unused, `AcceptedTokenProvesCurrentPassword` that
a token is open only for the password of now.

### AccountCodes

`AccountCodesProofs` proves, for every set of accounts, addresses, passwords and requests and every number of codes and guesses, that `Spec` of
`AccountCodes` implies

| Theorem | Property |
|---|---|
| `TypeCorrect` | `TypeOK` |
| `CapHolds` | `OpenCodeIsBelowTheCap` |
| `RedeemedIsSpent` | `RedeemedCodeIsSpent` |
| `OneAddress` | `NoTwoAccountsShareAnAddress` |
| `SpentForGood` | `SpentStaysSpent` |

**Assumptions**: `AttemptsAssumption` (the cap is a positive number), `BoundsAssumption` and `NoneAssumption`, as in `Sessions`.

**The argument.** `RedeemedCodeIsSpent` and `NoTwoAccountsShareAnAddress` are part of `IInv`, the other two follow from it. The rest of `IInv`
is the life of a row:

* `InsertInv`: *a number belongs to the one request that is about to insert its row, and until then nobody has guessed at it*; `FreshInv` says the
  same of numbers not given yet. So a row starts with nothing missed, and no insertion overwrites one that was spent.
* `RowInv`: what is not consumed was missed fewer times than the cap; what is consumed has a row.
* `CountInv`: *the counter of an open code has counted every miss*, because each miss is recorded by the UPDATE that increments it.
* `HeldInv`: what a request holds refers to an account, an address, and a code of the kind its place is about.

`WritersStep` sorts the actions by what they do to the table of codes (inserting, missing, spending, expiring, replacing), and each part is then
preserved by a lemma that looks at these writers only. `AddressStep` shows that
whoever writes an address finds it free in the same statement, which is the unique index.

### Invitations

`InvitationsProofs` proves, for every set of accounts, addresses, rows, roles and requests and every number of tokens, that `Spec` of
`Invitations` implies

| Theorem | Property |
|---|---|
| `TypeCorrect` | `TypeOK` |
| `OneMembership` | `OneMembershipPerInvitation` |
| `EndedForGood` | `EndedOfferAdmitsNobody` |
| `OfferedRoles` | `JoinsWithWhatWasOffered` |
| `OfferKept` | `OfferIsNotPreempted` |

**Assumptions**: `NoneAssumption` (`None` is no account, address, row or request) and `BoundAssumption` (the bound on tokens is a number).

**The argument.** The last three properties are about single steps; `IInv` says what those steps rely on:

* `LockInv`: *from the check to the membership, the row that is being accepted is locked by its request and open.* It leaves `open` only by a
  membership, which has the lock, or by a DELETE, which waits for it.
* `SpentInv`, `EndedInv`: a row that made a membership is accepted or gone for good, and one whose end was answered is gone; neither is open
  again. With `LockInv` this gives `OneMembership` and `EndedForGood`.
* `OfferInv`, `WantedInv`: an offer has the roles it was made with as far as they still exist, and so had it when it was read, so
  whoever joins gets those roles and no others.
* `TokenInv`, `PlainInv`: tokens only grow, so an offer that was not there when a registration looked has a later token than all it saw.

As above, `WritersStep` sorts the actions by what they do to rows, and one lemma for each part follows.

### HashSlots

`HashSlotsProofs` proves, for every finite set of requests and every number of slots and hashes, that `Spec` of `HashSlots` implies

| Theorem | Property |
|---|---|
| `TypeCorrect` | `TypeOK` |
| `PlacesCount` | `PlacesAreInUse` |
| `GoneAreNotServed` | `NoHashForTheGone` |

**Assumptions**: `SlotsAssumption` (there is a slot, and something to hash) and `ReqsAssumption` (a server has finitely many goroutines; otherwise
there would be no counting of those who hash).

**The argument.** `QueueInv`: *the queue is those who wait, each of them once.* Taking the first entry, or an abandoned one, out of it then
takes out exactly one request. It and `PlacesAreInUse` are inductive only together: a place is passed on to one who waits, so the number
that is taken stays the number that hash. `LateInv` says that whoever was gone before it asked has not got beyond asking. `AppendOnce`, `TailOnce`,
`RemoveOnce` and `OnceIsShort` are about sequences without repetition; the library has no such facts.

### Limiter

`LimiterProofs` proves, for every finite set of requests, every set of addresses, every burst, crowd and bound of the clock, that `Spec` of
`Limiter` implies

| Theorem | Property |
|---|---|
| `TypeCorrect` | `TypeOK` |
| `WindowHolds` | `WindowIsKept` |

**Assumptions**: `BurstAssumption` (a bucket holds a token), `ReqsAssumption` as above, `NoneAssumption`, and `LagAssumption`, which the proof
needed to be stronger than first thought (section 2, Coarsenings).

**The argument.** The tokens of a bucket less the moment it was last used, its `Level`, never rise while the bucket stays: the time that fills
the bucket is the time that is taken off, backwards or not, and whoever passes takes one more.

* `WindowInv`: *what passed in a stretch of time has lowered the level by as much; or the bucket is gone, and so much time has passed that a
  fresh one will be at no higher level.*
* `DebtInv`: a level is only as low as requests that passed have made it, none of them later than the clock. This is what makes a bucket
  that was idle for twice its refill safe to throw away.
* `LagInv`: nobody waits for the mutex for longer than `MaxLag`.

**Only model-checked**: `LockIsPassedOn` and `EverybodyIsAnswered`, which are liveness under fairness and out of the prover's reach, and the four expected
violations of section 4. `ENABLED` and induction over data are out of reach too; no theorem here needs them, and no module declares a recursive operator.

## 6. What is not modelled

* *Of the modelled parts*: the profile (name, locale), listings and their paging, the audit rows, CORS, client addresses and locale negotiation
  in the middleware, the creation and renaming of an organization, the renaming of a role. The default organization, whose creation by
  two processes at once a unique index decides, exists from the start. Type detection, encryption and the scanner's protocol
  of files decide only whether an upload goes ahead, which `Upload` leaves open.
* *The catalog of permissions* (`domain/authz`): `Covers`, `EnsureCanAffect` and `EnsureCanGrant` are inclusions of sets of permissions, and
  `Membership` uses them as such. Properties of theirs alone would be properties of set inclusion.
* *No state the rules depend on*: configuration, start-up, telemetry, logging, translations and problem documents, seeding, mail (a message
  arrives or it does not), the web client.
* *The generated client* (`store/ent`): three quarters of the implementation. It builds SQL from the calls the repositories make;
  the modules model the statements, not the builders, which is why the mapped lines are a small share of the whole.
* *The in-memory repositories* are the doubles of the tests. They take one mutex for each call and have none of the interleavings
  modelled here.
* bcrypt is the equality of passwords. Tokens are taken to be unforgeable and their lifetime to be unlimited: an expiry only refuses more.

## 7. The plan

The parts with rules of their own are modelled, and every safety property of the runs is proved. What is left:

1. An abstract specification of what an emailed code promises (one effect, by somebody it was mailed to or who guessed below the cap), with
   `AccountCodes` shown to implement it inside `AccountCodesProofs`, as `Sessions` implements `TokenGate`.
2. The same for an offer of membership and `Invitations`: open, then accepted once or ended.
3. Properties for the hazards that have none, where the code promises something (`PROJECT.json` says for each why it has none).
4. `SystemRoles` has an expected violation only; what it does keep could be stated and proved.
