------------------------------ MODULE Sessions ------------------------------
(***************************************************************************)
(* Sign-in, the emailed second factor, and what makes a token stop working.*)
(*                                                                         *)
(* The state is three database tables (users, devices, two-factor          *)
(* challenges) and the requests in flight.  A request is one HTTP call: it *)
(* reads rows, keeps what it read in its own record while other requests   *)
(* run, and acts on it later.  Every action below is one statement or one  *)
(* transaction of the code; everything between two of them is a place      *)
(* where the client may hang up or the process may die (Abandon).          *)
(*                                                                         *)
(* A finished sign-in leaves its request in pc = "issued": that record IS  *)
(* the token (auth.Session: subject, device and epoch), which any later    *)
(* request may present.                                                    *)
(***************************************************************************)
EXTENDS Integers, FiniteSets

CONSTANTS
    Users,          \* accounts
    Devices,        \* device rows; a device token names the row by fingerprint
    Passwords,      \* what a password hash can stand for
    Reqs,           \* HTTP requests
    None,           \* no account, device, password, code or token
    MaxAttempts,    \* twoFactorMaxAttempts
    MaxEpoch,       \* bound: how often the epoch of an account moves
    MaxChallenges   \* bound: how many two-factor codes are ever issued

ASSUME AttemptsAssumption == MaxAttempts \in Nat \ {0}
ASSUME BoundsAssumption == MaxEpoch \in Nat /\ MaxChallenges \in Nat
ASSUME NoneAssumption == None \notin Users \cup Devices \cup Passwords \cup Reqs \cup Int

VARIABLES
    user,       \* users rows, all columns but the next
    epoch,      \* users.session_epoch
    device,     \* devices rows
    challenge,  \* two_factor_challenges rows, by order of creation
    stamped,    \* how many challenges have been given a created_at
    logins,     \* login_events rows
    pc,         \* where each request is
    seen,       \* what it read of the account, and the password it proved
    dev,        \* the device it is about
    ch,         \* the challenge it read or is inserting
    old,        \* the challenges it found outstanding
    flag,       \* whether the device was trusted, or the switch to be set
    token,      \* the token it presented
    redeemed,   \* history: challenges spent by the right code
    enabledFrom,\* history: devices trusted by turning two-factor on from them
    entitled    \* history: requests whose token was good when first looked at

tables == <<user, epoch, device, challenge, stamped, logins>>
locals == <<seen, dev, ch, old, flag, token>>
history == <<redeemed, enabledFrom, entitled>>
vars == <<tables, pc, locals, history>>

ChallengeIds == 1..MaxChallenges

(***************************************************************************)
(* Rows                                                                    *)
(***************************************************************************)

UserRow == [pw: Passwords, suspended: BOOLEAN, deleted: BOOLEAN, twoFactor: BOOLEAN]

DeviceRow == [owner: Users \cup {None}, trusted: BOOLEAN, revoked: BOOLEAN]

ChallengeRow == [user: Users \cup {None}, device: Devices \cup {None},
                 attempts: 0..MaxAttempts, consumed: BOOLEAN, expired: BOOLEAN]

NoDevice == [owner |-> None, trusted |-> FALSE, revoked |-> FALSE]

NoChallenge == [user |-> None, device |-> None, attempts |-> 0,
                consumed |-> FALSE, expired |-> FALSE]

\* What a request keeps of the account row, and the password it has proved.
Snapshot == [user: Users \cup {None}, epoch: 0..MaxEpoch,
             proved: Passwords \cup {None}, twoFactor: BOOLEAN]

Unseen == [user |-> None, epoch |-> 0, proved |-> None, twoFactor |-> FALSE]

Outcomes == {"success", "bad_password", "locked", "mfa_failed"}

Pcs == {"idle", "device", "touch", "replace", "insert", "record",
        "vdevice", "vcode", "vfail", "vspend", "vreread",
        "bearer", "authorized", "setpassword", "trust", "settwofactor",
        "issued", "done"}

TablesOK ==
    /\ user \in [Users -> UserRow]
    /\ epoch \in [Users -> 0..MaxEpoch]
    /\ device \in [Devices -> DeviceRow]
    /\ challenge \in [ChallengeIds -> ChallengeRow]
    /\ stamped \in 0..MaxChallenges
    /\ logins \subseteq Reqs \X Outcomes

LocalsOK ==
    /\ pc \in [Reqs -> Pcs]
    /\ seen \in [Reqs -> Snapshot]
    /\ dev \in [Reqs -> Devices \cup {None}]
    /\ ch \in [Reqs -> ChallengeIds \cup {None}]
    /\ old \in [Reqs -> SUBSET ChallengeIds]
    /\ flag \in [Reqs -> BOOLEAN]
    /\ token \in [Reqs -> Reqs \cup {None}]

HistoryOK ==
    /\ redeemed \subseteq ChallengeIds
    /\ enabledFrom \subseteq Devices
    /\ entitled \subseteq Reqs

\* Every table holds rows of its shape, and no request holds anything else.
TypeOK == TablesOK /\ LocalsOK /\ HistoryOK

\* Accounts exist and have not been used yet; whether two-factor is on was
\* decided from a device that is not one of Devices.
Init ==
    /\ user \in [Users -> {row \in UserRow : ~row.suspended /\ ~row.deleted}]
    /\ epoch = [u \in Users |-> 0]
    /\ device = [d \in Devices |-> NoDevice]
    /\ challenge = [c \in ChallengeIds |-> NoChallenge]
    /\ stamped = 0
    /\ logins = {}
    /\ pc = [r \in Reqs |-> "idle"]
    /\ seen = [r \in Reqs |-> Unseen]
    /\ dev = [r \in Reqs |-> None]
    /\ ch = [r \in Reqs |-> None]
    /\ old = [r \in Reqs |-> {}]
    /\ flag = [r \in Reqs |-> FALSE]
    /\ token = [r \in Reqs |-> None]
    /\ redeemed = {}
    /\ enabledFrom = {}
    /\ entitled = {}

(***************************************************************************)
(* What the statements read                                                *)
(***************************************************************************)

\* Device.IsTrusted: a device revoked with its account keeps its trusted_at.
IsTrusted(d) == device[d].trusted /\ ~device[d].revoked

\* WHERE user_id = u AND consumed_at IS NULL
Outstanding(u) == {c \in ChallengeIds : challenge[c].user = u /\ ~challenge[c].consumed}

\* ... AND expires_at > now ORDER BY created_at DESC, first row: {} or one row.
ActiveTwoFactorChallenge(u) ==
    LET live == {c \in Outstanding(u) : ~challenge[c].expired}
    IN  {c \in live : \A e \in live : e <= c}

\* requireBearer's verdict on a token, if all its reads happened at once.
Accepted(t) ==
    /\ pc[t] = "issued"
    /\ ~user[seen[t].user].deleted
    /\ epoch[seen[t].user] = seen[t].epoch
    /\ ~user[seen[t].user].suspended
    /\ device[dev[t]].owner = seen[t].user
    /\ ~device[dev[t]].revoked

\* ByEmail or ByID, with the password that has been compared (None if none has).
Read(u, p) == [user |-> u, epoch |-> epoch[u], proved |-> p,
               twoFactor |-> user[u].twoFactor]

Goto(r, next) == pc' = [pc EXCEPT ![r] = next]

\* The request has its answer; what it held is gone.
Answer(r) ==
    /\ Goto(r, "done")
    /\ seen' = [seen EXCEPT ![r] = Unseen]
    /\ dev' = [dev EXCEPT ![r] = None]
    /\ ch' = [ch EXCEPT ![r] = None]
    /\ old' = [old EXCEPT ![r] = {}]
    /\ flag' = [flag EXCEPT ![r] = FALSE]
    /\ token' = [token EXCEPT ![r] = None]

\* One row of the sign-in history.
Record(r, outcome) == logins' = logins \cup {<<r, outcome>>}

(***************************************************************************)
(* POST /v1/sessions                                                       *)
(***************************************************************************)

\* ByEmail, the bcrypt comparison and the suspension check, all on one row that
\* is never read again.
SignInPassword(r, u, p) ==
    /\ pc[r] = "idle"
    /\ \/ /\ user[u].deleted
          /\ Answer(r)
          /\ UNCHANGED logins
       \/ /\ ~user[u].deleted
          /\ user[u].pw # p
          /\ Record(r, "bad_password")
          /\ Answer(r)
       \/ /\ ~user[u].deleted
          /\ user[u].pw = p
          /\ user[u].suspended
          /\ Record(r, "locked")
          /\ Answer(r)
       \/ /\ ~user[u].deleted
          /\ user[u].pw = p
          /\ ~user[u].suspended
          /\ Goto(r, "device")
          /\ seen' = [seen EXCEPT ![r] = Read(u, p)]
          /\ UNCHANGED <<logins, dev, ch, old, flag, token>>
    /\ UNCHANGED <<user, epoch, device, challenge, stamped, history>>

\* Mutant: any known device is taken for a trusted one.
RecogniseDeviceAsTrusted(r, d) ==
    /\ pc[r] = "device"
    /\ device[d].owner = seen[r].user
    /\ \/ /\ device[d].revoked
          /\ Record(r, "locked")
          /\ Answer(r)
       \/ /\ ~device[d].revoked
          /\ Goto(r, "touch")
          /\ dev' = [dev EXCEPT ![r] = d]
          /\ flag' = [flag EXCEPT ![r] = TRUE]
          /\ UNCHANGED <<logins, seen, ch, old, token>>
    /\ UNCHANGED <<user, epoch, device, challenge, stamped, history>>

\* resolveDevice when the presented token names a device of this account.
RecogniseDevice(r, d) ==
    /\ pc[r] = "device"
    /\ device[d].owner = seen[r].user
    /\ \/ /\ device[d].revoked
          /\ Record(r, "locked")
          /\ Answer(r)
       \/ /\ ~device[d].revoked
          /\ Goto(r, "touch")
          /\ dev' = [dev EXCEPT ![r] = d]
          /\ flag' = [flag EXCEPT ![r] = IsTrusted(d)]
          /\ UNCHANGED <<logins, seen, ch, old, token>>
    /\ UNCHANGED <<user, epoch, device, challenge, stamped, history>>

\* resolveDevice otherwise: a fresh token, hence a row nobody else can name.
CreateDevice(r, d) ==
    /\ pc[r] = "device"
    /\ device[d].owner = None
    /\ device' = [device EXCEPT ![d].owner = seen[r].user]
    /\ Goto(r, "touch")
    /\ dev' = [dev EXCEPT ![r] = d]
    /\ UNCHANGED <<user, epoch, challenge, stamped, logins, history,
                   seen, ch, old, flag, token>>

\* Mutant: saving the whole row that was loaded, revoked_at NULL included.
TouchDeviceSavingRow(r) ==
    /\ pc[r] = "touch"
    /\ device' = [device EXCEPT ![dev[r]] =
           [owner |-> seen[r].user, trusted |-> flag[r], revoked |-> FALSE]]
    /\ Goto(r, IF seen[r].twoFactor /\ ~flag[r] THEN "replace" ELSE "record")
    /\ UNCHANGED <<user, epoch, challenge, stamped, logins, locals, history>>

\* The targeted UPDATE of last_seen_at, ip and user agent: no column of
\* DeviceRow.  What is owed next follows from what was read earlier.
TouchDevice(r) ==
    /\ pc[r] = "touch"
    /\ Goto(r, IF seen[r].twoFactor /\ ~flag[r] THEN "replace" ELSE "record")
    /\ UNCHANGED <<tables, locals, history>>

\* ReplaceTwoFactorChallenge is a DELETE and an INSERT in one READ COMMITTED
\* transaction: the rows the DELETE finds are those its snapshot shows.
ReplaceChallengeBegin(r) ==
    /\ pc[r] = "replace"
    /\ stamped < MaxChallenges
    /\ stamped' = stamped + 1
    /\ ch' = [ch EXCEPT ![r] = stamped + 1]
    /\ old' = [old EXCEPT ![r] = Outstanding(seen[r].user)]
    /\ Goto(r, "insert")
    /\ UNCHANGED <<user, epoch, device, challenge, logins, history,
                   seen, dev, flag, token>>

\* Commit: rows consumed meanwhile no longer match the DELETE's WHERE.
ReplaceChallengeCommit(r) ==
    /\ pc[r] = "insert"
    /\ challenge' = [c \in ChallengeIds |->
           IF c = ch[r]
           THEN [user |-> seen[r].user, device |-> dev[r], attempts |-> 0,
                 consumed |-> FALSE, expired |-> FALSE]
           ELSE IF c \in old[r] /\ ~challenge[c].consumed
           THEN NoChallenge
           ELSE challenge[c]]
    /\ Answer(r)
    /\ UNCHANGED <<user, epoch, device, stamped, logins, history>>

\* recordLogin, and only then the token, made from the row read at the start.
RecordAndIssue(r) ==
    /\ pc[r] = "record"
    /\ Record(r, "success")
    /\ Goto(r, "issued")
    /\ UNCHANGED <<user, epoch, device, challenge, stamped, locals, history>>

(***************************************************************************)
(* POST /v1/sessions/verify                                                *)
(***************************************************************************)

VerifyUser(r, u) ==
    /\ pc[r] = "idle"
    /\ \/ /\ user[u].deleted \/ user[u].suspended
          /\ Answer(r)
       \/ /\ ~user[u].deleted
          /\ ~user[u].suspended
          /\ Goto(r, "vdevice")
          /\ seen' = [seen EXCEPT ![r] = Read(u, None)]
          /\ UNCHANGED <<dev, ch, old, flag, token>>
    /\ UNCHANGED <<tables, history>>

VerifyDevice(r, d) ==
    /\ pc[r] = "vdevice"
    /\ \/ /\ device[d].owner # seen[r].user \/ device[d].revoked
          /\ Answer(r)
       \/ /\ device[d].owner = seen[r].user
          /\ ~device[d].revoked
          /\ Goto(r, "vcode")
          /\ dev' = [dev EXCEPT ![r] = d]
          /\ UNCHANGED <<seen, ch, old, flag, token>>
    /\ UNCHANGED <<tables, history>>

\* Mutant: the code is compared, the device it was raised for is not.
VerifyCodeAnyDevice(r, code) ==
    /\ pc[r] = "vcode"
    /\ \/ /\ ActiveTwoFactorChallenge(seen[r].user) = {}
          /\ Answer(r)
       \/ \E c \in ActiveTwoFactorChallenge(seen[r].user) :
             /\ Goto(r, IF code = c THEN "vspend" ELSE "vfail")
             /\ ch' = [ch EXCEPT ![r] = c]
             /\ UNCHANGED <<seen, dev, old, flag, token>>
    /\ UNCHANGED <<tables, history>>

\* code names the challenge it was mailed for; None is a guess.
VerifyCode(r, code) ==
    /\ pc[r] = "vcode"
    /\ \/ /\ ActiveTwoFactorChallenge(seen[r].user) = {}
          /\ Answer(r)
       \/ \E c \in ActiveTwoFactorChallenge(seen[r].user) :
             /\ Goto(r, IF challenge[c].device = dev[r] /\ code = c
                        THEN "vspend" ELSE "vfail")
             /\ ch' = [ch EXCEPT ![r] = c]
             /\ UNCHANGED <<seen, dev, old, flag, token>>
    /\ UNCHANGED <<tables, history>>

\* Mutant: the UPDATE by id alone, without consumed_at IS NULL.
SpendableById(c) == challenge[c].user # None

\* The row is there and its code has not been spent or burned.
Spendable(c) == challenge[c].user # None /\ ~challenge[c].consumed

\* Mutant: the counter as it was before this attempt is compared with the cap.
FailTwoFactorChallengeLate(r) ==
    /\ pc[r] = "vfail"
    /\ \/ /\ Spendable(ch[r])
          /\ challenge' = [challenge EXCEPT ![ch[r]] =
                 [user |-> challenge[ch[r]].user,
                  device |-> challenge[ch[r]].device,
                  attempts |-> challenge[ch[r]].attempts + 1,
                  consumed |-> challenge[ch[r]].attempts >= MaxAttempts,
                  expired |-> challenge[ch[r]].expired]]
       \/ /\ ~Spendable(ch[r])
          /\ UNCHANGED challenge
    /\ Record(r, "mfa_failed")
    /\ Answer(r)
    /\ UNCHANGED <<user, epoch, device, stamped, history>>

\* One conditional UPDATE: count the attempt, burn the row at the cap.
FailTwoFactorChallenge(r) ==
    /\ pc[r] = "vfail"
    /\ \/ /\ Spendable(ch[r])
          /\ challenge' = [challenge EXCEPT ![ch[r]] =
                 [user |-> challenge[ch[r]].user,
                  device |-> challenge[ch[r]].device,
                  attempts |-> challenge[ch[r]].attempts + 1,
                  consumed |-> challenge[ch[r]].attempts + 1 >= MaxAttempts,
                  expired |-> challenge[ch[r]].expired]]
       \/ /\ ~Spendable(ch[r])
          /\ UNCHANGED challenge
    /\ Record(r, "mfa_failed")
    /\ Answer(r)
    /\ UNCHANGED <<user, epoch, device, stamped, history>>

\* Spending the code and trusting the device commit together or not at all.
ConsumeTwoFactorChallenge(r) ==
    /\ pc[r] = "vspend"
    /\ \/ /\ Spendable(ch[r])
          /\ ~device[dev[r]].revoked
          /\ challenge' = [challenge EXCEPT ![ch[r]].consumed = TRUE]
          /\ device' = [device EXCEPT ![dev[r]].trusted = TRUE]
          /\ redeemed' = redeemed \cup {ch[r]}
          /\ Goto(r, "vreread")
          /\ UNCHANGED locals
       \/ /\ ~Spendable(ch[r]) \/ device[dev[r]].revoked
          /\ Answer(r)
          /\ UNCHANGED <<challenge, device, redeemed>>
    /\ UNCHANGED <<user, epoch, stamped, logins, enabledFrom, entitled>>

\* recordLogin, then ActiveDevice, then the token.
VerifyRereadDevice(r) ==
    /\ pc[r] = "vreread"
    /\ Record(r, "success")
    /\ \/ /\ device[dev[r]].revoked
          /\ Answer(r)
       \/ /\ ~device[dev[r]].revoked
          /\ Goto(r, "issued")
          /\ UNCHANGED locals
    /\ UNCHANGED <<user, epoch, device, challenge, stamped, history>>

(***************************************************************************)
(* requireBearer: two reads, first the account, then the device            *)
(***************************************************************************)

BearerUser(r, t) ==
    /\ pc[r] = "idle"
    /\ pc[t] = "issued"
    /\ LET u == seen[t].user
           ok == /\ ~user[u].deleted
                 /\ epoch[u] = seen[t].epoch
                 /\ ~user[u].suspended
       IN  \/ /\ ~ok
              /\ Answer(r)
              /\ UNCHANGED entitled
           \/ /\ ok
              /\ Goto(r, "bearer")
              /\ seen' = [seen EXCEPT ![r] = Read(u, None)]
              /\ token' = [token EXCEPT ![r] = t]
              /\ entitled' = IF Accepted(t) THEN entitled \cup {r} ELSE entitled
              /\ UNCHANGED <<dev, ch, old, flag>>
    /\ UNCHANGED <<tables, redeemed, enabledFrom>>

\* Mutant: the device row has to exist, revoked_at is not asked about.
BearerDeviceAnyState(r) ==
    /\ pc[r] = "bearer"
    /\ LET d == dev[token[r]]
       IN  \/ device[d].owner # seen[r].user /\ Answer(r)
           \/ device[d].owner = seen[r].user /\ Goto(r, "authorized") /\ UNCHANGED locals
    /\ UNCHANGED <<tables, history>>

BearerDevice(r) ==
    /\ pc[r] = "bearer"
    /\ LET d == dev[token[r]]
           active == device[d].owner = seen[r].user /\ ~device[d].revoked
       IN  \/ ~active /\ Answer(r)
           \/ active /\ Goto(r, "authorized") /\ UNCHANGED locals
    /\ UNCHANGED <<tables, history>>

(***************************************************************************)
(* The authenticated operations on one's own account                       *)
(***************************************************************************)

\* ByID and the comparison with the current password.
ProvesPassword(r, p) == ~user[seen[r].user].deleted /\ user[seen[r].user].pw = p

\* Up to the bcrypt hash of the new password; the row is not looked at again
\* before it is written.
ChangePasswordVerify(r, p) ==
    /\ pc[r] = "authorized"
    /\ \/ ~ProvesPassword(r, p) /\ Answer(r)
       \/ ProvesPassword(r, p) /\ Goto(r, "setpassword") /\ UNCHANGED locals
    /\ UNCHANGED <<tables, history>>

\* bumpEpoch: WHERE deleted_at IS NULL, session_epoch + 1 and what else is set,
\* in one statement.
BumpEpoch(u) ==
    /\ ~user[u].deleted
    /\ epoch[u] < MaxEpoch
    /\ epoch' = [epoch EXCEPT ![u] = @ + 1]

\* Mutant: the new hash without the new epoch.
SetPasswordKeepingEpoch(r, p) ==
    /\ pc[r] = "setpassword"
    /\ \/ /\ ~user[seen[r].user].deleted
          /\ user' = [user EXCEPT ![seen[r].user].pw = p]
       \/ /\ user[seen[r].user].deleted
          /\ UNCHANGED user
    /\ Answer(r)
    /\ UNCHANGED <<epoch, device, challenge, stamped, logins, history>>

SetPassword(r, p) ==
    /\ pc[r] = "setpassword"
    /\ \/ /\ BumpEpoch(seen[r].user)
          /\ user' = [user EXCEPT ![seen[r].user].pw = p]
       \/ /\ user[seen[r].user].deleted
          /\ UNCHANGED <<user, epoch>>
    /\ Answer(r)
    /\ UNCHANGED <<device, challenge, stamped, logins, history>>

SignOutEverywhere(r) ==
    /\ pc[r] = "authorized"
    /\ \/ BumpEpoch(seen[r].user)
       \/ user[seen[r].user].deleted /\ UNCHANGED epoch
    /\ Answer(r)
    /\ UNCHANGED <<user, device, challenge, stamped, logins, history>>

\* SELECT ... FOR UPDATE, the rule, the UPDATE; a second revoke changes nothing.
RevokeDevice(r, d) ==
    /\ pc[r] = "authorized"
    /\ \/ /\ device[d].owner = seen[r].user
          /\ ~device[d].revoked
          /\ device' = [device EXCEPT ![d] =
                 [owner |-> seen[r].user, trusted |-> FALSE, revoked |-> TRUE]]
       \/ /\ device[d].owner # seen[r].user \/ device[d].revoked
          /\ UNCHANGED device
    /\ Answer(r)
    /\ UNCHANGED <<user, epoch, challenge, stamped, logins, history>>

\* DeviceByFingerprint found a row of this account for the presented token.
Owns(u, d) == d \in Devices /\ device[d].owner = u

\* SetTwoFactor up to its first write.  d is the presented device token.
SetTwoFactorVerify(r, p, on, d) ==
    /\ pc[r] = "authorized"
    /\ \/ ~ProvesPassword(r, p) /\ Answer(r)
       \/ /\ ProvesPassword(r, p)
          /\ flag' = [flag EXCEPT ![r] = on]
          /\ \/ /\ on /\ Owns(seen[r].user, d)
                /\ Goto(r, "trust")
                /\ dev' = [dev EXCEPT ![r] = d]
             \/ /\ ~(on /\ Owns(seen[r].user, d))
                /\ Goto(r, "settwofactor")
                /\ UNCHANGED dev
          /\ UNCHANGED <<seen, ch, old, token>>
    /\ UNCHANGED <<tables, history>>

\* A revoked device refuses, and then two-factor is not turned on either.
TrustDevice(r) ==
    /\ pc[r] = "trust"
    /\ \/ /\ device[dev[r]].revoked
          /\ Answer(r)
          /\ UNCHANGED <<device, enabledFrom>>
       \/ /\ ~device[dev[r]].revoked
          /\ device' = [device EXCEPT ![dev[r]].trusted = TRUE]
          /\ enabledFrom' = enabledFrom \cup {dev[r]}
          /\ Goto(r, "settwofactor")
          /\ UNCHANGED locals
    /\ UNCHANGED <<user, epoch, challenge, stamped, logins, redeemed, entitled>>

\* The one UPDATE of users that does not ask whether the account is deleted.
SetTwoFactorEnabled(r) ==
    /\ pc[r] = "settwofactor"
    /\ user' = [user EXCEPT ![seen[r].user].twoFactor = flag[r]]
    /\ Answer(r)
    /\ UNCHANGED <<epoch, device, challenge, stamped, logins, history>>

(***************************************************************************)
(* What other actors do to the account                                     *)
(***************************************************************************)

\* A redeemed password reset; AccountCodes models how the code gets there.
ConsumePasswordReset(u, p) ==
    /\ BumpEpoch(u)
    /\ user' = [user EXCEPT ![u].pw = p]
    /\ UNCHANGED <<device, challenge, stamped, logins, pc, locals, history>>

\* A platform administrator blocks the account: timestamp and epoch together.
Suspend(u) ==
    /\ BumpEpoch(u)
    /\ user' = [user EXCEPT ![u].suspended = TRUE]
    /\ UNCHANGED <<device, challenge, stamped, logins, pc, locals, history>>

\* ... and unblocks it, leaving the epoch where it is.
Restore(u) ==
    /\ ~user[u].deleted
    /\ user' = [user EXCEPT ![u].suspended = FALSE]
    /\ UNCHANGED <<epoch, device, challenge, stamped, logins, pc, locals, history>>

\* Soft delete: the devices are revoked, their trust is not cleared.
DeleteUser(u) ==
    /\ ~user[u].deleted
    /\ device' = [d \in Devices |->
           IF device[d].owner = u
           THEN [owner |-> u, trusted |-> device[d].trusted, revoked |-> TRUE]
           ELSE device[d]]
    /\ user' = [user EXCEPT ![u].deleted = TRUE]
    /\ UNCHANGED <<epoch, challenge, stamped, logins, pc, locals, history>>

\* expires_at passes.
Expire(c) ==
    /\ challenge[c].user # None
    /\ ~challenge[c].expired
    /\ challenge' = [challenge EXCEPT ![c].expired = TRUE]
    /\ UNCHANGED <<user, epoch, device, stamped, logins, pc, locals, history>>

\* The client hangs up, a statement fails, or the process stops, between two
\* steps of a request: what is committed stays, what the request held is gone.
Abandon(r) ==
    /\ pc[r] \notin {"idle", "issued", "done"}
    /\ Answer(r)
    /\ UNCHANGED <<tables, history>>

(***************************************************************************)
(* The specification                                                       *)
(***************************************************************************)

SignInStep(r) ==
    \/ \E u \in Users, p \in Passwords : SignInPassword(r, u, p)
    \/ \E d \in Devices : RecogniseDevice(r, d) \/ CreateDevice(r, d)
    \/ TouchDevice(r)
    \/ ReplaceChallengeBegin(r)
    \/ ReplaceChallengeCommit(r)
    \/ RecordAndIssue(r)

VerifyStep(r) ==
    \/ \E u \in Users : VerifyUser(r, u)
    \/ \E d \in Devices : VerifyDevice(r, d)
    \/ \E code \in ChallengeIds \cup {None} : VerifyCode(r, code)
    \/ FailTwoFactorChallenge(r)
    \/ ConsumeTwoFactorChallenge(r)
    \/ VerifyRereadDevice(r)

AccountStep(r) ==
    \/ \E t \in Reqs : BearerUser(r, t)
    \/ BearerDevice(r)
    \/ \E p \in Passwords : ChangePasswordVerify(r, p) \/ SetPassword(r, p)
    \/ SignOutEverywhere(r)
    \/ \E d \in Devices : RevokeDevice(r, d)
    \/ \E p \in Passwords, on \in BOOLEAN, d \in Devices \cup {None} :
           SetTwoFactorVerify(r, p, on, d)
    \/ TrustDevice(r)
    \/ SetTwoFactorEnabled(r)

OthersStep ==
    \/ \E u \in Users : Suspend(u) \/ Restore(u) \/ DeleteUser(u)
    \/ \E u \in Users, p \in Passwords : ConsumePasswordReset(u, p)
    \/ \E c \in ChallengeIds : Expire(c)

Next ==
    \/ \E r \in Reqs : SignInStep(r) \/ VerifyStep(r) \/ AccountStep(r) \/ Abandon(r)
    \/ OthersStep

Spec == Init /\ [][Next]_vars

(***************************************************************************)
(* Properties                                                              *)
(***************************************************************************)

Issued(r) == pc[r] = "issued"

\* A password is never accepted on a token it no longer opens: whenever the
\* bearer check would let a token through, the password that was typed to get it
\* is the account's password now.  SignIn compares against a row it read long
\* before it mints the token, and changing the password, resetting it and
\* minting are free to interleave; the epoch is what has to catch all of it.
AcceptedTokenProvesCurrentPassword ==
    \A t \in Reqs : Accepted(t) /\ seen[t].proved # None
                      => user[seen[t].user].pw = seen[t].proved

\* Once a token is refused it is refused for good: lifting a suspension, touching
\* a revoked device or trusting it again, or moving the epoch, never brings an
\* old token back (SetSuspended, TouchDevice, Device.Revoke, bumpEpoch).
DeadTokenStaysDead ==
    [][\A t \in Reqs : Issued(t) /\ ~Accepted(t) => ~Accepted(t)']_vars

\* One emailed code gives at most one session, however many requests submit it
\* at once (the WHERE consumed_at IS NULL of ConsumeTwoFactorChallenge).
OneCodeOneSession ==
    \A s, t \in Reqs :
        /\ pc[s] \in {"vreread", "issued"}
        /\ pc[t] \in {"vreread", "issued"}
        /\ ch[s] # None
        /\ ch[s] = ch[t]
        => s = t

\* A code that was guessed at twoFactorMaxAttempts times is never redeemed, not
\* even by a request that read it before the last wrong guess was counted.
CapHoldsForRedemption ==
    \A c \in redeemed : challenge[c].attempts < MaxAttempts

\* The device has passed the second factor: a code mailed for this very device
\* was redeemed, or the owner turned two-factor on from it with the password.
Earned(d) ==
    \/ d \in enabledFrom
    \/ \E c \in redeemed : challenge[c].device = d

\* Trust is never given away: only a device that earned it is trusted, whichever
\* requests for other devices of the same account ran at the same time
\* (challenge.DeviceID != device.ID in VerifyTwoFactor).
TrustIsEarned == \A d \in Devices : IsTrusted(d) => Earned(d)

\* No session without the second factor: if the account asked for it when the
\* request read the account, then the device the token is for has earned trust.
SecondFactorStands ==
    \A t \in Reqs : Issued(t) /\ seen[t].twoFactor => Earned(dev[t])

\* requireBearer reads the account and the device at different moments; a request
\* it lets through was, at the first of them, entitled to pass on both counts.
BearerCheckIsLinearizable ==
    \A r \in Reqs :
        pc[r] \in {"authorized", "setpassword", "trust", "settwofactor"}
            => r \in entitled

=============================================================================
