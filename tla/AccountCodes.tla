---------------------------- MODULE AccountCodes ----------------------------
(***************************************************************************)
(* The two emailed codes that change an account: password reset and change *)
(* of address.  They share one mechanism, written twice in the code.       *)
(*                                                                         *)
(* A request reads the newest outstanding code, compares it, and only then *)
(* writes: FailXxx when it missed, ConsumeXxx when it matched.  Between    *)
(* the read and the write lie a bcrypt hash, other requests, and anything  *)
(* they commit.  Asking for a code is a transaction (DELETE the outstanding *)
(* ones, INSERT the new one) followed by mail.                             *)
(*                                                                         *)
(* Codes are numbered by created_at, resets before changes; a submitted    *)
(* code is the number of the row it was mailed for, or None for a guess.   *)
(***************************************************************************)
EXTENDS Integers, FiniteSets

CONSTANTS
    Users,          \* accounts, registered or not yet
    Emails,         \* normalised addresses
    Passwords,      \* what a password hash can stand for
    Reqs,           \* HTTP requests
    None,           \* no account, address or code
    MaxAttempts,    \* resetMaxAttempts and emailChangeMaxAttempts
    MaxResets,      \* bound: password reset codes ever issued
    MaxChanges      \* bound: email change codes ever issued

ASSUME AttemptsAssumption == MaxAttempts \in Nat \ {0}
ASSUME BoundsAssumption == MaxResets \in Nat /\ MaxChanges \in Nat
ASSUME NoneAssumption == None \notin Users \cup Emails \cup Int

VARIABLES
    account,    \* users rows
    code,       \* password_resets and email_changes rows
    stamped,    \* how many codes of each kind have been given a created_at
    mail,       \* <<address, code>>: messages delivered
    pc,         \* where each request is
    who,        \* the account it is about
    addr,       \* the address it was given or read
    ch,         \* the code it read or is inserting
    got,        \* the attempts column of the code it read
    old,        \* the codes it found outstanding
    missed,     \* history: <<request, code>>, wrong guesses counted
    redeemed    \* history: <<request, code>>, codes that took effect

locals == <<who, addr, ch, got, old>>
history == <<missed, redeemed>>
vars == <<account, code, stamped, mail, pc, locals, history>>

Kinds == {"reset", "change"}
ResetIds == 1..MaxResets
ChangeIds == (MaxResets + 1)..(MaxResets + MaxChanges)
CodeIds == ResetIds \cup ChangeIds

Ids(kind) == IF kind = "reset" THEN ResetIds ELSE ChangeIds

(***************************************************************************)
(* Rows                                                                    *)
(***************************************************************************)

AccountRow == [state: {"absent", "live", "deleted"}, pw: Passwords,
               email: Emails, epoch: Nat]

CodeRow == [user: Users \cup {None}, newEmail: Emails \cup {None},
            attempts: 0..MaxAttempts, consumed: BOOLEAN, expired: BOOLEAN]

NoCode == [user |-> None, newEmail |-> None, attempts |-> 0,
           consumed |-> FALSE, expired |-> FALSE]

Pcs == {"idle", "done",
        "rreplace", "rinsert", "rmail", "rread", "rfail", "rspend",
        "creplace", "cinsert", "cpending", "cmail", "cfail", "cspend"}

\* Every table holds rows of its shape, and no request holds anything else.
TypeOK ==
    /\ account \in [Users -> AccountRow]
    /\ code \in [CodeIds -> CodeRow]
    /\ stamped \in [Kinds -> Nat]
    /\ stamped["reset"] <= MaxResets
    /\ stamped["change"] <= MaxChanges
    /\ mail \subseteq Emails \X CodeIds
    /\ pc \in [Reqs -> Pcs]
    /\ who \in [Reqs -> Users \cup {None}]
    /\ addr \in [Reqs -> Emails \cup {None}]
    /\ ch \in [Reqs -> CodeIds \cup {None}]
    /\ got \in [Reqs -> 0..MaxAttempts]
    /\ old \in [Reqs -> SUBSET CodeIds]
    /\ missed \subseteq Reqs \X CodeIds
    /\ redeemed \subseteq Reqs \X CodeIds

\* Two live accounts never hold one address: users.email is unique among rows
\* whose deleted_at is NULL, and registration and the email change race for it.
NoTwoAccountsShareAnAddress ==
    \A u, w \in Users :
        /\ account[u].state = "live"
        /\ account[w].state = "live"
        /\ account[u].email = account[w].email
        => u = w

\* Some accounts are registered, the others may be; nobody has asked for a code.
Init ==
    /\ account \in [Users -> {row \in [state: {"absent", "live"}, pw: Passwords,
                                       email: Emails, epoch: {0}] : TRUE}]
    /\ NoTwoAccountsShareAnAddress
    /\ code = [c \in CodeIds |-> NoCode]
    /\ stamped = [k \in Kinds |-> 0]
    /\ mail = {}
    /\ pc = [r \in Reqs |-> "idle"]
    /\ who = [r \in Reqs |-> None]
    /\ addr = [r \in Reqs |-> None]
    /\ ch = [r \in Reqs |-> None]
    /\ got = [r \in Reqs |-> 0]
    /\ old = [r \in Reqs |-> {}]
    /\ missed = {}
    /\ redeemed = {}

(***************************************************************************)
(* What the statements read and write                                      *)
(***************************************************************************)

\* WHERE email = e, deleted rows left out: {} or one account.
ByEmail(e) == {u \in Users : account[u].state = "live" /\ account[u].email = e}

\* WHERE user_id = u AND consumed_at IS NULL
Outstanding(kind, u) == {c \in Ids(kind) : code[c].user = u /\ ~code[c].consumed}

\* ... AND expires_at > now ORDER BY created_at DESC, first row: {} or one row.
Active(kind, u) ==
    LET live == {c \in Outstanding(kind, u) : ~code[c].expired}
    IN  {c \in live : \A e \in live : e <= c}

\* What somebody can type: a code read out of a mailbox, or a guess.
Submitted == {m[2] : m \in mail} \cup {None}

Goto(r, next) == pc' = [pc EXCEPT ![r] = next]

\* The request has its answer; what it held is gone.
Answer(r) ==
    /\ Goto(r, "done")
    /\ who' = [who EXCEPT ![r] = None]
    /\ addr' = [addr EXCEPT ![r] = None]
    /\ ch' = [ch EXCEPT ![r] = None]
    /\ got' = [got EXCEPT ![r] = 0]
    /\ old' = [old EXCEPT ![r] = {}]

\* The DELETE's snapshot, and created_at of the row about to be inserted.  The
\* two statements are one READ COMMITTED transaction.
Supersede(r, kind) ==
    /\ stamped[kind] < Cardinality(Ids(kind))
    /\ stamped' = [stamped EXCEPT ![kind] = @ + 1]
    /\ ch' = [ch EXCEPT ![r] = (IF kind = "reset" THEN 0 ELSE MaxResets)
                               + stamped[kind] + 1]
    /\ old' = [old EXCEPT ![r] = Outstanding(kind, who[r])]
    /\ UNCHANGED <<account, code, mail, who, addr, got, history>>

\* Mutant: rows are deleted by the ids the SELECT returned, spent meanwhile or not.
InsertDeletingSnapshot(r, newEmail) ==
    code' = [c \in CodeIds |->
        IF c = ch[r]
        THEN [user |-> who[r], newEmail |-> newEmail, attempts |-> 0,
              consumed |-> FALSE, expired |-> FALSE]
        ELSE IF c \in old[r] THEN NoCode ELSE code[c]]

\* Commit.  A row that was spent meanwhile no longer matches the DELETE's WHERE.
Insert(r, newEmail) ==
    code' = [c \in CodeIds |->
        IF c = ch[r]
        THEN [user |-> who[r], newEmail |-> newEmail, attempts |-> 0,
              consumed |-> FALSE, expired |-> FALSE]
        ELSE IF c \in old[r] /\ ~code[c].consumed THEN NoCode ELSE code[c]]

\* The newest outstanding code is compared; the row is not read again.
Compare(r, kind, u, submitted, matched, mismatched) ==
    \/ /\ Active(kind, u) = {}
       /\ Answer(r)
    \/ \E c \in Active(kind, u) :
          /\ Goto(r, IF submitted = c THEN matched ELSE mismatched)
          /\ who' = [who EXCEPT ![r] = u]
          /\ ch' = [ch EXCEPT ![r] = c]
          /\ got' = [got EXCEPT ![r] = code[c].attempts]
          /\ UNCHANGED <<addr, old>>

\* Mutant: the counter is computed from the row read before, and the row saved.
CountMissFromRead(r) ==
    /\ code[ch[r]].user # None
    /\ code' = [code EXCEPT ![ch[r]] =
           [user |-> code[ch[r]].user, newEmail |-> code[ch[r]].newEmail,
            attempts |-> got[r] + 1, consumed |-> got[r] + 1 >= MaxAttempts,
            expired |-> code[ch[r]].expired]]
    /\ missed' = missed \cup {<<r, ch[r]>>}

\* The conditional UPDATE of a failed guess, when it finds a row.
CountMiss(r) ==
    /\ code[ch[r]].user # None
    /\ ~code[ch[r]].consumed
    /\ code' = [code EXCEPT ![ch[r]] =
           [user |-> code[ch[r]].user, newEmail |-> code[ch[r]].newEmail,
            attempts |-> code[ch[r]].attempts + 1,
            consumed |-> code[ch[r]].attempts + 1 >= MaxAttempts,
            expired |-> code[ch[r]].expired]]
    /\ missed' = missed \cup {<<r, ch[r]>>}

\* No row to count on: superseded, spent or burned.  The answer is the same.
NothingToCount(r) ==
    /\ code[ch[r]].user = None \/ code[ch[r]].consumed
    /\ UNCHANGED <<code, missed>>

\* UpdateOneID(...).SetNillableConsumedAt.SetAttempts: by id, whatever the row
\* says by now.
Spend(r) ==
    /\ code' = [code EXCEPT ![ch[r]] =
           [user |-> code[ch[r]].user, newEmail |-> code[ch[r]].newEmail,
            attempts |-> got[r], consumed |-> TRUE, expired |-> code[ch[r]].expired]]
    /\ redeemed' = redeemed \cup {<<r, ch[r]>>}

(***************************************************************************)
(* POST /v1/password-resets                                                *)
(***************************************************************************)

BeginPasswordReset(r, e) ==
    /\ pc[r] = "idle"
    /\ \/ ByEmail(e) = {} /\ Answer(r)
       \/ \E u \in ByEmail(e) :
             /\ Goto(r, "rreplace")
             /\ who' = [who EXCEPT ![r] = u]
             /\ addr' = [addr EXCEPT ![r] = e]
             /\ UNCHANGED <<ch, got, old>>
    /\ UNCHANGED <<account, code, stamped, mail, history>>

ReplacePasswordResetBegin(r) ==
    /\ pc[r] = "rreplace"
    /\ Supersede(r, "reset")
    /\ Goto(r, "rinsert")

ReplacePasswordResetCommit(r) ==
    /\ pc[r] = "rinsert"
    /\ Insert(r, None)
    /\ Goto(r, "rmail")
    /\ UNCHANGED <<account, stamped, mail, locals, history>>

\* To the address that was asked about, not one read back from the account.
SendPasswordReset(r) ==
    /\ pc[r] = "rmail"
    /\ mail' = mail \cup {<<addr[r], ch[r]>>}
    /\ Answer(r)
    /\ UNCHANGED <<account, code, stamped, history>>

(***************************************************************************)
(* POST /v1/password-resets/confirm                                        *)
(***************************************************************************)

CompletePasswordReset(r, e) ==
    /\ pc[r] = "idle"
    /\ \/ ByEmail(e) = {} /\ Answer(r)
       \/ \E u \in ByEmail(e) :
             /\ Goto(r, "rread")
             /\ who' = [who EXCEPT ![r] = u]
             /\ UNCHANGED <<addr, ch, got, old>>
    /\ UNCHANGED <<account, code, stamped, mail, history>>

ReadPasswordReset(r, submitted) ==
    /\ pc[r] = "rread"
    /\ Compare(r, "reset", who[r], submitted, "rspend", "rfail")
    /\ UNCHANGED <<account, code, stamped, mail, history>>

FailPasswordReset(r) ==
    /\ pc[r] = "rfail"
    /\ CountMiss(r) \/ NothingToCount(r)
    /\ Answer(r)
    /\ UNCHANGED <<account, stamped, mail, redeemed>>

\* Mutant: a code row that is gone does not undo the new password.
ConsumePasswordResetKeepingPassword(r, p) ==
    /\ pc[r] = "rspend"
    /\ account' = [account EXCEPT ![who[r]].pw = p, ![who[r]].epoch = @ + 1]
    /\ redeemed' = redeemed \cup {<<r, ch[r]>>}
    /\ code' = [code EXCEPT ![ch[r]].consumed = (code[ch[r]].user # None)]
    /\ Answer(r)
    /\ UNCHANGED <<stamped, mail, missed>>

\* One transaction: the hash and the epoch of an account that is not deleted,
\* then the code.  A code row that is gone rolls both back.
ConsumePasswordReset(r, p) ==
    /\ pc[r] = "rspend"
    /\ \/ /\ code[ch[r]].user = None
          /\ UNCHANGED <<account, code, redeemed>>
       \/ /\ code[ch[r]].user # None
          /\ Spend(r)
          /\ account' = IF account[who[r]].state = "live"
                        THEN [account EXCEPT ![who[r]].pw = p,
                                             ![who[r]].epoch = @ + 1]
                        ELSE account
    /\ Answer(r)
    /\ UNCHANGED <<stamped, mail, missed>>

(***************************************************************************)
(* POST /v1/me/email, behind requireBearer                                 *)
(***************************************************************************)

\* ByID, the comparison with the current password, and "is it another address".
BeginEmailChange(r, u, p, e) ==
    /\ pc[r] = "idle"
    /\ account[u].state # "absent"
    /\ \/ /\ account[u].state = "deleted" \/ account[u].pw # p \/ account[u].email = e
          /\ Answer(r)
       \/ /\ account[u].state = "live"
          /\ account[u].pw = p
          /\ account[u].email # e
          /\ Goto(r, "creplace")
          /\ who' = [who EXCEPT ![r] = u]
          /\ addr' = [addr EXCEPT ![r] = e]
          /\ UNCHANGED <<ch, got, old>>
    /\ UNCHANGED <<account, code, stamped, mail, history>>

ReplaceEmailChangeBegin(r) ==
    /\ pc[r] = "creplace"
    /\ Supersede(r, "change")
    /\ Goto(r, "cinsert")

ReplaceEmailChangeCommit(r) ==
    /\ pc[r] = "cinsert"
    /\ Insert(r, addr[r])
    /\ Goto(r, "cpending")
    /\ UNCHANGED <<account, stamped, mail, locals, history>>

\* Mutant: its own row is read back, which another request may have superseded.
PendingEmailChangeById(r) ==
    /\ pc[r] = "cpending"
    /\ addr' = [addr EXCEPT ![r] = code[ch[r]].newEmail]
    /\ Goto(r, "cmail")
    /\ UNCHANGED <<account, code, stamped, mail, history, who, ch, got, old>>

\* The handler asks where to send the code it holds: the newest outstanding row's
\* address, which need not be the row of that code.
PendingEmailChange(r) ==
    /\ pc[r] = "cpending"
    /\ \/ Active("change", who[r]) = {} /\ Answer(r)
       \/ \E c \in Active("change", who[r]) :
             /\ addr' = [addr EXCEPT ![r] = code[c].newEmail]
             /\ Goto(r, "cmail")
             /\ UNCHANGED <<who, ch, got, old>>
    /\ UNCHANGED <<account, code, stamped, mail, history>>

SendEmailChange(r) ==
    /\ pc[r] = "cmail"
    /\ mail' = mail \cup {<<addr[r], ch[r]>>}
    /\ Answer(r)
    /\ UNCHANGED <<account, code, stamped, history>>

(***************************************************************************)
(* POST /v1/me/email/verify, behind requireBearer                          *)
(***************************************************************************)

\* The account itself is not read: a token checked before a deletion gets here.
ConfirmEmailChange(r, u, submitted) ==
    /\ pc[r] = "idle"
    /\ account[u].state # "absent"
    /\ Compare(r, "change", u, submitted, "cspend", "cfail")
    /\ UNCHANGED <<account, code, stamped, mail, history>>

FailEmailChange(r) ==
    /\ pc[r] = "cfail"
    /\ CountMiss(r) \/ NothingToCount(r)
    /\ Answer(r)
    /\ UNCHANGED <<account, stamped, mail, redeemed>>

\* Mutant: registration looks the address up, a confirmed change does not.
TakenAtRegistration(u, e) ==
    /\ account[u].state = "absent"
    /\ \E w \in Users \ {u} : account[w].state = "live" /\ account[w].email = e

\* The partial unique index on users.email would refuse e for u.
Taken(u, e) ==
    /\ account[u].state # "deleted"
    /\ \E w \in Users \ {u} : account[w].state = "live" /\ account[w].email = e

\* One transaction: the address, deleted account or not, then the code.  A code
\* row that is gone, or an address somebody took meanwhile, rolls both back.
ConsumeEmailChange(r) ==
    LET u == who[r]
        e == code[ch[r]].newEmail
    IN  /\ pc[r] = "cspend"
        /\ \/ /\ code[ch[r]].user = None \/ Taken(u, e)
              /\ UNCHANGED <<account, code, redeemed>>
           \/ /\ code[ch[r]].user # None
              /\ ~Taken(u, e)
              /\ account' = [account EXCEPT ![u].email = e]
              /\ Spend(r)
        /\ Answer(r)
        /\ UNCHANGED <<stamped, mail, missed>>

(***************************************************************************)
(* What other actors do                                                    *)
(***************************************************************************)

\* Registration: the INSERT, decided by the same index, so a taken address
\* changes nothing.
Create(u, p, e) ==
    /\ account[u].state = "absent"
    /\ ~Taken(u, e)
    /\ account' = [account EXCEPT ![u] = [state |-> "live", pw |-> p,
                                          email |-> e, epoch |-> 0]]
    /\ UNCHANGED <<code, stamped, mail, pc, locals, history>>

\* Soft delete keeps the row and its codes, and releases the address.
DeleteUser(u) ==
    /\ account[u].state = "live"
    /\ account' = [account EXCEPT ![u].state = "deleted"]
    /\ UNCHANGED <<code, stamped, mail, pc, locals, history>>

\* expires_at passes.
Expire(c) ==
    /\ code[c].user # None
    /\ ~code[c].expired
    /\ code' = [code EXCEPT ![c].expired = TRUE]
    /\ UNCHANGED <<account, stamped, mail, pc, locals, history>>

\* The client hangs up, a statement or the mail server fails, or the process
\* stops: what is committed stays.
Abandon(r) ==
    /\ pc[r] \notin {"idle", "done"}
    /\ Answer(r)
    /\ UNCHANGED <<account, code, stamped, mail, history>>

(***************************************************************************)
(* The specification                                                       *)
(***************************************************************************)

ResetStep(r) ==
    \/ \E e \in Emails : BeginPasswordReset(r, e) \/ CompletePasswordReset(r, e)
    \/ ReplacePasswordResetBegin(r)
    \/ ReplacePasswordResetCommit(r)
    \/ SendPasswordReset(r)
    \/ \E submitted \in Submitted : ReadPasswordReset(r, submitted)
    \/ FailPasswordReset(r)
    \/ \E p \in Passwords : ConsumePasswordReset(r, p)

ChangeStep(r) ==
    \/ \E u \in Users, p \in Passwords, e \in Emails : BeginEmailChange(r, u, p, e)
    \/ ReplaceEmailChangeBegin(r)
    \/ ReplaceEmailChangeCommit(r)
    \/ PendingEmailChange(r)
    \/ SendEmailChange(r)
    \/ \E u \in Users, submitted \in Submitted : ConfirmEmailChange(r, u, submitted)
    \/ FailEmailChange(r)
    \/ ConsumeEmailChange(r)

OthersStep ==
    \/ \E u \in Users, p \in Passwords, e \in Emails : Create(u, p, e)
    \/ \E u \in Users : DeleteUser(u)
    \/ \E c \in CodeIds : Expire(c)

Next ==
    \/ \E r \in Reqs : ResetStep(r) \/ ChangeStep(r) \/ Abandon(r)
    \/ OthersStep

Spec == Init /\ [][Next]_vars

(***************************************************************************)
(* Properties                                                              *)
(***************************************************************************)

Guesses(c) == {r \in Reqs : <<r, c>> \in missed}

\* A code still open has been guessed at fewer than MaxAttempts times, however
\* many guesses overlapped: the increment and the burning are one UPDATE
\* (FailPasswordReset, FailEmailChange).
OpenCodeIsBelowTheCap ==
    \A c \in CodeIds : code[c].user # None /\ ~code[c].consumed
                         => Cardinality(Guesses(c)) < MaxAttempts

\* A spent or burned code never comes back: a late FailXxx does not reopen it, a
\* concurrent request for a new code does not erase the record that it was spent.
SpentStaysSpent ==
    [][\A c \in CodeIds : code[c].consumed => code'[c].consumed]_vars

\* A code that took effect is on record as spent: the new password or address and
\* consumed_at commit together, and a code superseded between the comparison and
\* the write takes the write down with it (ConsumePasswordReset, ConsumeEmailChange).
RedeemedCodeIsSpent == \A m \in redeemed : code[m[2]].consumed

\* docs/design/005_authentication.md:204-206: a registered account only moves to an
\* address whose mailbox received the code that was redeemed.
NewAddressIsProven ==
    [][\A u \in Users :
          account[u].state = "live" /\ account'[u].email # account[u].email
            => \E m \in redeemed' \ redeemed :
                  <<account'[u].email, m[2]>> \in mail]_vars

=============================================================================
