--------------------------- MODULE SessionsProofs ---------------------------
(***************************************************************************)
(* Proofs about Sessions, for every number of accounts, devices, passwords *)
(* and requests and every value of the bounds.                             *)
(*                                                                         *)
(* The argument.  (1) What a request holds refers to rows that exist and   *)
(* belong together.  (2) A snapshot whose epoch is still the account's was *)
(* taken under the password the account still has.  (3) A code is either   *)
(* being inserted by one request, or outstanding, or spent for good, and   *)
(* only the request that spent it goes on with it.  (4) Trust on a device  *)
(* traces back to a spent code of that device or to its owner.  (5) Every  *)
(* reason to refuse a token is permanent.  No part stands alone: (3) needs *)
(* (1), (4) needs (3), and the bearer check needs (5).                     *)
(***************************************************************************)
EXTENDS Sessions, TLAPS

(***************************************************************************)
(* The inductive invariant                                                 *)
(***************************************************************************)

Waiting == {"idle", "done"}

OnDevice == {"touch", "replace", "insert", "record", "vcode", "vfail", "vspend",
             "vreread", "trust", "issued"}

OnCode == {"insert", "vfail", "vspend"}

\* What a request holds refers to rows that exist.
UserInv == \A r \in Reqs : pc[r] \notin Waiting => seen[r].user \in Users

DeviceInv ==
    \A r \in Reqs : pc[r] \in OnDevice =>
        dev[r] \in Devices /\ device[dev[r]].owner = seen[r].user

CodeInv == \A r \in Reqs : pc[r] \in OnCode => ch[r] \in 1..stamped

AttemptsInv ==
    \A c \in ChallengeIds : ~challenge[c].consumed => challenge[c].attempts < MaxAttempts

TypeInv == TypeOK /\ UserInv /\ DeviceInv /\ CodeInv /\ AttemptsInv

\* The epoch says whether a snapshot of the account is still good.
EpochInv ==
    \A r \in Reqs : pc[r] \notin Waiting =>
        /\ seen[r].epoch <= epoch[seen[r].user]
        /\ seen[r].epoch = epoch[seen[r].user] =>
              /\ ~user[seen[r].user].suspended
              /\ seen[r].proved # None => user[seen[r].user].pw = seen[r].proved

\* Codes: which rows exist, who may spend them and who has.
RowInv ==
    /\ \A c \in ChallengeIds : challenge[c].user # None => c <= stamped
    /\ \A c \in redeemed : challenge[c].user # None /\ challenge[c].consumed

InsertInv ==
    \A r \in Reqs : pc[r] = "insert" =>
        /\ challenge[ch[r]].user = None
        /\ \A s \in Reqs \ {r} : pc[s] \in OnCode => ch[s] # ch[r]

MatchInv ==
    \A r \in Reqs : pc[r] = "vspend" /\ challenge[ch[r]].user # None =>
        challenge[ch[r]].device = dev[r]

HolderInv ==
    \A r \in Reqs :
        /\ pc[r] \in {"idle", "device", "touch", "replace", "record"} => ch[r] = None
        /\ pc[r] \in {"vreread", "issued"} => ch[r] \in redeemed \cup {None}

\* Trust: who has it, and who acts on having read it.
TrustInv == \A d \in Devices : device[d].trusted => Earned(d)

FactorInv ==
    \A r \in Reqs :
        /\ pc[r] \in {"idle", "device"} => ~flag[r]
        /\ pc[r] = "touch" /\ flag[r] => Earned(dev[r])
        /\ pc[r] = "vreread" => Earned(dev[r])
        /\ pc[r] \in {"record", "issued"} /\ seen[r].twoFactor => Earned(dev[r])

\* The bearer check between its two reads.
BearerInv ==
    \A r \in Reqs : pc[r] = "bearer" =>
        /\ token[r] \in Reqs
        /\ pc[token[r]] = "issued"
        /\ seen[token[r]].user = seen[r].user
        /\ ~device[dev[token[r]]].revoked => r \in entitled

IInv ==
    /\ TypeInv
    /\ EpochInv
    /\ RowInv /\ InsertInv /\ MatchInv /\ HolderInv
    /\ OneCodeOneSession /\ CapHoldsForRedemption
    /\ TrustInv /\ FactorInv
    /\ BearerInv /\ BearerCheckIsLinearizable

\* The request is as it was.
Same(s) ==
    /\ pc'[s] = pc[s]
    /\ seen'[s] = seen[s]
    /\ dev'[s] = dev[s]
    /\ ch'[s] = ch[s]
    /\ old'[s] = old[s]
    /\ flag'[s] = flag[s]
    /\ token'[s] = token[s]

(*****************************************************************************)
(* Rows and requests: the shape of what steps read and write                 *)
(*****************************************************************************)

\* A request that has read nothing holds a well-formed snapshot.
LEMMA UnseenType == Unseen \in Snapshot
  BY BoundsAssumption DEF Unseen, Snapshot

\* What a request keeps of an account row is a well-formed snapshot.
LEMMA ReadType ==
    ASSUME TablesOK, NEW u \in Users, NEW p \in Passwords \cup {None}
    PROVE  Read(u, p) \in Snapshot
  BY DEF Read, Snapshot, TablesOK, UserRow

\* Trust is a yes or a no, whatever the row holds.
LEMMA TrustType == \A d \in Devices : IsTrusted(d) \in BOOLEAN
  BY DEF IsTrusted

\* The row that ActiveTwoFactorChallenge returns is outstanding and of that account.
LEMMA ActiveRow ==
    \A u \in Users : \A c \in ActiveTwoFactorChallenge(u) :
        c \in ChallengeIds /\ challenge[c].user = u /\ ~challenge[c].consumed
  BY DEF ActiveTwoFactorChallenge, Outstanding

\* A new password hash leaves a well-formed row,
LEMMA PwRow ==
    \A row \in UserRow, p \in Passwords : [row EXCEPT !.pw = p] \in UserRow
  BY DEF UserRow

\* ... and so does the second-factor switch,
LEMMA TwoFactorRow ==
    \A row \in UserRow, b \in BOOLEAN : [row EXCEPT !.twoFactor = b] \in UserRow
  BY DEF UserRow

\* ... a suspension,
LEMMA SuspendedRow == \A row \in UserRow : [row EXCEPT !.suspended = TRUE] \in UserRow
  BY DEF UserRow

\* ... its end,
LEMMA RestoredRow == \A row \in UserRow : [row EXCEPT !.suspended = FALSE] \in UserRow
  BY DEF UserRow

\* ... and a soft delete.
LEMMA DeletedRow == \A row \in UserRow : [row EXCEPT !.deleted = TRUE] \in UserRow
  BY DEF UserRow

\* So do trusting a device,
LEMMA TrustedRow == \A row \in DeviceRow : [row EXCEPT !.trusted = TRUE] \in DeviceRow
  BY DEF DeviceRow

\* ... revoking it
LEMMA RevokedRow ==
    \A u \in Users : [owner |-> u, trusted |-> FALSE, revoked |-> TRUE] \in DeviceRow
  BY DEF DeviceRow

\* ... and revoking it with its account.
LEMMA RetiredRow ==
    \A u \in Users, row \in DeviceRow :
        [owner |-> u, trusted |-> row.trusted, revoked |-> TRUE] \in DeviceRow
  BY DEF DeviceRow

\* So do a fresh code,
LEMMA NewRow ==
    \A u \in Users, d \in Devices :
        [user |-> u, device |-> d, attempts |-> 0,
         consumed |-> FALSE, expired |-> FALSE] \in ChallengeRow
  BY AttemptsAssumption DEF ChallengeRow

\* ... a deleted one,
LEMMA NoRow == NoChallenge \in ChallengeRow
  BY AttemptsAssumption DEF ChallengeRow, NoChallenge

\* ... a counted guess, as long as the counter was below the cap,
LEMMA FailedRow ==
    ASSUME NEW row \in ChallengeRow, row.attempts < MaxAttempts
    PROVE  [user |-> row.user, device |-> row.device,
            attempts |-> row.attempts + 1,
            consumed |-> row.attempts + 1 >= MaxAttempts,
            expired |-> row.expired] \in ChallengeRow
  BY AttemptsAssumption DEF ChallengeRow

\* ... a spent code
LEMMA SpentRow == \A row \in ChallengeRow : [row EXCEPT !.consumed = TRUE] \in ChallengeRow
  BY DEF ChallengeRow

\* ... and an expired one.
LEMMA ExpiredRow == \A row \in ChallengeRow : [row EXCEPT !.expired = TRUE] \in ChallengeRow
  BY DEF ChallengeRow

\* Answering keeps what the requests hold well-formed.
LEMMA AnswerType ==
    ASSUME LocalsOK, NEW r \in Reqs, Answer(r)
    PROVE  LocalsOK'
  BY UnseenType DEF Answer, Goto, LocalsOK, Pcs

\* Answering ends one request and is not noticed by any other.
LEMMA AnswerEffect ==
    ASSUME LocalsOK, NEW r \in Reqs, Answer(r)
    PROVE  pc'[r] = "done" /\ \A s \in Reqs \ {r} : Same(s)
  BY DEF LocalsOK, Answer, Goto, Same

(***************************************************************************)
(* Who writes what, and how a request moves                                *)
(***************************************************************************)

WritesAccount ==
    \/ \E r \in Reqs, p \in Passwords : SetPassword(r, p)
    \/ \E r \in Reqs : SignOutEverywhere(r) \/ SetTwoFactorEnabled(r)
    \/ \E u \in Users : Suspend(u) \/ Restore(u) \/ DeleteUser(u)
    \/ \E u \in Users, p \in Passwords : ConsumePasswordReset(u, p)

WritesDevice ==
    \/ \E r \in Reqs, d \in Devices : CreateDevice(r, d) \/ RevokeDevice(r, d)
    \/ \E r \in Reqs : ConsumeTwoFactorChallenge(r) \/ TrustDevice(r)
    \/ \E u \in Users : DeleteUser(u)

WritesChallenge ==
    \/ \E r \in Reqs : \/ ReplaceChallengeCommit(r)
                       \/ FailTwoFactorChallenge(r)
                       \/ ConsumeTwoFactorChallenge(r)
    \/ \E c \in ChallengeIds : Expire(c)

Writers ==
    /\ UNCHANGED <<user, epoch>> \/ WritesAccount
    /\ UNCHANGED device \/ WritesDevice
    /\ UNCHANGED challenge \/ WritesChallenge
    /\ UNCHANGED stamped \/ \E r \in Reqs : ReplaceChallengeBegin(r)
    /\ UNCHANGED redeemed \/ \E r \in Reqs : ConsumeTwoFactorChallenge(r)
    /\ UNCHANGED enabledFrom \/ \E r \in Reqs : TrustDevice(r)
    /\ UNCHANGED entitled \/ \E r, t \in Reqs : BearerUser(r, t)
    /\ logins \subseteq logins' /\ logins' \subseteq logins \cup (Reqs \X Outcomes)

\* Every table is written by the statements that say so and by no other.
LEMMA WritersStep == [Next]_vars => Writers
<1>. SUFFICES ASSUME [Next]_vars
              PROVE  Writers
  OBVIOUS
<1>1. ASSUME NEW r \in Reqs, NEW u \in Users, NEW p \in Passwords, SignInPassword(r, u, p)
      PROVE  Writers
  BY <1>1 DEF SignInPassword, Writers, history, Record, Outcomes
<1>2. ASSUME NEW r \in Reqs, NEW d \in Devices, RecogniseDevice(r, d)
      PROVE  Writers
  BY <1>2 DEF RecogniseDevice, Writers, history, Record, Outcomes
<1>3. ASSUME NEW r \in Reqs, NEW d \in Devices, CreateDevice(r, d)
      PROVE  Writers
  BY <1>3 DEF CreateDevice, Writers, WritesDevice, history
<1>4. ASSUME NEW r \in Reqs, TouchDevice(r)
      PROVE  Writers
  BY <1>4 DEF TouchDevice, Writers, tables, history
<1>5. ASSUME NEW r \in Reqs, ReplaceChallengeBegin(r)
      PROVE  Writers
  BY <1>5 DEF ReplaceChallengeBegin, Writers, history
<1>6. ASSUME NEW r \in Reqs, ReplaceChallengeCommit(r)
      PROVE  Writers
  BY <1>6 DEF ReplaceChallengeCommit, Writers, WritesChallenge, history
<1>7. ASSUME NEW r \in Reqs, RecordAndIssue(r)
      PROVE  Writers
  BY <1>7 DEF RecordAndIssue, Writers, history, Record, Outcomes
<1>8. ASSUME NEW r \in Reqs, NEW u \in Users, VerifyUser(r, u)
      PROVE  Writers
  BY <1>8 DEF VerifyUser, Writers, tables, history
<1>9. ASSUME NEW r \in Reqs, NEW d \in Devices, VerifyDevice(r, d)
      PROVE  Writers
  BY <1>9 DEF VerifyDevice, Writers, tables, history
<1>10. ASSUME NEW r \in Reqs, NEW code \in ChallengeIds \cup {None}, VerifyCode(r, code)
      PROVE  Writers
  BY <1>10 DEF VerifyCode, Writers, tables, history
<1>11. ASSUME NEW r \in Reqs, FailTwoFactorChallenge(r)
      PROVE  Writers
  BY <1>11 DEF FailTwoFactorChallenge, Writers, WritesChallenge, history, Record, Outcomes
<1>12. ASSUME NEW r \in Reqs, ConsumeTwoFactorChallenge(r)
      PROVE  Writers
  BY <1>12 DEF ConsumeTwoFactorChallenge, Writers, WritesDevice, WritesChallenge
<1>13. ASSUME NEW r \in Reqs, VerifyRereadDevice(r)
      PROVE  Writers
  BY <1>13 DEF VerifyRereadDevice, Writers, history, Record, Outcomes
<1>14. ASSUME NEW r \in Reqs, NEW t \in Reqs, BearerUser(r, t)
      PROVE  Writers
  BY <1>14 DEF BearerUser, Writers, tables
<1>15. ASSUME NEW r \in Reqs, BearerDevice(r)
      PROVE  Writers
  BY <1>15 DEF BearerDevice, Writers, tables, history
<1>16. ASSUME NEW r \in Reqs, NEW p \in Passwords, ChangePasswordVerify(r, p)
      PROVE  Writers
  BY <1>16 DEF ChangePasswordVerify, Writers, tables, history
<1>17. ASSUME NEW r \in Reqs, NEW p \in Passwords, SetPassword(r, p)
      PROVE  Writers
  BY <1>17 DEF SetPassword, Writers, WritesAccount, history
<1>18. ASSUME NEW r \in Reqs, SignOutEverywhere(r)
      PROVE  Writers
  BY <1>18 DEF SignOutEverywhere, Writers, WritesAccount, history
<1>19. ASSUME NEW r \in Reqs, NEW d \in Devices, RevokeDevice(r, d)
      PROVE  Writers
  BY <1>19 DEF RevokeDevice, Writers, WritesDevice, history
<1>20. ASSUME NEW r \in Reqs, NEW p \in Passwords, NEW on \in BOOLEAN, NEW o \in Devices \cup {None},
             SetTwoFactorVerify(r, p, on, o)
      PROVE  Writers
  BY <1>20 DEF SetTwoFactorVerify, Writers, tables, history
<1>21. ASSUME NEW r \in Reqs, TrustDevice(r)
      PROVE  Writers
  BY <1>21 DEF TrustDevice, Writers, WritesDevice
<1>22. ASSUME NEW r \in Reqs, SetTwoFactorEnabled(r)
      PROVE  Writers
  BY <1>22 DEF SetTwoFactorEnabled, Writers, WritesAccount, history
<1>23. ASSUME NEW u \in Users, NEW p \in Passwords, ConsumePasswordReset(u, p)
      PROVE  Writers
  BY <1>23 DEF ConsumePasswordReset, Writers, WritesAccount, history
<1>24. ASSUME NEW u \in Users, Suspend(u)
      PROVE  Writers
  BY <1>24 DEF Suspend, Writers, WritesAccount, history
<1>25. ASSUME NEW u \in Users, Restore(u)
      PROVE  Writers
  BY <1>25 DEF Restore, Writers, WritesAccount, history
<1>26. ASSUME NEW u \in Users, DeleteUser(u)
      PROVE  Writers
  BY <1>26 DEF DeleteUser, Writers, WritesAccount, WritesDevice, history
<1>27. ASSUME NEW c \in ChallengeIds, Expire(c)
      PROVE  Writers
  BY <1>27 DEF Expire, Writers, WritesChallenge, history
<1>28. ASSUME NEW r \in Reqs, Abandon(r)
      PROVE  Writers
  BY <1>28 DEF Abandon, Writers, tables, history
<1>29. CASE UNCHANGED vars
  BY <1>29 DEF vars, Writers, tables, history
<1>30. QED
  BY <1>1, <1>2, <1>3, <1>4, <1>5, <1>6, <1>7, <1>8, <1>9, <1>10, <1>11, <1>12, <1>13,
     <1>14, <1>15, <1>16, <1>17, <1>18, <1>19, <1>20, <1>21, <1>22, <1>23, <1>24, <1>25,
     <1>26, <1>27, <1>28, <1>29
  DEF Next, SignInStep, VerifyStep, AccountStep, OthersStep

\* A request reads an account and sets out.
Begins(s) ==
    /\ pc[s] = "idle"
    /\ pc'[s] \in {"device", "vdevice", "bearer"}
    /\ \E u \in Users, p \in Passwords \cup {None} :
          /\ seen'[s] = Read(u, p)
          /\ ~user[u].suspended
          /\ p # None => user[u].pw = p
          /\ pc'[s] = "device" <=> p # None
    /\ UNCHANGED <<user, epoch, device, challenge, dev, ch, flag>>
    /\ pc'[s] = "bearer" => \E t \in Reqs : BearerUser(s, t)

\* It settles on a device.
Picks(s) ==
    /\ \/ /\ pc[s] = "device"
          /\ pc'[s] = "touch"
          /\ flag'[s] => flag[s] \/ device[dev'[s]].trusted
       \/ pc[s] = "vdevice" /\ pc'[s] = "vcode"
       \/ pc[s] = "authorized" /\ pc'[s] = "trust"
    /\ dev'[s] \in Devices
    /\ device'[dev'[s]].owner = seen[s].user
    /\ seen'[s] = seen[s]
    /\ ch'[s] = ch[s]

\* It goes on with the device and the account it has.
Proceeds(s) ==
    /\ seen'[s] = seen[s]
    /\ dev'[s] = dev[s]
    /\ \/ /\ pc[s] = "touch"
          /\ pc'[s] = IF seen[s].twoFactor /\ ~flag[s] THEN "replace" ELSE "record"
          /\ ch'[s] = ch[s]
       \/ pc[s] = "replace" /\ pc'[s] = "insert" /\ ReplaceChallengeBegin(s)
       \/ /\ pc[s] \in {"record", "vreread"}
          /\ pc'[s] = "issued"
          /\ ch'[s] = ch[s]
          /\ RecordAndIssue(s) \/ VerifyRereadDevice(s)
       \/ /\ pc[s] = "vcode"
          /\ pc'[s] \in {"vfail", "vspend"}
          /\ ch'[s] \in ActiveTwoFactorChallenge(seen[s].user)
          /\ pc'[s] = "vspend" => challenge[ch'[s]].device = dev[s]
          /\ UNCHANGED <<challenge, stamped>>
       \/ /\ pc[s] = "vspend"
          /\ pc'[s] = "vreread"
          /\ ch'[s] = ch[s]
          /\ Spendable(ch[s])
          /\ ConsumeTwoFactorChallenge(s)
       \/ pc[s] = "bearer" /\ pc'[s] = "authorized" /\ BearerDevice(s)
       \/ /\ pc[s] \in {"authorized", "trust"}
          /\ pc'[s] \in {"setpassword", "settwofactor"}

\* It gets its answer.
Ends(s) == pc[s] # "issued" /\ pc'[s] = "done"

Moves(s) == Same(s) \/ Ends(s) \/ Begins(s) \/ Picks(s) \/ Proceeds(s)

\* Every step moves a request in one of these ways, or leaves it alone.
LEMMA MovesStep == TypeInv /\ [Next]_vars => \A s \in Reqs : Moves(s)
<1>. SUFFICES ASSUME TypeInv, [Next]_vars, NEW s \in Reqs
              PROVE  Moves(s)
  OBVIOUS
<1>1. ASSUME NEW r \in Reqs, NEW u \in Users, NEW p \in Passwords, SignInPassword(r, u, p)
      PROVE  Moves(s)
  <2>1. p # None
    BY NoneAssumption
  <2>2. CASE s = r /\ pc'[s] = "device"
    <3>1. seen'[s] = Read(u, p) /\ ~user[u].suspended /\ user[u].pw = p
      BY <1>1, <2>2, AnswerEffect DEF SignInPassword, TypeInv, TypeOK, LocalsOK
    <3>2. pc[s] = "idle" /\ UNCHANGED <<user, epoch, device, challenge, dev, ch, flag>>
      BY <1>1, <2>2, AnswerEffect DEF SignInPassword, TypeInv, TypeOK
    <3>3. QED
      BY <2>1, <2>2, <3>1, <3>2 DEF Moves, Begins
  <2>3. QED
    BY <1>1, <2>2, AnswerEffect
    DEF SignInPassword, TypeInv, Moves, Ends, Goto, Same, TypeOK, LocalsOK
<1>2. ASSUME NEW r \in Reqs, NEW d \in Devices, RecogniseDevice(r, d)
      PROVE  Moves(s)
  BY <1>2, AnswerEffect
  DEF RecogniseDevice, TypeInv, Moves, Ends, Goto, IsTrusted, Same, TypeOK, LocalsOK,
      Picks, TablesOK, DeviceRow
<1>3. ASSUME NEW r \in Reqs, NEW d \in Devices, CreateDevice(r, d)
      PROVE  Moves(s)
  BY <1>3
  DEF CreateDevice, TypeInv, Moves, Ends, Goto, Same, TypeOK, LocalsOK, Picks, TablesOK,
      DeviceRow
<1>4. ASSUME NEW r \in Reqs, TouchDevice(r)
      PROVE  Moves(s)
  BY <1>4
  DEF TouchDevice, TypeInv, Moves, Ends, Goto, tables, locals, Same, TypeOK, LocalsOK,
      Proceeds
<1>5. ASSUME NEW r \in Reqs, ReplaceChallengeBegin(r)
      PROVE  Moves(s)
  BY <1>5
  DEF ReplaceChallengeBegin, TypeInv, Moves, Ends, Goto, Same, TypeOK, LocalsOK,
      Proceeds
<1>6. ASSUME NEW r \in Reqs, ReplaceChallengeCommit(r)
      PROVE  Moves(s)
  BY <1>6, AnswerEffect
  DEF ReplaceChallengeCommit, TypeInv, Moves, Ends, Same, TypeOK, LocalsOK
<1>7. ASSUME NEW r \in Reqs, RecordAndIssue(r)
      PROVE  Moves(s)
  BY <1>7
  DEF RecordAndIssue, TypeInv, Moves, Ends, Goto, locals, Same, TypeOK, LocalsOK,
      Proceeds
<1>8. ASSUME NEW r \in Reqs, NEW u \in Users, VerifyUser(r, u)
      PROVE  Moves(s)
  <2>1. CASE s = r /\ pc'[s] = "vdevice"
    <3>1. seen'[s] = Read(u, None) /\ ~user[u].suspended
      BY <1>8, <2>1, AnswerEffect DEF VerifyUser, TypeInv, TypeOK, LocalsOK
    <3>2. pc[s] = "idle" /\ UNCHANGED <<user, epoch, device, challenge, dev, ch, flag>>
      BY <1>8, <2>1, AnswerEffect DEF VerifyUser, tables, TypeInv, TypeOK
    <3>3. QED
      BY <2>1, <3>1, <3>2 DEF Moves, Begins
  <2>2. QED
    BY <1>8, <2>1, AnswerEffect
    DEF VerifyUser, TypeInv, Moves, Ends, Goto, tables, Same, TypeOK, LocalsOK
<1>9. ASSUME NEW r \in Reqs, NEW d \in Devices, VerifyDevice(r, d)
      PROVE  Moves(s)
  BY <1>9, AnswerEffect
  DEF VerifyDevice, TypeInv, Moves, Ends, Goto, tables, Same, TypeOK, LocalsOK, Picks,
      TablesOK, DeviceRow
<1>10. ASSUME NEW r \in Reqs, NEW code \in ChallengeIds \cup {None}, VerifyCode(r, code)
      PROVE  Moves(s)
  BY <1>10, AnswerEffect
  DEF VerifyCode, TypeInv, Moves, Ends, Goto, tables, Same, TypeOK, LocalsOK, Proceeds
<1>11. ASSUME NEW r \in Reqs, FailTwoFactorChallenge(r)
      PROVE  Moves(s)
  BY <1>11, AnswerEffect
  DEF FailTwoFactorChallenge, TypeInv, Moves, Ends, Same, TypeOK, LocalsOK
<1>12. ASSUME NEW r \in Reqs, ConsumeTwoFactorChallenge(r)
      PROVE  Moves(s)
  BY <1>12, AnswerEffect
  DEF ConsumeTwoFactorChallenge, TypeInv, Moves, Ends, Goto, locals, Same, TypeOK,
      LocalsOK, Proceeds
<1>13. ASSUME NEW r \in Reqs, VerifyRereadDevice(r)
      PROVE  Moves(s)
  BY <1>13, AnswerEffect
  DEF VerifyRereadDevice, TypeInv, Moves, Ends, Goto, locals, Same, TypeOK, LocalsOK,
      Proceeds
<1>14. ASSUME NEW r \in Reqs, NEW t \in Reqs, BearerUser(r, t)
      PROVE  Moves(s)
  BY <1>14, AnswerEffect
  DEF BearerUser, TypeInv, Moves, Ends, Goto, tables, Same, TypeOK, LocalsOK, Begins,
      Read, UserInv, Waiting
<1>15. ASSUME NEW r \in Reqs, BearerDevice(r)
      PROVE  Moves(s)
  BY <1>15, AnswerEffect
  DEF BearerDevice, TypeInv, Moves, Ends, Goto, tables, locals, Same, TypeOK, LocalsOK,
      Proceeds
<1>16. ASSUME NEW r \in Reqs, NEW p \in Passwords, ChangePasswordVerify(r, p)
      PROVE  Moves(s)
  BY <1>16, AnswerEffect
  DEF ChangePasswordVerify, TypeInv, Moves, Ends, Goto, tables, locals, Same, TypeOK,
      LocalsOK, Proceeds
<1>17. ASSUME NEW r \in Reqs, NEW p \in Passwords, SetPassword(r, p)
      PROVE  Moves(s)
  BY <1>17, AnswerEffect DEF SetPassword, TypeInv, Moves, Ends, Same, TypeOK, LocalsOK
<1>18. ASSUME NEW r \in Reqs, SignOutEverywhere(r)
      PROVE  Moves(s)
  BY <1>18, AnswerEffect
  DEF SignOutEverywhere, TypeInv, Moves, Ends, Same, TypeOK, LocalsOK
<1>19. ASSUME NEW r \in Reqs, NEW d \in Devices, RevokeDevice(r, d)
      PROVE  Moves(s)
  BY <1>19, AnswerEffect DEF RevokeDevice, TypeInv, Moves, Ends, Same, TypeOK, LocalsOK
<1>20. ASSUME NEW r \in Reqs, NEW p \in Passwords, NEW on \in BOOLEAN, NEW o \in Devices \cup {None},
             SetTwoFactorVerify(r, p, on, o)
      PROVE  Moves(s)
  BY <1>20, AnswerEffect
  DEF SetTwoFactorVerify, TypeInv, Moves, Ends, Goto, tables, Owns, Same, TypeOK,
      LocalsOK, Picks, TablesOK, DeviceRow, Proceeds
<1>21. ASSUME NEW r \in Reqs, TrustDevice(r)
      PROVE  Moves(s)
  BY <1>21, AnswerEffect
  DEF TrustDevice, TypeInv, Moves, Ends, Goto, locals, Same, TypeOK, LocalsOK, Proceeds
<1>22. ASSUME NEW r \in Reqs, SetTwoFactorEnabled(r)
      PROVE  Moves(s)
  BY <1>22, AnswerEffect
  DEF SetTwoFactorEnabled, TypeInv, Moves, Ends, Same, TypeOK, LocalsOK
<1>23. ASSUME NEW u \in Users, NEW p \in Passwords, ConsumePasswordReset(u, p)
      PROVE  Moves(s)
  BY <1>23 DEF ConsumePasswordReset, TypeInv, Moves, Ends, locals, Same, TypeOK, LocalsOK
<1>24. ASSUME NEW u \in Users, Suspend(u)
      PROVE  Moves(s)
  BY <1>24 DEF Suspend, TypeInv, Moves, Ends, locals, Same, TypeOK, LocalsOK
<1>25. ASSUME NEW u \in Users, Restore(u)
      PROVE  Moves(s)
  BY <1>25 DEF Restore, TypeInv, Moves, Ends, locals, Same, TypeOK, LocalsOK
<1>26. ASSUME NEW u \in Users, DeleteUser(u)
      PROVE  Moves(s)
  BY <1>26 DEF DeleteUser, TypeInv, Moves, Ends, locals, Same, TypeOK, LocalsOK
<1>27. ASSUME NEW c \in ChallengeIds, Expire(c)
      PROVE  Moves(s)
  BY <1>27 DEF Expire, TypeInv, Moves, Ends, locals, Same, TypeOK, LocalsOK
<1>28. ASSUME NEW r \in Reqs, Abandon(r)
      PROVE  Moves(s)
  BY <1>28, AnswerEffect DEF Abandon, TypeInv, Moves, Ends, tables, Same, TypeOK, LocalsOK
<1>29. CASE UNCHANGED vars
  BY <1>29 DEF vars, Moves, Same, locals
<1>30. QED
  BY <1>1, <1>2, <1>3, <1>4, <1>5, <1>6, <1>7, <1>8, <1>9, <1>10, <1>11, <1>12, <1>13,
     <1>14, <1>15, <1>16, <1>17, <1>18, <1>19, <1>20, <1>21, <1>22, <1>23, <1>24, <1>25,
     <1>26, <1>27, <1>28, <1>29
  DEF Next, SignInStep, VerifyStep, AccountStep, OthersStep

(***************************************************************************)
(* Rows and requests                                                       *)
(***************************************************************************)

\* No step gives a request anything ill-formed to hold.
LEMMA LocalsStep == TypeInv /\ [Next]_vars => LocalsOK'
<1>. SUFFICES ASSUME TypeInv, [Next]_vars
              PROVE  LocalsOK'
  OBVIOUS
<1>1. ASSUME NEW r \in Reqs, NEW u \in Users, NEW p \in Passwords, SignInPassword(r, u, p)
      PROVE  LocalsOK'
  BY <1>1, AnswerType, ReadType DEF SignInPassword, TypeInv, TypeOK, LocalsOK, Goto, Pcs
<1>2. ASSUME NEW r \in Reqs, NEW d \in Devices, RecogniseDevice(r, d)
      PROVE  LocalsOK'
  BY <1>2, AnswerType, TrustType DEF RecogniseDevice, TypeInv, TypeOK, LocalsOK, Goto, Pcs
<1>3. ASSUME NEW r \in Reqs, NEW d \in Devices, CreateDevice(r, d)
      PROVE  LocalsOK'
  BY <1>3 DEF CreateDevice, TypeInv, TypeOK, LocalsOK, Goto, Pcs
<1>4. ASSUME NEW r \in Reqs, TouchDevice(r)
      PROVE  LocalsOK'
  BY <1>4 DEF TouchDevice, TypeInv, TypeOK, LocalsOK, Goto, Pcs, tables, locals
<1>5. ASSUME NEW r \in Reqs, ReplaceChallengeBegin(r)
      PROVE  LocalsOK'
  BY <1>5, BoundsAssumption
  DEF ReplaceChallengeBegin, TypeInv, TypeOK, LocalsOK, Goto, Pcs, TablesOK,
      Outstanding, ChallengeIds
<1>6. ASSUME NEW r \in Reqs, ReplaceChallengeCommit(r)
      PROVE  LocalsOK'
  BY <1>6, AnswerType DEF ReplaceChallengeCommit, TypeInv, TypeOK, LocalsOK, Pcs
<1>7. ASSUME NEW r \in Reqs, RecordAndIssue(r)
      PROVE  LocalsOK'
  BY <1>7 DEF RecordAndIssue, TypeInv, TypeOK, LocalsOK, Goto, Pcs, locals
<1>8. ASSUME NEW r \in Reqs, NEW u \in Users, VerifyUser(r, u)
      PROVE  LocalsOK'
  BY <1>8, AnswerType, ReadType
  DEF VerifyUser, TypeInv, TypeOK, LocalsOK, Goto, Pcs, tables
<1>9. ASSUME NEW r \in Reqs, NEW d \in Devices, VerifyDevice(r, d)
      PROVE  LocalsOK'
  BY <1>9, AnswerType DEF VerifyDevice, TypeInv, TypeOK, LocalsOK, Goto, Pcs, tables
<1>10. ASSUME NEW r \in Reqs, NEW code \in ChallengeIds \cup {None}, VerifyCode(r, code)
      PROVE  LocalsOK'
  BY <1>10, AnswerType
  DEF VerifyCode, TypeInv, TypeOK, LocalsOK, Goto, Pcs, tables,
      ActiveTwoFactorChallenge, Outstanding
<1>11. ASSUME NEW r \in Reqs, FailTwoFactorChallenge(r)
      PROVE  LocalsOK'
  BY <1>11, AnswerType DEF FailTwoFactorChallenge, TypeInv, TypeOK, LocalsOK, Pcs
<1>12. ASSUME NEW r \in Reqs, ConsumeTwoFactorChallenge(r)
      PROVE  LocalsOK'
  BY <1>12, AnswerType
  DEF ConsumeTwoFactorChallenge, TypeInv, TypeOK, LocalsOK, Goto, Pcs, locals
<1>13. ASSUME NEW r \in Reqs, VerifyRereadDevice(r)
      PROVE  LocalsOK'
  BY <1>13, AnswerType
  DEF VerifyRereadDevice, TypeInv, TypeOK, LocalsOK, Goto, Pcs, locals
<1>14. ASSUME NEW r \in Reqs, NEW t \in Reqs, BearerUser(r, t)
      PROVE  LocalsOK'
  BY <1>14, AnswerType, ReadType
  DEF BearerUser, TypeInv, TypeOK, LocalsOK, Goto, Pcs, tables, UserInv, Waiting
<1>15. ASSUME NEW r \in Reqs, BearerDevice(r)
      PROVE  LocalsOK'
  BY <1>15, AnswerType
  DEF BearerDevice, TypeInv, TypeOK, LocalsOK, Goto, Pcs, tables, locals
<1>16. ASSUME NEW r \in Reqs, NEW p \in Passwords, ChangePasswordVerify(r, p)
      PROVE  LocalsOK'
  BY <1>16, AnswerType
  DEF ChangePasswordVerify, TypeInv, TypeOK, LocalsOK, Goto, Pcs, tables, locals
<1>17. ASSUME NEW r \in Reqs, NEW p \in Passwords, SetPassword(r, p)
      PROVE  LocalsOK'
  BY <1>17, AnswerType DEF SetPassword, TypeInv, TypeOK, LocalsOK, Pcs
<1>18. ASSUME NEW r \in Reqs, SignOutEverywhere(r)
      PROVE  LocalsOK'
  BY <1>18, AnswerType DEF SignOutEverywhere, TypeInv, TypeOK, LocalsOK, Pcs
<1>19. ASSUME NEW r \in Reqs, NEW d \in Devices, RevokeDevice(r, d)
      PROVE  LocalsOK'
  BY <1>19, AnswerType DEF RevokeDevice, TypeInv, TypeOK, LocalsOK, Pcs
<1>20. ASSUME NEW r \in Reqs, NEW p \in Passwords, NEW on \in BOOLEAN, NEW o \in Devices \cup {None},
             SetTwoFactorVerify(r, p, on, o)
      PROVE  LocalsOK'
  BY <1>20, AnswerType
  DEF SetTwoFactorVerify, TypeInv, TypeOK, LocalsOK, Goto, Pcs, tables, Owns
<1>21. ASSUME NEW r \in Reqs, TrustDevice(r)
      PROVE  LocalsOK'
  BY <1>21, AnswerType DEF TrustDevice, TypeInv, TypeOK, LocalsOK, Goto, Pcs, locals
<1>22. ASSUME NEW r \in Reqs, SetTwoFactorEnabled(r)
      PROVE  LocalsOK'
  BY <1>22, AnswerType DEF SetTwoFactorEnabled, TypeInv, TypeOK, LocalsOK, Pcs
<1>23. ASSUME NEW u \in Users, NEW p \in Passwords, ConsumePasswordReset(u, p)
      PROVE  LocalsOK'
  BY <1>23 DEF ConsumePasswordReset, TypeInv, TypeOK, LocalsOK, Pcs, locals
<1>24. ASSUME NEW u \in Users, Suspend(u)
      PROVE  LocalsOK'
  BY <1>24 DEF Suspend, TypeInv, TypeOK, LocalsOK, Pcs, locals
<1>25. ASSUME NEW u \in Users, Restore(u)
      PROVE  LocalsOK'
  BY <1>25 DEF Restore, TypeInv, TypeOK, LocalsOK, Pcs, locals
<1>26. ASSUME NEW u \in Users, DeleteUser(u)
      PROVE  LocalsOK'
  BY <1>26 DEF DeleteUser, TypeInv, TypeOK, LocalsOK, Pcs, locals
<1>27. ASSUME NEW c \in ChallengeIds, Expire(c)
      PROVE  LocalsOK'
  BY <1>27 DEF Expire, TypeInv, TypeOK, LocalsOK, Pcs, locals
<1>28. ASSUME NEW r \in Reqs, Abandon(r)
      PROVE  LocalsOK'
  BY <1>28, AnswerType DEF Abandon, TypeInv, TypeOK, LocalsOK, Pcs, tables
<1>29. CASE UNCHANGED vars
  BY <1>29 DEF vars, TypeInv, TypeOK, LocalsOK, locals
<1>30. QED
  BY <1>1, <1>2, <1>3, <1>4, <1>5, <1>6, <1>7, <1>8, <1>9, <1>10, <1>11, <1>12, <1>13,
     <1>14, <1>15, <1>16, <1>17, <1>18, <1>19, <1>20, <1>21, <1>22, <1>23, <1>24, <1>25,
     <1>26, <1>27, <1>28, <1>29
  DEF Next, SignInStep, VerifyStep, AccountStep, OthersStep

\* No step writes an ill-formed row.  The counter of a code stays within its cap
\* because only an unconsumed code is counted on, and those are below the cap.
LEMMA TablesStep == TypeInv /\ [Next]_vars => TablesOK'
<1>. SUFFICES ASSUME TypeInv, [Next]_vars
              PROVE  TablesOK'
  OBVIOUS
<1>. USE WritersStep DEF Writers
<1>1. user' \in [Users -> UserRow] /\ epoch' \in [Users -> 0..MaxEpoch]
  <2>1. ASSUME NEW r \in Reqs, NEW p \in Passwords, SetPassword(r, p)
        PROVE  user' \in [Users -> UserRow] /\ epoch' \in [Users -> 0..MaxEpoch]
    BY <2>1, PwRow, BoundsAssumption DEF SetPassword, BumpEpoch, TypeInv, TypeOK, TablesOK
  <2>2. ASSUME NEW r \in Reqs, SignOutEverywhere(r)
        PROVE  user' \in [Users -> UserRow] /\ epoch' \in [Users -> 0..MaxEpoch]
    BY <2>2, BoundsAssumption DEF SignOutEverywhere, BumpEpoch, TypeInv, TypeOK, TablesOK
  <2>3. ASSUME NEW r \in Reqs, SetTwoFactorEnabled(r)
        PROVE  user' \in [Users -> UserRow] /\ epoch' \in [Users -> 0..MaxEpoch]
    BY <2>3, TwoFactorRow DEF SetTwoFactorEnabled, TypeInv, TypeOK, TablesOK, LocalsOK
  <2>4. ASSUME NEW u \in Users, Suspend(u)
        PROVE  user' \in [Users -> UserRow] /\ epoch' \in [Users -> 0..MaxEpoch]
    BY <2>4, SuspendedRow, BoundsAssumption
    DEF Suspend, BumpEpoch, TypeInv, TypeOK, TablesOK
  <2>5. ASSUME NEW u \in Users, Restore(u)
        PROVE  user' \in [Users -> UserRow] /\ epoch' \in [Users -> 0..MaxEpoch]
    BY <2>5, RestoredRow DEF Restore, TypeInv, TypeOK, TablesOK
  <2>6. ASSUME NEW u \in Users, DeleteUser(u)
        PROVE  user' \in [Users -> UserRow] /\ epoch' \in [Users -> 0..MaxEpoch]
    BY <2>6, DeletedRow DEF DeleteUser, TypeInv, TypeOK, TablesOK
  <2>7. ASSUME NEW u \in Users, NEW p \in Passwords, ConsumePasswordReset(u, p)
        PROVE  user' \in [Users -> UserRow] /\ epoch' \in [Users -> 0..MaxEpoch]
    BY <2>7, PwRow, BoundsAssumption
    DEF ConsumePasswordReset, BumpEpoch, TypeInv, TypeOK, TablesOK
  <2>8. QED
    BY <2>1, <2>2, <2>3, <2>4, <2>5, <2>6, <2>7
    DEF WritesAccount, TypeInv, TypeOK, TablesOK
<1>2. device' \in [Devices -> DeviceRow]
  <2>1. ASSUME NEW r \in Reqs, NEW d \in Devices, CreateDevice(r, d)
        PROVE  device' \in [Devices -> DeviceRow]
    BY <2>1 DEF CreateDevice, TypeInv, TypeOK, TablesOK, UserInv, Waiting, DeviceRow
  <2>2. ASSUME NEW r \in Reqs, NEW d \in Devices, RevokeDevice(r, d)
        PROVE  device' \in [Devices -> DeviceRow]
    BY <2>2, RevokedRow DEF RevokeDevice, TypeInv, TypeOK, TablesOK, UserInv, Waiting
  <2>3. ASSUME NEW r \in Reqs, ConsumeTwoFactorChallenge(r)
        PROVE  device' \in [Devices -> DeviceRow]
    BY <2>3, TrustedRow DEF ConsumeTwoFactorChallenge, TypeInv, TypeOK, TablesOK
  <2>4. ASSUME NEW r \in Reqs, TrustDevice(r)
        PROVE  device' \in [Devices -> DeviceRow]
    BY <2>4, TrustedRow DEF TrustDevice, TypeInv, TypeOK, TablesOK
  <2>5. ASSUME NEW u \in Users, DeleteUser(u)
        PROVE  device' \in [Devices -> DeviceRow]
    BY <2>5, RetiredRow DEF DeleteUser, TypeInv, TypeOK, TablesOK
  <2>6. QED
    BY <2>1, <2>2, <2>3, <2>4, <2>5 DEF WritesDevice, TypeInv, TypeOK, TablesOK
<1>3. challenge' \in [ChallengeIds -> ChallengeRow]
  <2>1. ASSUME NEW r \in Reqs, ReplaceChallengeCommit(r)
        PROVE  challenge' \in [ChallengeIds -> ChallengeRow]
    BY <2>1, NewRow, NoRow
    DEF ReplaceChallengeCommit, TypeInv, TypeOK, TablesOK, UserInv, Waiting, DeviceInv,
        OnDevice
  <2>2. ASSUME NEW r \in Reqs, FailTwoFactorChallenge(r)
        PROVE  challenge' \in [ChallengeIds -> ChallengeRow]
    BY <2>2, FailedRow
    DEF FailTwoFactorChallenge, Spendable, TypeInv, TypeOK, TablesOK, AttemptsInv
  <2>3. ASSUME NEW r \in Reqs, ConsumeTwoFactorChallenge(r)
        PROVE  challenge' \in [ChallengeIds -> ChallengeRow]
    BY <2>3, SpentRow DEF ConsumeTwoFactorChallenge, TypeInv, TypeOK, TablesOK
  <2>4. ASSUME NEW c \in ChallengeIds, Expire(c)
        PROVE  challenge' \in [ChallengeIds -> ChallengeRow]
    BY <2>4, ExpiredRow DEF Expire, TypeInv, TypeOK, TablesOK
  <2>5. QED
    BY <2>1, <2>2, <2>3, <2>4 DEF WritesChallenge, TypeInv, TypeOK, TablesOK
<1>4. stamped' \in 0..MaxChallenges
  BY BoundsAssumption DEF ReplaceChallengeBegin, TypeInv, TypeOK, TablesOK
<1>5. logins' \subseteq Reqs \X Outcomes
  BY DEF TypeInv, TypeOK, TablesOK
<1>6. QED
  BY <1>1, <1>2, <1>3, <1>4, <1>5 DEF TablesOK

\* An unconsumed code is below the cap: the statement that reaches it consumes.
LEMMA AttemptsStep == TypeInv /\ [Next]_vars => AttemptsInv'
<1>. SUFFICES ASSUME TypeInv, [Next]_vars
              PROVE  AttemptsInv'
  OBVIOUS
<1>1. \A c \in ChallengeIds : challenge[c].attempts \in Int
  BY DEF TypeInv, TypeOK, TablesOK, ChallengeRow
<1>2. ASSUME NEW r \in Reqs, ReplaceChallengeCommit(r)
      PROVE  AttemptsInv'
  BY <1>2, AttemptsAssumption
  DEF ReplaceChallengeCommit, TypeInv, AttemptsInv, NoChallenge, ChallengeIds
<1>3. ASSUME NEW r \in Reqs, FailTwoFactorChallenge(r)
      PROVE  AttemptsInv'
  <2>1. \A c \in ChallengeIds : c # ch[r] => challenge'[c] = challenge[c]
    BY <1>3 DEF FailTwoFactorChallenge, TypeInv, TypeOK, TablesOK
  <2>2. ch[r] \in ChallengeIds
    BY <1>3, BoundsAssumption
    DEF FailTwoFactorChallenge, TypeInv, TypeOK, TablesOK, CodeInv, OnCode, ChallengeIds
  <2>3. CASE ~Spendable(ch[r])
    BY <1>3, <2>3 DEF FailTwoFactorChallenge, TypeInv, AttemptsInv
  <2>4. CASE Spendable(ch[r])
    <3>1. challenge'[ch[r]].attempts = challenge[ch[r]].attempts + 1
      BY <1>3, <2>2, <2>4 DEF FailTwoFactorChallenge, TypeInv, TypeOK, TablesOK
    <3>2. challenge'[ch[r]].consumed = (challenge[ch[r]].attempts + 1 >= MaxAttempts)
      BY <1>3, <2>2, <2>4 DEF FailTwoFactorChallenge, TypeInv, TypeOK, TablesOK
    <3>3. ~challenge'[ch[r]].consumed => ~(challenge[ch[r]].attempts + 1 >= MaxAttempts)
      BY <3>2, Zenon
    <3>4. ~challenge'[ch[r]].consumed => challenge'[ch[r]].attempts < MaxAttempts
      BY <1>1, <2>2, <3>1, <3>3, AttemptsAssumption
    <3>5. QED
      BY <2>1, <3>4 DEF TypeInv, AttemptsInv, ChallengeIds
  <2>5. QED
    BY <2>3, <2>4
<1>4. ASSUME NEW r \in Reqs, ConsumeTwoFactorChallenge(r)
      PROVE  AttemptsInv'
  <2>1. ASSUME NEW c \in ChallengeIds, ~challenge'[c].consumed
        PROVE  challenge'[c] = challenge[c]
    <3>1. ch[r] # c => challenge'[c] = challenge[c]
      BY <1>4 DEF ConsumeTwoFactorChallenge, TypeInv, TypeOK, TablesOK
    <3>2. ch[r] = c => challenge'[c] = challenge[c]
      BY <1>4, <2>1 DEF ConsumeTwoFactorChallenge, TypeInv, TypeOK, TablesOK, ChallengeRow
    <3>3. QED
      BY <3>1, <3>2
  <2>2. QED
    BY <2>1 DEF TypeInv, AttemptsInv, ChallengeIds
<1>5. ASSUME NEW c \in ChallengeIds, Expire(c)
      PROVE  AttemptsInv'
  BY <1>5 DEF Expire, TypeInv, TypeOK, TablesOK, AttemptsInv, ChallengeRow, ChallengeIds
<1>6. CASE UNCHANGED challenge
  BY <1>6 DEF TypeInv, AttemptsInv, ChallengeIds
<1>7. QED
  BY <1>2, <1>3, <1>4, <1>5, <1>6, WritersStep DEF Writers, WritesChallenge

\* The history is about rows and requests that exist.
LEMMA HistoryStep == TypeInv /\ [Next]_vars => HistoryOK'
<1>. SUFFICES ASSUME TypeInv, [Next]_vars
              PROVE  HistoryOK'
  OBVIOUS
<1>. USE WritersStep DEF Writers
<1>1. redeemed' \subseteq ChallengeIds
  <2>1. ASSUME NEW r \in Reqs, ConsumeTwoFactorChallenge(r)
        PROVE  ch[r] \in ChallengeIds
    BY <2>1, BoundsAssumption
    DEF ConsumeTwoFactorChallenge, TypeInv, TypeOK, TablesOK, CodeInv, OnCode,
        ChallengeIds
  <2>2. QED
    BY <2>1 DEF ConsumeTwoFactorChallenge, TypeInv, TypeOK, HistoryOK
<1>2. enabledFrom' \subseteq Devices
  BY DEF TrustDevice, TypeInv, TypeOK, HistoryOK, DeviceInv, OnDevice
<1>3. entitled' \subseteq Reqs
  BY DEF BearerUser, TypeInv, TypeOK, HistoryOK
<1>4. QED
  BY <1>1, <1>2, <1>3 DEF HistoryOK, ChallengeIds

\* A request at work has read an account.
LEMMA UserStep == TypeInv /\ [Next]_vars => UserInv'
<1>. SUFFICES ASSUME TypeInv, [Next]_vars, NEW s \in Reqs
              PROVE  (pc[s] \notin Waiting => seen[s].user \in Users)'
  BY DEF UserInv
<1>. USE DEF Waiting
<1>1. CASE Same(s)
  BY <1>1 DEF Same, TypeInv, UserInv
<1>2. CASE Begins(s)
  BY <1>2 DEF Begins, Read
<1>3. CASE Picks(s) \/ Proceeds(s)
  BY <1>3 DEF Picks, Proceeds, TypeInv, UserInv
<1>4. QED
  BY <1>1, <1>2, <1>3, MovesStep DEF Moves, Ends

\* Device rows do not change hands.
LEMMA OwnersStay ==
    TypeInv /\ [Next]_vars =>
        \A d \in Devices : device[d].owner \in Users => device'[d].owner = device[d].owner
<1>. SUFFICES ASSUME TypeInv, [Next]_vars, NEW e \in Devices, device[e].owner \in Users
              PROVE  device'[e].owner = device[e].owner
  OBVIOUS
<1>1. ASSUME NEW r \in Reqs, NEW d \in Devices, CreateDevice(r, d) \/ RevokeDevice(r, d)
      PROVE  device'[e].owner = device[e].owner
  BY <1>1, NoneAssumption DEF CreateDevice, RevokeDevice, TypeInv, TypeOK, TablesOK
<1>2. ASSUME NEW r \in Reqs, ConsumeTwoFactorChallenge(r) \/ TrustDevice(r)
      PROVE  device'[e].owner = device[e].owner
  BY <1>2 DEF ConsumeTwoFactorChallenge, TrustDevice, TypeInv, TypeOK, TablesOK, DeviceRow
<1>3. ASSUME NEW u \in Users, DeleteUser(u)
      PROVE  device'[e].owner = device[e].owner
  BY <1>3 DEF DeleteUser
<1>4. QED
  BY <1>1, <1>2, <1>3, WritersStep DEF Writers, WritesDevice

\* The device a request holds belongs to the account it read.
LEMMA DeviceStep == TypeInv /\ [Next]_vars => DeviceInv'
<1>. SUFFICES ASSUME TypeInv, [Next]_vars, NEW s \in Reqs
              PROVE  (pc[s] \in OnDevice =>
                         dev[s] \in Devices /\ device[dev[s]].owner = seen[s].user)'
  BY DEF DeviceInv, OnDevice
<1>. USE OwnersStay DEF OnDevice
<1>1. CASE Same(s)
  BY <1>1 DEF Same, TypeInv, DeviceInv, UserInv, Waiting
<1>2. CASE Begins(s) \/ Picks(s)
  BY <1>2 DEF Begins, Picks
<1>3. CASE Proceeds(s)
  BY <1>3 DEF Proceeds, TypeInv, DeviceInv, UserInv, Waiting
<1>4. QED
  BY <1>1, <1>2, <1>3, MovesStep DEF Moves, Ends

\* The code a request holds has been stamped.
LEMMA CodeStep == TypeInv /\ RowInv /\ [Next]_vars => CodeInv'
<1>. SUFFICES ASSUME TypeInv, RowInv, [Next]_vars, NEW s \in Reqs
              PROVE  (pc[s] \in OnCode => ch[s] \in 1..stamped)'
  BY DEF CodeInv, OnCode
<1>. USE DEF OnCode
<1>1. stamped \in Int /\ stamped' \in Int /\ stamped <= stamped' /\ 0 <= stamped
  BY WritersStep, BoundsAssumption
  DEF Writers, ReplaceChallengeBegin, TypeInv, TypeOK, TablesOK
<1>2. CASE Same(s)
  BY <1>1, <1>2 DEF Same, TypeInv, CodeInv
<1>3. CASE Begins(s) \/ Picks(s)
  BY <1>3 DEF Begins, Picks
<1>4. CASE Proceeds(s)
  <2>1. CASE pc[s] = "replace"
    BY <1>1, <1>4, <2>1
    DEF Proceeds, ReplaceChallengeBegin, TypeInv, TypeOK, LocalsOK
  <2>2. CASE pc[s] = "vcode"
    <3>1. seen[s].user \in Users
      BY <2>2 DEF TypeInv, UserInv, Waiting
    <3>2. ASSUME NEW c \in ActiveTwoFactorChallenge(seen[s].user)
          PROVE  c \in 1..stamped
      <4>1. c \in 1..MaxChallenges /\ challenge[c].user = seen[s].user
        BY <3>1, ActiveRow DEF ChallengeIds
      <4>2. challenge[c].user # None
        BY <3>1, <4>1, NoneAssumption
      <4>3. c <= stamped
        BY <4>1, <4>2 DEF RowInv, ChallengeIds
      <4>4. QED
        BY <1>1, <4>1, <4>3, BoundsAssumption
    <3>3. QED
      BY <1>4, <2>2, <3>2 DEF Proceeds
  <2>3. QED
    BY <1>4, <2>1, <2>2 DEF Proceeds
<1>5. QED
  BY <1>2, <1>3, <1>4, MovesStep DEF Moves, Ends

(*****************************************************************************)
(* The epoch                                                                 *)
(*****************************************************************************)

\* An epoch bump moves one account's epoch up.
LEMMA BumpEffect ==
    ASSUME TypeOK, NEW u \in Users, BumpEpoch(u)
    PROVE  /\ epoch[u] < epoch'[u]
           /\ \A v \in Users \ {u} : epoch'[v] = epoch[v]
  BY BoundsAssumption DEF TypeOK, TablesOK, BumpEpoch

\* Every write to an account moves its epoch up, or changes neither the password
\* nor, except to lift it, the suspension.
LEMMA AccountWrites ==
    ASSUME TypeInv, [Next]_vars, NEW u \in Users
    PROVE  \/ epoch[u] < epoch'[u]
           \/ /\ epoch'[u] = epoch[u]
              /\ user'[u].pw = user[u].pw
              /\ user'[u].suspended => user[u].suspended
<1>. USE DEF TypeInv, TypeOK, TablesOK, UserRow
<1>1. ASSUME NEW r \in Reqs, NEW p \in Passwords, SetPassword(r, p)
      PROVE  epoch[u] < epoch'[u] \/ (epoch'[u] = epoch[u] /\ user'[u] = user[u])
  BY <1>1, BumpEffect DEF SetPassword, UserInv, Waiting
<1>2. ASSUME NEW r \in Reqs, SignOutEverywhere(r)
      PROVE  epoch[u] < epoch'[u] \/ (epoch'[u] = epoch[u] /\ user'[u] = user[u])
  BY <1>2, BumpEffect DEF SignOutEverywhere, UserInv, Waiting
<1>3. ASSUME NEW v \in Users, NEW p \in Passwords,
             Suspend(v) \/ ConsumePasswordReset(v, p)
      PROVE  epoch[u] < epoch'[u] \/ (epoch'[u] = epoch[u] /\ user'[u] = user[u])
  BY <1>3, BumpEffect DEF Suspend, ConsumePasswordReset
<1>4. ASSUME NEW v \in Users, Restore(v) \/ DeleteUser(v)
      PROVE  /\ epoch'[u] = epoch[u]
             /\ user'[u].pw = user[u].pw
             /\ user'[u].suspended => user[u].suspended
  <2>1. /\ epoch' = epoch
        /\ u # v => user'[u] = user[u]
        /\ u = v => \/ user'[u] = [user[u] EXCEPT !.suspended = FALSE]
                    \/ user'[u] = [user[u] EXCEPT !.deleted = TRUE]
    BY <1>4 DEF Restore, DeleteUser
  <2>2. CASE user'[u] = user[u]
    BY <2>1, <2>2, Zenon
  <2>3. CASE user'[u] = [user[u] EXCEPT !.suspended = FALSE]
    <3>1. user'[u].pw = user[u].pw /\ ~user'[u].suspended
      BY <2>3
    <3>2. QED
      BY <2>1, <3>1, Zenon
  <2>4. CASE user'[u] = [user[u] EXCEPT !.deleted = TRUE]
    <3>1. user'[u].pw = user[u].pw
      BY <2>4
    <3>2. user'[u].suspended = user[u].suspended
      BY <2>4
    <3>3. QED
      BY <2>1, <3>1, <3>2, Zenon
  <2>5. QED
    BY <2>1, <2>2, <2>3, <2>4
<1>5. ASSUME NEW r \in Reqs, SetTwoFactorEnabled(r)
      PROVE  /\ epoch'[u] = epoch[u]
             /\ user'[u].pw = user[u].pw
             /\ user'[u].suspended => user[u].suspended
  <2>1. /\ epoch' = epoch
        /\ u # seen[r].user => user'[u] = user[u]
        /\ u = seen[r].user => user'[u] = [user[u] EXCEPT !.twoFactor = flag[r]]
    BY <1>5 DEF SetTwoFactorEnabled
  <2>2. CASE u # seen[r].user
    BY <2>1, <2>2, Zenon
  <2>3. CASE u = seen[r].user
    <3>1. user'[u].pw = user[u].pw
      BY <2>1, <2>3
    <3>2. user'[u].suspended = user[u].suspended
      BY <2>1, <2>3
    <3>3. QED
      BY <2>1, <3>1, <3>2, Zenon
  <2>4. QED
    BY <2>2, <2>3
<1>6. QED
  <2>1. WritesAccount => \/ epoch[u] < epoch'[u]
                         \/ /\ epoch'[u] = epoch[u]
                            /\ user'[u].pw = user[u].pw
                            /\ user'[u].suspended => user[u].suspended
    BY <1>1, <1>2, <1>3, <1>4, <1>5 DEF WritesAccount
  <2>2. QED
    BY <2>1, WritersStep DEF Writers

\* A snapshot whose epoch is still current was taken of a row that still has that
\* password and is not suspended.
LEMMA EpochStep == TypeInv /\ EpochInv /\ [Next]_vars => EpochInv'
<1>. SUFFICES ASSUME TypeInv, EpochInv, [Next]_vars, NEW s \in Reqs, pc'[s] \notin Waiting
              PROVE  /\ seen'[s].epoch <= epoch'[seen'[s].user]
                     /\ seen'[s].epoch = epoch'[seen'[s].user] =>
                           /\ ~user'[seen'[s].user].suspended
                           /\ seen'[s].proved # None =>
                                 user'[seen'[s].user].pw = seen'[s].proved
  BY DEF EpochInv, Waiting
<1>. USE DEF Waiting
<1>1. \A u \in Users : epoch[u] \in Int /\ epoch'[u] \in Int
  BY TablesStep, BoundsAssumption DEF TypeInv, TypeOK, TablesOK
<1>2. CASE pc[s] \notin Waiting /\ seen'[s] = seen[s]
  <2>1. seen[s].user \in Users /\ seen[s].epoch \in Int
    BY <1>2, BoundsAssumption DEF TypeInv, UserInv, TypeOK, LocalsOK, Snapshot
  <2>2. QED
    BY <1>1, <1>2, <2>1, AccountWrites DEF EpochInv
<1>3. CASE Begins(s)
  BY <1>1, <1>3 DEF Begins, Read
<1>4. QED
  BY <1>2, <1>3, MovesStep DEF Moves, Ends, Same, Picks, Proceeds

\* Epochs never go back and deleted accounts never return.
LEMMA AccountStays ==
    ASSUME TypeInv, [Next]_vars, NEW u \in Users
    PROVE  epoch[u] <= epoch'[u] /\ (user[u].deleted => user'[u].deleted)
<1>1. epoch[u] \in Int /\ epoch'[u] \in Int
  BY TablesStep, BoundsAssumption DEF TypeInv, TypeOK, TablesOK
<1>2. epoch[u] <= epoch'[u]
  BY <1>1, AccountWrites
<1>3. user[u].deleted => user'[u].deleted
  <2>. USE DEF TypeInv, TypeOK, TablesOK, UserRow
  <2>1. ASSUME NEW r \in Reqs, NEW p \in Passwords, SetPassword(r, p)
        PROVE  user'[u].deleted = user[u].deleted
    BY <2>1 DEF SetPassword
  <2>2. ASSUME NEW r \in Reqs, SignOutEverywhere(r) \/ SetTwoFactorEnabled(r)
        PROVE  user'[u].deleted = user[u].deleted
    BY <2>2 DEF SignOutEverywhere, SetTwoFactorEnabled
  <2>3. ASSUME NEW v \in Users, Suspend(v) \/ Restore(v) \/ DeleteUser(v)
        PROVE  user[u].deleted => user'[u].deleted
    BY <2>3 DEF Suspend, Restore, DeleteUser
  <2>4. ASSUME NEW v \in Users, NEW p \in Passwords, ConsumePasswordReset(v, p)
        PROVE  user'[u].deleted = user[u].deleted
    BY <2>4 DEF ConsumePasswordReset
  <2>5. WritesAccount => (user[u].deleted => user'[u].deleted)
    BY <2>1, <2>2, <2>3, <2>4 DEF WritesAccount
  <2>6. QED
    BY <2>5, WritersStep DEF Writers
<1>4. QED
  BY <1>2, <1>3

(*****************************************************************************)
(* Codes                                                                     *)
(*****************************************************************************)

\* The code has been redeemed or burned.
Spent(c) == challenge[c].user # None /\ challenge[c].consumed

\* A row is written by whoever inserts it; after that its account and its device
\* stay, unless the row goes.
LEMMA RowsStay ==
    ASSUME TypeInv, [Next]_vars, NEW c \in ChallengeIds, challenge'[c].user # None
    PROVE  \/ /\ challenge'[c].user = challenge[c].user
              /\ challenge'[c].device = challenge[c].device
           \/ \E r \in Reqs : pc[r] = "insert" /\ ch[r] = c /\ pc'[r] = "done"
<1>1. ASSUME NEW r \in Reqs, ReplaceChallengeCommit(r)
      PROVE  \/ challenge'[c] = challenge[c]
             \/ pc[r] = "insert" /\ ch[r] = c /\ pc'[r] = "done"
  BY <1>1, AnswerEffect DEF ReplaceChallengeCommit, NoChallenge, TypeInv, TypeOK
<1>2. ASSUME NEW r \in Reqs, FailTwoFactorChallenge(r) \/ ConsumeTwoFactorChallenge(r)
      PROVE  /\ challenge'[c].user = challenge[c].user
             /\ challenge'[c].device = challenge[c].device
  BY <1>2
  DEF FailTwoFactorChallenge, ConsumeTwoFactorChallenge, TypeInv, TypeOK, TablesOK,
              ChallengeRow
<1>3. ASSUME NEW e \in ChallengeIds, Expire(e)
      PROVE  /\ challenge'[c].user = challenge[c].user
             /\ challenge'[c].device = challenge[c].device
  BY <1>3 DEF Expire, TypeInv, TypeOK, TablesOK, ChallengeRow
<1>4. QED
  BY <1>1, <1>2, <1>3, WritersStep DEF Writers, WritesChallenge

\* A spent code is never unspent, deleted, moved to another device or counted on.
LEMMA SpentStable ==
    ASSUME TypeInv, InsertInv, [Next]_vars, NEW c \in ChallengeIds, Spent(c)
    PROVE  /\ Spent(c)'
           /\ challenge'[c].device = challenge[c].device
           /\ challenge'[c].attempts = challenge[c].attempts
<1>. USE DEF Spent
<1>1. ASSUME NEW r \in Reqs, ReplaceChallengeCommit(r)
      PROVE  challenge'[c] = challenge[c]
  BY <1>1 DEF ReplaceChallengeCommit, InsertInv
<1>2. ASSUME NEW r \in Reqs, FailTwoFactorChallenge(r) \/ ConsumeTwoFactorChallenge(r)
      PROVE  challenge'[c] = challenge[c]
  BY <1>2
  DEF FailTwoFactorChallenge, ConsumeTwoFactorChallenge, Spendable, TypeInv, TypeOK,
      TablesOK
<1>3. ASSUME NEW e \in ChallengeIds, Expire(e)
      PROVE  /\ Spent(c)'
             /\ challenge'[c].device = challenge[c].device
             /\ challenge'[c].attempts = challenge[c].attempts
  BY <1>3 DEF Expire, TypeInv, TypeOK, TablesOK, ChallengeRow
<1>4. QED
  BY <1>1, <1>2, <1>3, WritersStep DEF Writers, WritesChallenge

\* A code joins the redeemed ones unspent, and hence below the cap.
LEMMA Redeeming ==
    ASSUME TypeInv, NEW r \in Reqs, ConsumeTwoFactorChallenge(r), redeemed' # redeemed
    PROVE  /\ ch[r] \in ChallengeIds
           /\ redeemed' = redeemed \cup {ch[r]}
           /\ Spendable(ch[r])
           /\ challenge'[ch[r]].user # None /\ challenge'[ch[r]].consumed
           /\ challenge'[ch[r]].attempts = challenge[ch[r]].attempts
           /\ challenge[ch[r]].attempts < MaxAttempts
           /\ challenge'[ch[r]].device = challenge[ch[r]].device
<1>1. ch[r] \in ChallengeIds
  BY BoundsAssumption
  DEF ConsumeTwoFactorChallenge, TypeInv, TypeOK, TablesOK, CodeInv, OnCode, ChallengeIds
<1>2. /\ redeemed' = redeemed \cup {ch[r]}
      /\ Spendable(ch[r])
      /\ challenge' = [challenge EXCEPT ![ch[r]].consumed = TRUE]
  BY DEF ConsumeTwoFactorChallenge
<1>3. /\ challenge'[ch[r]].consumed
      /\ challenge'[ch[r]].user = challenge[ch[r]].user
      /\ challenge'[ch[r]].attempts = challenge[ch[r]].attempts
      /\ challenge'[ch[r]].device = challenge[ch[r]].device
  BY <1>1, <1>2 DEF TypeInv, TypeOK, TablesOK, ChallengeRow
<1>4. QED
  BY <1>1, <1>2, <1>3 DEF Spendable, TypeInv, AttemptsInv

\* Redeemed codes are spent, and no row is ahead of the last created_at.
LEMMA RowStep == TypeInv /\ RowInv /\ InsertInv /\ [Next]_vars => RowInv'
<1>. SUFFICES ASSUME TypeInv, RowInv, InsertInv, [Next]_vars
              PROVE  RowInv'
  OBVIOUS
<1>1. \A c \in ChallengeIds : c \in Int
  BY DEF ChallengeIds
<1>2. stamped \in Int /\ stamped' \in Int /\ stamped <= stamped'
  BY WritersStep, BoundsAssumption
  DEF Writers, ReplaceChallengeBegin, TypeInv, TypeOK, TablesOK
<1>3. ASSUME NEW c \in ChallengeIds, challenge'[c].user # None
      PROVE  c <= stamped'
  BY <1>1, <1>2, <1>3, RowsStay DEF RowInv, TypeInv, CodeInv, OnCode
<1>4. ASSUME NEW c \in redeemed'
      PROVE  challenge'[c].user # None /\ challenge'[c].consumed
  <2>1. CASE c \in redeemed
    BY <2>1, SpentStable DEF RowInv, Spent, TypeInv, TypeOK, HistoryOK
  <2>2. CASE c \notin redeemed
    <3>1. PICK r \in Reqs : ConsumeTwoFactorChallenge(r)
      BY <1>4, <2>2, WritersStep DEF Writers
    <3>2. QED
      BY <1>4, <2>2, <3>1, Redeeming
  <2>3. QED
    BY <2>1, <2>2
<1>5. QED
  BY <1>3, <1>4 DEF RowInv, ChallengeIds

\* A code being inserted is nobody else's: no row, no other request has it yet.
LEMMA InsertStep == TypeInv /\ RowInv /\ InsertInv /\ [Next]_vars => InsertInv'
<1>. SUFFICES ASSUME TypeInv, RowInv, InsertInv, [Next]_vars,
                     NEW r \in Reqs, pc'[r] = "insert"
              PROVE  /\ challenge'[ch'[r]].user = None
                     /\ \A s \in Reqs \ {r} : pc'[s] \in OnCode => ch'[s] # ch'[r]
  BY DEF InsertInv, OnCode
<1>. USE DEF OnCode
<1>1. CASE Same(r) /\ pc[r] = "insert"
  <2>1. ch'[r] = ch[r] /\ ch[r] \in ChallengeIds
    BY <1>1, BoundsAssumption DEF Same, TypeInv, TypeOK, TablesOK, CodeInv, ChallengeIds
  <2>2. challenge'[ch[r]].user = None
    BY <1>1, <2>1, RowsStay DEF InsertInv, Same
  <2>3. ASSUME NEW s \in Reqs \ {r}, pc'[s] \in OnCode
        PROVE  ch'[s] # ch[r]
    <3>1. CASE pc[s] \in OnCode /\ ch'[s] = ch[s]
      BY <1>1, <3>1 DEF InsertInv
    <3>2. CASE pc[s] = "replace" /\ ReplaceChallengeBegin(s)
      BY <1>1, <3>2, BoundsAssumption
      DEF ReplaceChallengeBegin, TypeInv, TypeOK, TablesOK, LocalsOK, CodeInv
    <3>3. CASE pc[s] = "vcode" /\ ch'[s] \in ActiveTwoFactorChallenge(seen[s].user)
      BY <1>1, <3>3, ActiveRow, NoneAssumption DEF InsertInv, TypeInv, UserInv, Waiting
    <3>4. QED
      BY <2>3, <3>1, <3>2, <3>3, MovesStep DEF Moves, Ends, Same, Begins, Picks, Proceeds
  <2>4. QED
    BY <2>1, <2>2, <2>3
<1>2. CASE pc[r] = "replace" /\ ReplaceChallengeBegin(r)
  <2>1. ch'[r] = stamped + 1 /\ stamped \in Int /\ stamped + 1 \in ChallengeIds
    BY <1>2, BoundsAssumption
    DEF ReplaceChallengeBegin, TypeInv, TypeOK, TablesOK, LocalsOK, ChallengeIds
  <2>2. challenge'[stamped + 1].user = None
    BY <1>2, <2>1 DEF ReplaceChallengeBegin, RowInv
  <2>3. \A s \in Reqs \ {r} : pc'[s] = pc[s] /\ ch'[s] = ch[s]
    BY <1>2 DEF ReplaceChallengeBegin, Goto, TypeInv, TypeOK, LocalsOK
  <2>4. QED
    BY <2>1, <2>2, <2>3 DEF TypeInv, CodeInv
<1>3. QED
  BY <1>1, <1>2, MovesStep DEF Moves, Ends, Same, Begins, Picks, Proceeds

\* A code is only ever about to be spent for the device it was mailed for.
LEMMA MatchStep == TypeInv /\ InsertInv /\ MatchInv /\ [Next]_vars => MatchInv'
<1>. SUFFICES ASSUME TypeInv, InsertInv, MatchInv, [Next]_vars, NEW s \in Reqs,
                     pc'[s] = "vspend", challenge'[ch'[s]].user # None
              PROVE  challenge'[ch'[s]].device = dev'[s]
  BY DEF MatchInv
<1>1. CASE Same(s) /\ pc[s] = "vspend"
  <2>1. ch[s] \in ChallengeIds
    BY <1>1, BoundsAssumption DEF TypeInv, TypeOK, TablesOK, CodeInv, OnCode, ChallengeIds
  <2>2. \A r \in Reqs : pc[r] = "insert" => ch[r] # ch[s]
    BY <1>1 DEF InsertInv, OnCode
  <2>3. QED
    BY <1>1, <2>1, <2>2, RowsStay DEF Same, MatchInv
<1>2. CASE Proceeds(s) /\ pc[s] = "vcode"
  BY <1>2 DEF Proceeds
<1>3. QED
  BY <1>1, <1>2, MovesStep DEF Moves, Ends, Same, Begins, Picks, Proceeds

\* Sign-in by password holds no code; whoever comes from a code holds a redeemed one.
LEMMA HolderStep == TypeInv /\ HolderInv /\ [Next]_vars => HolderInv'
<1>. SUFFICES ASSUME TypeInv, HolderInv, [Next]_vars, NEW s \in Reqs
              PROVE  /\ pc'[s] \in {"idle", "device", "touch", "replace", "record"}
                           => ch'[s] = None
                     /\ pc'[s] \in {"vreread", "issued"} => ch'[s] \in redeemed' \cup {None}
  BY DEF HolderInv
<1>1. redeemed \subseteq redeemed'
  BY WritersStep DEF Writers, ConsumeTwoFactorChallenge
<1>2. CASE Same(s)
  BY <1>1, <1>2 DEF Same, HolderInv
<1>3. CASE Begins(s) \/ Picks(s)
  BY <1>3 DEF Begins, Picks, HolderInv, TypeInv, TypeOK, LocalsOK
<1>4. CASE Proceeds(s)
  <2>1. pc'[s] = "vreread" => ch'[s] \in redeemed'
    BY <1>4, AnswerEffect DEF Proceeds, ConsumeTwoFactorChallenge, TypeInv, TypeOK, Goto
  <2>2. QED
    BY <1>1, <1>4, <2>1 DEF Proceeds, HolderInv
<1>5. QED
  BY <1>2, <1>3, <1>4, MovesStep DEF Moves, Ends

\* Redeeming a code finds it unspent, hence held by no session so far.
LEMMA OneStep ==
    TypeInv /\ RowInv /\ HolderInv /\ OneCodeOneSession /\ [Next]_vars => OneCodeOneSession'
<1>. SUFFICES ASSUME TypeInv, RowInv, HolderInv, OneCodeOneSession, [Next]_vars
              PROVE  OneCodeOneSession'
  OBVIOUS
<1>1. ASSUME NEW s \in Reqs, pc'[s] \in {"vreread", "issued"}, ch'[s] # None
      PROVE  \/ pc[s] \in {"vreread", "issued"} /\ ch'[s] = ch[s]
             \/ ConsumeTwoFactorChallenge(s) /\ ch'[s] = ch[s] /\ Spendable(ch[s])
  BY <1>1, MovesStep DEF Moves, Ends, Same, Begins, Picks, Proceeds, HolderInv
<1>2. ASSUME NEW s \in Reqs, ConsumeTwoFactorChallenge(s), Spendable(ch[s]),
             NEW t \in Reqs, pc[t] \in {"vreread", "issued"}, ch[s] # None
      PROVE  ch[t] # ch[s]
  BY <1>2 DEF Spendable, HolderInv, RowInv
<1>3. ASSUME NEW s \in Reqs, NEW t \in Reqs,
             ConsumeTwoFactorChallenge(s), ConsumeTwoFactorChallenge(t),
             pc'[s] \in {"vreread", "issued"}, pc'[t] \in {"vreread", "issued"}
      PROVE  s = t
  BY <1>3, AnswerEffect
  DEF ConsumeTwoFactorChallenge, Goto, Same, TypeInv, TypeOK, LocalsOK
<1>4. QED
  BY <1>1, <1>2, <1>3 DEF OneCodeOneSession

\* A redeemed code is not counted on.
LEMMA CapStep ==
    TypeInv /\ RowInv /\ InsertInv /\ CapHoldsForRedemption /\ [Next]_vars
        => CapHoldsForRedemption'
  BY WritersStep, Redeeming, SpentStable
  DEF Writers, CapHoldsForRedemption, RowInv, Spent, TypeInv, TypeOK, HistoryOK

(*****************************************************************************)
(* Trust                                                                     *)
(*****************************************************************************)

\* A device that earned its trust keeps having earned it.
LEMMA EarnedStable ==
    TypeInv /\ RowInv /\ InsertInv /\ [Next]_vars => \A d \in Devices : Earned(d) => Earned(d)'
<1>1. [Next]_vars => redeemed \subseteq redeemed' /\ enabledFrom \subseteq enabledFrom'
  BY WritersStep DEF Writers, ConsumeTwoFactorChallenge, TrustDevice
<1>2. QED
  BY <1>1, SpentStable DEF Earned, RowInv, Spent, TypeInv, TypeOK, HistoryOK

\* Spending a code earns trust for the device of the request that spends it.
LEMMA CodeEarns ==
    ASSUME TypeInv, MatchInv, NEW r \in Reqs, ConsumeTwoFactorChallenge(r),
           redeemed' # redeemed \/ device' # device \/ pc'[r] = "vreread"
    PROVE  Earned(dev[r])' /\ dev'[r] = dev[r]
<1>1. Spendable(ch[r]) /\ UNCHANGED locals /\ redeemed' = redeemed \cup {ch[r]}
  BY AnswerEffect DEF ConsumeTwoFactorChallenge, TypeInv, TypeOK
<1>2. ch[r] \in ChallengeIds
  BY BoundsAssumption
  DEF ConsumeTwoFactorChallenge, TypeInv, TypeOK, TablesOK, CodeInv, OnCode, ChallengeIds
<1>3. challenge[ch[r]].device = dev[r]
  BY <1>1 DEF ConsumeTwoFactorChallenge, MatchInv, Spendable
<1>4. challenge'[ch[r]].device = challenge[ch[r]].device
  BY <1>1, <1>2
  DEF ConsumeTwoFactorChallenge, Spendable, TypeInv, TypeOK, TablesOK, ChallengeRow
<1>5. QED
  BY <1>1, <1>3, <1>4 DEF Earned, locals

\* Both statements that set trusted_at have earned it; no other sets it.
LEMMA TrustStep ==
    TypeInv /\ RowInv /\ InsertInv /\ MatchInv /\ TrustInv /\ [Next]_vars => TrustInv'
<1>. SUFFICES ASSUME TypeInv, RowInv, InsertInv, MatchInv, TrustInv, [Next]_vars,
                     NEW e \in Devices, device'[e].trusted
              PROVE  Earned(e)'
  BY DEF TrustInv
<1>1. CASE device[e].trusted
  BY <1>1, EarnedStable DEF TrustInv
<1>2. ASSUME ~device[e].trusted, NEW r \in Reqs, NEW d \in Devices,
             CreateDevice(r, d) \/ RevokeDevice(r, d)
      PROVE  FALSE
  BY <1>2 DEF CreateDevice, RevokeDevice, TypeInv, TypeOK, TablesOK, DeviceRow
<1>3. ASSUME ~device[e].trusted, NEW r \in Reqs, ConsumeTwoFactorChallenge(r)
      PROVE  Earned(e)'
  <2>1. e = dev[r] /\ device' # device
    BY <1>3 DEF ConsumeTwoFactorChallenge, TypeInv, TypeOK, TablesOK, DeviceRow
  <2>2. QED
    BY <1>3, <2>1, CodeEarns
<1>4. ASSUME ~device[e].trusted, NEW r \in Reqs, TrustDevice(r)
      PROVE  Earned(e)'
  BY <1>4 DEF TrustDevice, Earned, TypeInv, TypeOK, TablesOK, DeviceRow
<1>5. ASSUME ~device[e].trusted, NEW u \in Users, DeleteUser(u)
      PROVE  FALSE
  BY <1>5 DEF DeleteUser
<1>6. QED
  BY <1>1, <1>2, <1>3, <1>4, <1>5, WritersStep DEF Writers, WritesDevice

\* A request goes on to a token only with a device that has earned trust, if the
\* account it read asked for a second factor.
LEMMA FactorStep ==
    TypeInv /\ RowInv /\ InsertInv /\ MatchInv /\ TrustInv /\ FactorInv /\ [Next]_vars
        => FactorInv'
<1>. SUFFICES ASSUME TypeInv, RowInv, InsertInv, MatchInv, TrustInv, FactorInv, [Next]_vars,
                     NEW s \in Reqs
              PROVE  /\ pc'[s] \in {"idle", "device"} => ~flag'[s]
                     /\ pc'[s] = "touch" /\ flag'[s] => Earned(dev[s])'
                     /\ pc'[s] = "vreread" => Earned(dev[s])'
                     /\ pc'[s] \in {"record", "issued"} /\ seen'[s].twoFactor
                           => Earned(dev[s])'
  BY DEF FactorInv
<1>1. \A d \in Devices : Earned(d) => Earned(d)'
  BY EarnedStable
<1>2. dev'[s] = dev[s] /\ pc[s] \in OnDevice /\ Earned(dev[s]) => Earned(dev[s])'
  BY <1>1 DEF TypeInv, DeviceInv
<1>3. CASE Same(s)
  BY <1>2, <1>3 DEF Same, FactorInv, OnDevice
<1>4. CASE Begins(s)
  BY <1>4 DEF Begins, FactorInv, TypeInv, TypeOK, LocalsOK
<1>5. CASE Picks(s)
  <2>1. pc'[s] = "touch" /\ flag'[s] => Earned(dev'[s])
    BY <1>5 DEF Picks, FactorInv, TrustInv
  <2>2. pc'[s] = "touch" /\ flag'[s] => Earned(dev[s])'
    BY <1>1, <1>5, <2>1 DEF Picks
  <2>3. QED
    BY <1>5, <2>2 DEF Picks
<1>6. CASE Proceeds(s)
  <2>1. pc'[s] = "vreread" => Earned(dev[s])'
    BY <1>6, CodeEarns DEF Proceeds
  <2>2. pc'[s] \in {"record", "issued"} /\ seen'[s].twoFactor => Earned(dev[s])'
    BY <1>2, <1>6 DEF Proceeds, FactorInv, OnDevice
  <2>3. QED
    BY <1>6, <2>1, <2>2 DEF Proceeds
<1>7. QED
  BY <1>3, <1>4, <1>5, <1>6, MovesStep DEF Moves, Ends

(*****************************************************************************)
(* Tokens and the bearer check                                               *)
(*****************************************************************************)

\* A token is not rewritten.
LEMMA IssuedStays ==
    ASSUME TypeInv, [Next]_vars, NEW t \in Reqs, pc[t] = "issued"
    PROVE  Same(t)
  BY MovesStep DEF Moves, Ends, Begins, Picks, Proceeds

\* A revoked device stays revoked.
LEMMA RevokedStays ==
    ASSUME TypeInv, [Next]_vars, NEW e \in Devices, device[e].revoked
    PROVE  device'[e].revoked
<1>. USE DEF TypeInv, TypeOK, TablesOK, DeviceRow
<1>1. ASSUME NEW r \in Reqs, NEW d \in Devices, CreateDevice(r, d) \/ RevokeDevice(r, d)
      PROVE  device'[e].revoked
  BY <1>1 DEF CreateDevice, RevokeDevice
<1>2. ASSUME NEW r \in Reqs, ConsumeTwoFactorChallenge(r) \/ TrustDevice(r)
      PROVE  device'[e].revoked
  BY <1>2 DEF ConsumeTwoFactorChallenge, TrustDevice
<1>3. ASSUME NEW u \in Users, DeleteUser(u)
      PROVE  device'[e].revoked
  BY <1>3 DEF DeleteUser
<1>4. QED
  BY <1>1, <1>2, <1>3, WritersStep DEF Writers, WritesDevice

\* Between its two reads, a request is entitled if the device is still good.
LEMMA BearerStep == TypeInv /\ BearerInv /\ [Next]_vars => BearerInv'
<1>. SUFFICES ASSUME TypeInv, BearerInv, [Next]_vars, NEW s \in Reqs, pc'[s] = "bearer"
              PROVE  /\ token'[s] \in Reqs
                     /\ pc'[token'[s]] = "issued"
                     /\ seen'[token'[s]].user = seen'[s].user
                     /\ ~device'[dev'[token'[s]]].revoked => s \in entitled'
  BY DEF BearerInv
<1>1. CASE Same(s)
  <2>1. entitled \subseteq entitled'
    BY WritersStep DEF Writers, BearerUser
  <2>2. /\ token[s] \in Reqs
        /\ pc[token[s]] = "issued"
        /\ seen[token[s]].user = seen[s].user
        /\ ~device[dev[token[s]]].revoked => s \in entitled
    BY <1>1 DEF Same, BearerInv
  <2>3. Same(token[s]) /\ dev[token[s]] \in Devices
    BY <2>2, IssuedStays DEF TypeInv, DeviceInv, OnDevice
  <2>4. QED
    BY <1>1, <2>1, <2>2, <2>3, RevokedStays DEF Same
<1>2. CASE Begins(s)
  <2>1. PICK t \in Reqs : BearerUser(s, t)
    BY <1>2 DEF Begins
  <2>2. ~Answer(s)
    BY AnswerEffect DEF TypeInv, TypeOK
  <2>3. token'[s] = t /\ pc[t] = "issued" /\ Same(t) /\ UNCHANGED device
    BY <2>1, <2>2, IssuedStays DEF BearerUser, tables, TypeInv, TypeOK, LocalsOK
  <2>4. seen'[s].user = seen[t].user
    BY <2>1, <2>2 DEF BearerUser, Read, TypeInv, TypeOK, LocalsOK
  <2>5. ~device[dev[t]].revoked => s \in entitled'
    BY <2>1, <2>2 DEF BearerUser, Accepted, TypeInv, DeviceInv, OnDevice
  <2>6. QED
    BY <2>3, <2>4, <2>5 DEF Same
<1>3. QED
  BY <1>1, <1>2, MovesStep DEF Moves, Ends, Picks, Proceeds

\* Passing the second read means the device was good at the first.
LEMMA LinearizableStep ==
    TypeInv /\ BearerInv /\ BearerCheckIsLinearizable /\ [Next]_vars
        => BearerCheckIsLinearizable'
<1>. SUFFICES ASSUME TypeInv, BearerInv, BearerCheckIsLinearizable, [Next]_vars, NEW s \in Reqs,
                     pc'[s] \in {"authorized", "setpassword", "trust", "settwofactor"}
              PROVE  s \in entitled'
  BY DEF BearerCheckIsLinearizable
<1>1. entitled \subseteq entitled'
  BY WritersStep DEF Writers, BearerUser
<1>2. CASE pc[s] \in {"authorized", "setpassword", "trust", "settwofactor"}
  BY <1>1, <1>2 DEF BearerCheckIsLinearizable
<1>3. CASE pc[s] = "bearer" /\ BearerDevice(s)
  <2>1. ~Answer(s)
    BY AnswerEffect DEF TypeInv, TypeOK
  <2>2. QED
    BY <1>1, <1>3, <2>1 DEF BearerDevice, BearerInv
<1>4. QED
  BY <1>2, <1>3, MovesStep DEF Moves, Ends, Same, Begins, Picks, Proceeds

\* Each of the reasons to refuse a token is for good.  Suspension is one only
\* through the epoch: lifting it would otherwise let the token in again.
LEMMA DeadStep ==
    ASSUME TypeInv, EpochInv, [Next]_vars, NEW t \in Reqs, Issued(t), ~Accepted(t)
    PROVE  ~Accepted(t)'
<1>1. Same(t)
  BY IssuedStays DEF Issued
<1>2. seen[t].user \in Users /\ dev[t] \in Devices /\ device[dev[t]].owner = seen[t].user
  BY DEF TypeInv, UserInv, DeviceInv, Waiting, OnDevice, Issued
<1>3. seen[t].epoch \in Int /\ epoch[seen[t].user] \in Int
  BY <1>2, BoundsAssumption DEF TypeInv, TypeOK, TablesOK, LocalsOK, Snapshot
<1>4. epoch'[seen[t].user] \in Int
  BY <1>2, TablesStep, BoundsAssumption DEF TablesOK
<1>5. CASE user[seen[t].user].deleted
  BY <1>1, <1>2, <1>5, AccountStays DEF Accepted, Same
<1>6. CASE epoch[seen[t].user] # seen[t].epoch
  <2>1. seen[t].epoch < epoch[seen[t].user]
    BY <1>3, <1>6 DEF EpochInv, Waiting, Issued
  <2>2. epoch'[seen[t].user] # seen[t].epoch
    BY <2>1, <1>2, <1>3, <1>4, AccountStays
  <2>3. QED
    BY <1>1, <2>2 DEF Accepted, Same
<1>7. CASE device[dev[t]].revoked
  BY <1>1, <1>2, <1>7, RevokedStays DEF Accepted, Same
<1>8. QED
  BY <1>2, <1>5, <1>6, <1>7 DEF Accepted, Issued, EpochInv, Waiting

(*****************************************************************************)
(* The theorems                                                              *)
(*****************************************************************************)

\* The inductive invariant holds at the start.
LEMMA InitIInv == Init => IInv
<1>. SUFFICES ASSUME Init
             PROVE  IInv
  OBVIOUS
<1>1. TypeOK
  BY UnseenType, NoRow, BoundsAssumption
  DEF Init, TypeOK, TablesOK, LocalsOK, HistoryOK, NoDevice, DeviceRow, Pcs
<1>2. UserInv /\ DeviceInv /\ CodeInv /\ EpochInv /\ InsertInv /\ MatchInv /\ HolderInv
      /\ BearerInv /\ OneCodeOneSession /\ BearerCheckIsLinearizable
  BY DEF Init, UserInv, DeviceInv, CodeInv, EpochInv, InsertInv, MatchInv, HolderInv,
         BearerInv, OneCodeOneSession, BearerCheckIsLinearizable, Waiting, OnDevice, OnCode
<1>3. FactorInv /\ CapHoldsForRedemption
  BY DEF Init, FactorInv, CapHoldsForRedemption
<1>4. AttemptsInv /\ RowInv /\ TrustInv
  BY AttemptsAssumption
  DEF Init, AttemptsInv, RowInv, TrustInv, NoChallenge, NoDevice
<1>5. QED
  BY <1>1, <1>2, <1>3, <1>4 DEF IInv, TypeInv

\* Every step keeps the inductive invariant.
LEMMA NextIInv == IInv /\ [Next]_vars => IInv'
<1>1. TypeInv /\ RowInv /\ [Next]_vars => TypeInv'
  BY LocalsStep, TablesStep, HistoryStep, UserStep, DeviceStep, CodeStep, AttemptsStep
  DEF TypeInv, TypeOK
<1>2. QED
  BY <1>1, EpochStep, RowStep, InsertStep, MatchStep, HolderStep, TrustStep, FactorStep,
     BearerStep, OneStep, CapStep, LinearizableStep
  DEF IInv

\* The inductive invariant holds throughout.
LEMMA Inductive == Spec => []IInv
  BY InitIInv, NextIInv, PTL DEF Spec

\* Rows and requests are well-formed, and no code is counted past its cap.
THEOREM TypeCorrect == Spec => []TypeOK
  BY Inductive, PTL DEF IInv, TypeInv

\* Whoever passes the bearer check on a password has proved the password the
\* account has now, whatever sign-ins, changes and resets overlapped.
THEOREM PasswordCorrect == Spec => []AcceptedTokenProvesCurrentPassword
<1>1. IInv => AcceptedTokenProvesCurrentPassword
  BY DEF IInv, EpochInv, Waiting, Accepted, AcceptedTokenProvesCurrentPassword
<1>2. QED
  BY <1>1, Inductive, PTL

\* A token that is refused once is refused for good.
THEOREM DeadTokens == Spec => DeadTokenStaysDead
<1>1. IInv /\ [Next]_vars =>
          [\A t \in Reqs : Issued(t) /\ ~Accepted(t) => ~Accepted(t)']_vars
  BY DeadStep DEF IInv
<1>2. QED
  BY <1>1, Inductive, PTL DEF Spec, DeadTokenStaysDead

\* One emailed code, at most one session.
THEOREM OneCode == Spec => []OneCodeOneSession
  BY Inductive, PTL DEF IInv

\* No code is redeemed once it has been guessed at MaxAttempts times.
THEOREM Cap == Spec => []CapHoldsForRedemption
  BY Inductive, PTL DEF IInv

\* Every trusted device earned its trust.
THEOREM Trust == Spec => []TrustIsEarned
<1>1. IInv => TrustIsEarned
  BY DEF IInv, TrustInv, TrustIsEarned, IsTrusted
<1>2. QED
  BY <1>1, Inductive, PTL

\* No token without the second factor the account asked for.
THEOREM SecondFactor == Spec => []SecondFactorStands
<1>1. IInv => SecondFactorStands
  BY DEF IInv, FactorInv, SecondFactorStands, Issued
<1>2. QED
  BY <1>1, Inductive, PTL

\* The two reads of the bearer check act as one.
THEOREM Bearer == Spec => []BearerCheckIsLinearizable
  BY Inductive, PTL DEF IInv

=============================================================================
