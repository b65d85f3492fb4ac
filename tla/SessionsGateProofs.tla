------------------------- MODULE SessionsGateProofs -------------------------
(***************************************************************************)
(* Sessions implements TokenGate, for every number of accounts, devices,   *)
(* passwords and requests and every value of the bounds.                   *)
(*                                                                         *)
(* The argument.  A step of the program is, on the accounts and the tokens *)
(* alone, one of three things.  It issues one token and changes no account *)
(* and no other token: Issue.  It touches one account, whose tokens may be *)
(* shut: Shut.  It changes that account's password, and then it moves the  *)
(* epoch as well, which shuts all of them: ChangePassword.  That no token  *)
(* is opened again is DeadStep, that a code was not used before is         *)
(* OneCodeOneSession, and that a token opens only for the password of now  *)
(* is AcceptedTokenProvesCurrentPassword.  What is left to add to the      *)
(* invariant is that every token was earned in exactly one way.            *)
(***************************************************************************)
EXTENDS SessionsGate, SessionsProofs

(***************************************************************************)
(* How a token is earned                                                   *)
(***************************************************************************)

\* A sign-in has proved a password, a verification has not and goes by its code.
EarnedInv ==
    \A r \in Reqs :
        /\ pc[r] \in {"device", "touch", "record"} => seen[r].proved # None
        /\ pc[r] \in {"vdevice", "vcode", "vspend", "vreread"} => seen[r].proved = None
        /\ pc[r] \in {"vspend", "vreread"} => ch[r] # None
        /\ pc[r] = "issued" => (seen[r].proved = None <=> ch[r] # None)

GateInv == IInv /\ EarnedInv

\* Either a password was proved or a code was spent, and nothing in between.
LEMMA EarnedStep == TypeInv /\ HolderInv /\ EarnedInv /\ [Next]_vars => EarnedInv'
<1>. SUFFICES ASSUME TypeInv, HolderInv, EarnedInv, [Next]_vars, NEW s \in Reqs
              PROVE  /\ pc'[s] \in {"device", "touch", "record"} => seen'[s].proved # None
                     /\ pc'[s] \in {"vdevice", "vcode", "vspend", "vreread"}
                           => seen'[s].proved = None
                     /\ pc'[s] \in {"vspend", "vreread"} => ch'[s] # None
                     /\ pc'[s] = "issued" => (seen'[s].proved = None <=> ch'[s] # None)
  BY DEF EarnedInv
<1>1. CASE Same(s)
  BY <1>1 DEF Same, EarnedInv
<1>2. CASE Begins(s)
  <2>1. PICK u \in Users, p \in Passwords \cup {None} :
            seen'[s] = Read(u, p) /\ (pc'[s] = "device" <=> p # None)
    BY <1>2 DEF Begins
  <2>2. seen'[s].proved = p
    BY <2>1 DEF Read
  <2>3. QED
    BY <1>2, <2>1, <2>2 DEF Begins
<1>3. CASE Picks(s)
  BY <1>3 DEF Picks, EarnedInv
<1>4. CASE Proceeds(s)
  <2>1. pc[s] = "vcode" /\ pc'[s] = "vspend" => ch'[s] # None
    BY <1>4, NoneAssumption
    DEF Proceeds, ActiveTwoFactorChallenge, Outstanding, ChallengeIds
  <2>2. QED
    BY <1>4, <2>1 DEF Proceeds, EarnedInv, HolderInv
<1>5. QED
  BY <1>1, <1>2, <1>3, <1>4, MovesStep DEF Moves, Ends

\* The invariant the refinement rests on holds throughout.
LEMMA InductiveGate == Spec => []GateInv
<1>1. Init => EarnedInv
  BY DEF Init, EarnedInv
<1>2. IInv /\ EarnedInv /\ [Next]_vars => EarnedInv'
  BY EarnedStep DEF IInv
<1>3. QED
  BY <1>1, <1>2, Inductive, PTL DEF Spec, GateInv

(***************************************************************************)
(* What a step does to the accounts                                        *)
(***************************************************************************)

\* Nothing a verdict on a token is made of changes.
Quiet ==
    /\ UNCHANGED <<user, epoch>>
    /\ \A d \in Devices : device'[d].revoked = device[d].revoked

\* One account at most is written to, and its password only with its epoch.
Touches(u) ==
    /\ \A v \in Users \ {u} : user'[v] = user[v] /\ epoch'[v] = epoch[v]
    /\ \A d \in Devices :
          device[d].owner \in Users \ {u} => device'[d].revoked = device[d].revoked

\* Statements that write no account leave all verdicts alone, or revoke one
\* account's device.
LEMMA DeviceWrites ==
    TypeInv /\ WritesDevice /\ UNCHANGED <<user, epoch>> =>
        Quiet \/ \E u \in Users : Touches(u)
<1>. SUFFICES ASSUME TypeInv, WritesDevice, UNCHANGED <<user, epoch>>
              PROVE  Quiet \/ \E u \in Users : Touches(u)
  OBVIOUS
<1>. USE DEF TypeInv, TypeOK, TablesOK, DeviceRow
<1>1. ASSUME NEW r \in Reqs, NEW d \in Devices, CreateDevice(r, d)
      PROVE  Quiet
  BY <1>1 DEF CreateDevice, Quiet
<1>2. ASSUME NEW r \in Reqs, NEW d \in Devices, RevokeDevice(r, d)
      PROVE  \E u \in Users : Touches(u)
  <2>1. seen[r].user \in Users
    BY <1>2 DEF RevokeDevice, UserInv, Waiting
  <2>2. Touches(seen[r].user)
    BY <1>2 DEF RevokeDevice, Touches
  <2>3. QED
    BY <2>1, <2>2
<1>3. ASSUME NEW r \in Reqs, ConsumeTwoFactorChallenge(r) \/ TrustDevice(r)
      PROVE  Quiet
  BY <1>3 DEF ConsumeTwoFactorChallenge, TrustDevice, Quiet
<1>4. ASSUME NEW u \in Users, DeleteUser(u)
      PROVE  Touches(u)
  BY <1>4 DEF DeleteUser, Touches
<1>5. QED
  BY <1>1, <1>2, <1>3, <1>4 DEF WritesDevice

\* Statements that write an account write one.
LEMMA OneAccount ==
    TypeInv /\ WritesAccount => \E u \in Users : Touches(u)
<1>. SUFFICES ASSUME TypeInv, WritesAccount
              PROVE  \E u \in Users : Touches(u)
  OBVIOUS
<1>. USE DEF TypeInv, TypeOK, TablesOK, DeviceRow, Touches
<1>1. ASSUME NEW r \in Reqs, NEW p \in Passwords, SetPassword(r, p)
      PROVE  seen[r].user \in Users /\ Touches(seen[r].user)
  BY <1>1 DEF SetPassword, BumpEpoch, UserInv, Waiting
<1>2. ASSUME NEW r \in Reqs, SignOutEverywhere(r) \/ SetTwoFactorEnabled(r)
      PROVE  seen[r].user \in Users /\ Touches(seen[r].user)
  BY <1>2 DEF SignOutEverywhere, SetTwoFactorEnabled, BumpEpoch, UserInv, Waiting
<1>3. ASSUME NEW u \in Users, Suspend(u) \/ Restore(u) \/ DeleteUser(u)
      PROVE  Touches(u)
  BY <1>3 DEF Suspend, Restore, DeleteUser, BumpEpoch
<1>4. ASSUME NEW u \in Users, NEW p \in Passwords, ConsumePasswordReset(u, p)
      PROVE  Touches(u)
  BY <1>4 DEF ConsumePasswordReset, BumpEpoch
<1>5. QED
  BY <1>1, <1>2, <1>3, <1>4 DEF WritesAccount

\* The step of a request that gets its token is about nothing else.
Issues(s) == pc[s] \in {"record", "vreread"} /\ pc'[s] = "issued"

\* A token appears in the step that issues it, which writes no account and moves
\* no other request.
LEMMA IssuingStep ==
    ASSUME TypeInv, [Next]_vars, NEW s \in Reqs, pc[s] # "issued", pc'[s] = "issued"
    PROVE  /\ Issues(s)
           /\ seen'[s] = seen[s] /\ dev'[s] = dev[s] /\ ch'[s] = ch[s]
           /\ UNCHANGED <<user, epoch, device>>
           /\ \A t \in Reqs \ {s} : Same(t)
<1>1. /\ Proceeds(s)
      /\ RecordAndIssue(s) \/ VerifyRereadDevice(s)
      /\ Issues(s) /\ ch'[s] = ch[s]
  BY MovesStep DEF Moves, Same, Ends, Begins, Picks, Proceeds, Issues
<1>2. ~Answer(s)
  BY AnswerEffect DEF TypeInv, TypeOK
<1>3. UNCHANGED <<user, epoch, device>> /\ \A t \in Reqs \ {s} : Same(t)
  BY <1>1, <1>2
  DEF RecordAndIssue, VerifyRereadDevice, Goto, locals, Same, TypeInv, TypeOK, LocalsOK
<1>4. QED
  BY <1>1, <1>3 DEF Proceeds

(***************************************************************************)
(* What it does to the tokens                                              *)
(***************************************************************************)

\* What TokenGate knows of a request.
Row(t) ==
    IF pc[t] = "issued"
    THEN [gate |-> IF Accepted(t) THEN "open" ELSE "shut", user |-> seen[t].user,
          password |-> seen[t].proved, code |-> ch[t]]
    ELSE [gate |-> "none", user |-> None, password |-> None, code |-> None]

\* It is a row of TokenGate's.
LEMMA RowType ==
    ASSUME TypeInv, NEW t \in Reqs
    PROVE  Row(t) \in Gate!Token
  BY DEF Row, Gate!Token, TypeInv, TypeOK, LocalsOK, Snapshot

\* A request that is no token yet, and is none after the step, is not noticed.
LEMMA NoTokenStays ==
    ASSUME NEW t \in Reqs, pc[t] # "issued", pc'[t] # "issued"
    PROVE  Row(t)' = Row(t)
  BY DEF Row

\* A token is shut or left alone; whose it is and how it was earned stays.
LEMMA TokenStays ==
    ASSUME TypeInv, EpochInv, [Next]_vars, NEW t \in Reqs, pc[t] = "issued"
    PROVE  \/ Row(t)' = Row(t) /\ (Accepted(t)' <=> Accepted(t))
           \/ /\ Row(t).gate = "open"
              /\ Row(t)' = [Row(t) EXCEPT !.gate = "shut"]
              /\ ~Accepted(t)'
<1>1. Same(t)
  BY IssuedStays
<1>2. Accepted(t)' => Accepted(t)
  BY DeadStep DEF Issued
<1>3. CASE Accepted(t)' <=> Accepted(t)
  BY <1>1, <1>3 DEF Row, Same
<1>4. CASE Accepted(t) /\ ~Accepted(t)'
  BY <1>1, <1>4 DEF Row, Same
<1>5. QED
  BY <1>2, <1>3, <1>4

\* The verdict on a token is made of its account and its device.
LEMMA TokenOfAnother ==
    ASSUME TypeInv, TypeInv', [Next]_vars, NEW t \in Reqs, pc[t] = "issued",
           Quiet \/ \E u \in Users : u # seen[t].user /\ Touches(u)
    PROVE  Row(t)' = Row(t)
<1>1. Same(t)
  BY IssuedStays
<1>2. seen[t].user \in Users /\ dev[t] \in Devices /\ device[dev[t]].owner = seen[t].user
  BY DEF TypeInv, UserInv, DeviceInv, Waiting, OnDevice
<1>3. device'[dev[t]].owner = seen[t].user
  BY <1>1 DEF TypeInv, DeviceInv, OnDevice, Same
<1>4. /\ user'[seen[t].user] = user[seen[t].user]
      /\ epoch'[seen[t].user] = epoch[seen[t].user]
      /\ device'[dev[t]].revoked = device[dev[t]].revoked
  BY <1>2 DEF Quiet, Touches
<1>5. Accepted(t)' <=> Accepted(t)
  BY <1>1, <1>2, <1>3, <1>4 DEF Accepted, Same
<1>6. QED
  BY <1>1, <1>5 DEF Row, Same

\* When the epoch of an account moves, its tokens are all shut.
LEMMA BumpShuts ==
    ASSUME TypeInv, EpochInv, TypeInv', [Next]_vars, NEW t \in Reqs, pc[t] = "issued",
           epoch[seen[t].user] < epoch'[seen[t].user]
    PROVE  ~Accepted(t)'
<1>1. Same(t)
  BY IssuedStays
<1>2. seen[t].user \in Users
  BY DEF TypeInv, UserInv, Waiting
<1>3. /\ seen[t].epoch \in Int
      /\ epoch[seen[t].user] \in Int
      /\ epoch'[seen[t].user] \in Int
  BY <1>2, BoundsAssumption DEF TypeInv, TypeOK, TablesOK, LocalsOK, Snapshot
<1>4. seen[t].epoch <= epoch[seen[t].user]
  BY DEF EpochInv, Waiting
<1>5. QED
  BY <1>1, <1>3, <1>4 DEF Accepted, Same

(***************************************************************************)
(* The steps of TokenGate, told by rows                                    *)
(***************************************************************************)

\* Rows that change as they may be shut make up a Shut.
LEMMA GateShut ==
    ASSUME NEW u \in Users, NEW some \in SUBSET Reqs,
           \A v \in Users : user'[v].pw = user[v].pw,
           \A t \in some : Row(t).user = u,
           \A t \in Reqs : Row(t)' = IF t \in some /\ Row(t).gate = "open"
                                     THEN [Row(t) EXCEPT !.gate = "shut"] ELSE Row(t)
    PROVE  Gate!Shut(u, some)
  BY DEF Gate!Shut, Gate!Shutting, Row

\* With the password changed they make up a ChangePassword.
LEMMA GateChange ==
    ASSUME NEW u \in Users, NEW p \in Passwords,
           user'[u].pw = p,
           \A v \in Users \ {u} : user'[v].pw = user[v].pw,
           \A t \in Reqs : Row(t)' = IF Row(t).user = u /\ Row(t).gate = "open"
                                     THEN [Row(t) EXCEPT !.gate = "shut"] ELSE Row(t)
    PROVE  Gate!ChangePassword(u, p)
  BY DEF Gate!ChangePassword, Gate!Shutting, Row

\* One new row makes up an Issue.
LEMMA GateIssue ==
    ASSUME NEW s \in Reqs, NEW new \in Gate!Token,
           Row(s).gate = "none", new.gate # "none", new.user # None,
           \/ new.password # None /\ new.code = None
           \/ /\ new.password = None /\ new.code # None
              /\ \A t \in Reqs : Row(t).code # new.code,
           new.user \in Users,
           new.gate = "open" /\ new.password # None => new.password = user[new.user].pw,
           user' = user,
           \A t \in Reqs : Row(t)' = IF t = s THEN new ELSE Row(t)
    PROVE  Gate!Issue(s, new)
  BY DEF Gate!Issue, Gate!Unused, Row

(***************************************************************************)
(* The refinement                                                          *)
(***************************************************************************)

\* A step in which a request gets its token is an Issue.
LEMMA IssuingRefines ==
    ASSUME GateInv, IInv', [Next]_vars, NEW s \in Reqs, pc[s] # "issued", pc'[s] = "issued"
    PROVE  Gate!Next
<1>. USE DEF GateInv, IInv
<1>1. /\ Issues(s)
      /\ seen'[s] = seen[s] /\ dev'[s] = dev[s] /\ ch'[s] = ch[s]
      /\ UNCHANGED <<user, epoch, device>>
      /\ \A t \in Reqs \ {s} : Same(t)
  BY IssuingStep
<1>2. PICK new : new = Row(s)'
  OBVIOUS
<1>3. new \in Gate!Token
  BY <1>1, <1>2 DEF Row, Issues, Gate!Token, TypeInv, TypeOK, LocalsOK, Snapshot
<1>4. /\ new.gate = IF Accepted(s)' THEN "open" ELSE "shut"
      /\ new.user = seen[s].user
      /\ new.password = seen[s].proved
      /\ new.code = ch[s]
  BY <1>1, <1>2 DEF Row, Issues
<1>5. seen[s].user \in Users /\ seen[s].user # None
  BY <1>1, NoneAssumption DEF Issues, TypeInv, UserInv, Waiting
<1>6. \/ seen[s].proved # None /\ ch[s] = None
      \/ seen[s].proved = None /\ ch[s] # None /\ pc[s] = "vreread"
  BY <1>1 DEF Issues, EarnedInv, HolderInv
<1>7. pc[s] = "vreread" /\ ch[s] # None => \A t \in Reqs : Row(t).code # ch[s]
  BY <1>1 DEF OneCodeOneSession, Row, Issues
<1>8. new.gate = "open" /\ new.password # None => new.password = user[new.user].pw
  <2>1. Accepted(s)' /\ seen'[s].proved # None => user'[seen'[s].user].pw = seen'[s].proved
    BY DEF EpochInv, Waiting, Accepted
  <2>2. QED
    BY <1>1, <1>4, <2>1
<1>9. \A t \in Reqs : Row(t)' = IF t = s THEN new ELSE Row(t)
  <2>1. ASSUME NEW t \in Reqs, t # s
        PROVE  Row(t)' = Row(t)
    <3>1. Same(t)
      BY <1>1, <2>1
    <3>2. Accepted(t)' <=> Accepted(t)
      BY <1>1, <3>1 DEF Accepted, Same
    <3>3. QED
      BY <3>1, <3>2 DEF Row, Same
  <2>2. QED
    BY <1>2, <2>1
<1>10. Row(s).gate = "none"
  BY DEF Row
<1>11. Gate!Issue(s, new)
  BY <1>1, <1>3, <1>4, <1>5, <1>6, <1>7, <1>8, <1>9, <1>10, GateIssue
<1>12. QED
  BY <1>3, <1>11 DEF Gate!Next

\* A step that issues no token shuts some of one account, all of them if its
\* password changes, or changes nothing here.
LEMMA OtherStepsRefine ==
    ASSUME GateInv, IInv', [Next]_vars,
           \A t \in Reqs : pc'[t] = "issued" => pc[t] = "issued"
    PROVE  Gate!Next \/ UNCHANGED Gate!vars
<1>. USE DEF GateInv, IInv
<1>1. ASSUME NEW t \in Reqs, pc[t] # "issued"
      PROVE  Row(t)' = Row(t)
  BY <1>1, NoTokenStays
<1>2. CASE Quiet
  <2>1. \A t \in Reqs : Row(t)' = Row(t)
    BY <1>1, <1>2, TokenOfAnother
  <2>2. UNCHANGED user
    BY <1>2 DEF Quiet
  <2>3. QED
    BY <2>1, <2>2 DEF Gate!vars, Row
<1>3. ASSUME NEW u \in Users, Touches(u)
      PROVE  Gate!Next
  <2>1. ASSUME NEW t \in Reqs, Row(t).user # u
        PROVE  Row(t)' = Row(t)
    BY <1>1, <1>3, <2>1, TokenOfAnother DEF Row
  <2>2. ASSUME NEW t \in Reqs
        PROVE  \/ Row(t)' = Row(t)
               \/ /\ Row(t).gate = "open"
                  /\ Row(t)' = [Row(t) EXCEPT !.gate = "shut"]
    BY <1>1, TokenStays
  <2>3. \A v \in Users \ {u} : user'[v].pw = user[v].pw
    BY <1>3 DEF Touches
  <2>4. CASE user'[u].pw = user[u].pw
    <3>1. PICK some \in SUBSET Reqs :
              some = {t \in Reqs : Row(t).user = u /\ Row(t)' # Row(t)}
      OBVIOUS
    <3>2. \A t \in Reqs : Row(t)' = IF t \in some /\ Row(t).gate = "open"
                                    THEN [Row(t) EXCEPT !.gate = "shut"] ELSE Row(t)
      BY <2>1, <2>2, <3>1
    <3>3. Gate!Shut(u, some)
      BY <2>3, <2>4, <3>1, <3>2, GateShut
    <3>4. QED
      BY <3>3 DEF Gate!Next
  <2>5. CASE user'[u].pw # user[u].pw
    <3>1. epoch[u] < epoch'[u]
      BY <2>5, AccountWrites
    <3>2. ASSUME NEW t \in Reqs, Row(t).user = u, Row(t).gate = "open"
          PROVE  Row(t)' = [Row(t) EXCEPT !.gate = "shut"]
      <4>1. pc[t] = "issued" /\ seen[t].user = u /\ Accepted(t)
        BY <3>2 DEF Row
      <4>2. ~Accepted(t)'
        BY <3>1, <4>1, BumpShuts
      <4>3. QED
        BY <4>1, <4>2, TokenStays
    <3>3. \A t \in Reqs : Row(t)' = IF Row(t).user = u /\ Row(t).gate = "open"
                                    THEN [Row(t) EXCEPT !.gate = "shut"] ELSE Row(t)
      BY <2>1, <2>2, <3>2
    <3>4. PICK p \in Passwords : user'[u].pw = p
      BY DEF TypeInv, TypeOK, TablesOK, UserRow
    <3>5. Gate!ChangePassword(u, p)
      BY <2>3, <3>3, <3>4, GateChange
    <3>6. QED
      BY <3>5 DEF Gate!Next
  <2>6. QED
    BY <2>4, <2>5
<1>4. QED
  <2>1. Quiet \/ \E u \in Users : Touches(u)
    BY WritersStep, DeviceWrites, OneAccount DEF Writers, Quiet
  <2>2. QED
    BY <1>2, <1>3, <2>1

\* Whatever statements interleave, signing in keeps its promise: every token is
\* issued for the password of the account or a code of its own, all are shut when the
\* password changes, and none is opened again.
THEOREM Promise == Spec => KeepsItsPromise
<1>1. Init => Gate!Init
  BY DEF Init, Gate!Init, Gate!NoToken, UserRow
<1>2. GateInv /\ GateInv' /\ [Next]_vars => [Gate!Next]_(Gate!vars)
  BY IssuingRefines, OtherStepsRefine DEF GateInv
<1>3. QED
  BY <1>1, <1>2, InductiveGate, PTL DEF Spec, Gate!Spec, KeepsItsPromise

=============================================================================
