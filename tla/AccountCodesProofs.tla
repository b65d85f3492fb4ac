------------------------- MODULE AccountCodesProofs -------------------------
(***************************************************************************)
(* Proofs about AccountCodes, for any number of accounts, addresses,       *)
(* passwords, requests and codes.                                          *)
(*                                                                         *)
(* The argument.  A number is given to one code, and its row is inserted   *)
(* once, by the request that was given the number.  So a row that is       *)
(* inserted starts with nothing missed and replaces nothing that was       *)
(* spent, and from then on every miss moves its counter in the same        *)
(* UPDATE.  A row that is deleted was not spent, whatever the DELETE's     *)
(* snapshot said.                                                          *)
(***************************************************************************)
EXTENDS AccountCodes, FiniteSetTheorems, TLAPS

(***************************************************************************)
(* The inductive invariant                                                 *)
(***************************************************************************)

\* Where a request is about to insert the row of a code it was given.
Inserting == {"rinsert", "cinsert"}

\* What a request holds refers to an account, an address and a code of its kind.
HeldInv ==
    \A r \in Reqs :
        /\ pc[r] \notin {"idle", "done"} => who[r] \in Users
        /\ pc[r] \in Inserting \cup {"rreplace", "rmail", "creplace", "cmail"} =>
              addr[r] \in Emails
        /\ pc[r] \in {"rinsert", "rmail", "rfail", "rspend"} => ch[r] \in ResetIds
        /\ pc[r] \in {"cinsert", "cpending", "cmail", "cfail", "cspend"} =>
              ch[r] \in ChangeIds

\* c has been given a created_at.
Stamped(c) ==
    \/ c \in ResetIds /\ c <= stamped["reset"]
    \/ c \in ChangeIds /\ c <= MaxResets + stamped["change"]

\* A row has a number, a change has an address, and a code that was missed too often
\* is burned.
RowInv ==
    \A c \in CodeIds :
        /\ code[c].user # None => Stamped(c)
        /\ code[c].user # None /\ c \in ChangeIds => code[c].newEmail \in Emails
        /\ code[c].consumed => code[c].user # None
        /\ ~code[c].consumed => code[c].attempts < MaxAttempts

\* A number that is not given yet has not been guessed at.
FreshInv == \A c \in CodeIds : ~Stamped(c) => Guesses(c) = {}

\* Nor has one whose row is about to be inserted, and it is one request's.
InsertInv ==
    \A r \in Reqs : pc[r] \in Inserting =>
        /\ Stamped(ch[r])
        /\ code[ch[r]].user = None
        /\ Guesses(ch[r]) = {}
        /\ \A s \in Reqs \ {r} : pc[s] \in Inserting => ch[s] # ch[r]

\* The counter of an open code has counted every miss.
CountInv ==
    \A c \in CodeIds : code[c].user # None /\ ~code[c].consumed =>
        /\ IsFiniteSet(Guesses(c))
        /\ Cardinality(Guesses(c)) <= code[c].attempts

IInv ==
    /\ TypeOK
    /\ HeldInv /\ RowInv /\ FreshInv /\ InsertInv /\ CountInv
    /\ RedeemedCodeIsSpent /\ NoTwoAccountsShareAnAddress


\* The parts of TypeOK.
AccountShape ==
    /\ account \in [Users -> AccountRow]

CodeShape ==
    /\ code \in [CodeIds -> CodeRow]

StampShape ==
    /\ stamped \in [Kinds -> Nat]
    /\ stamped["reset"] <= MaxResets
    /\ stamped["change"] <= MaxChanges

HistoryShape ==
    /\ mail \subseteq Emails \X CodeIds
    /\ missed \subseteq Reqs \X CodeIds
    /\ redeemed \subseteq Reqs \X CodeIds

LocalShape ==
    /\ pc \in [Reqs -> Pcs]
    /\ who \in [Reqs -> Users \cup {None}]
    /\ addr \in [Reqs -> Emails \cup {None}]
    /\ ch \in [Reqs -> CodeIds \cup {None}]
    /\ got \in [Reqs -> 0..MaxAttempts]
    /\ old \in [Reqs -> SUBSET CodeIds]

(***************************************************************************)
(* Rows and numbers                                                        *)
(***************************************************************************)

\* A new row is well-formed,
LEMMA NewRow ==
    \A u \in Users, e \in Emails \cup {None} :
        [user |-> u, newEmail |-> e, attempts |-> 0,
         consumed |-> FALSE, expired |-> FALSE] \in CodeRow
  BY AttemptsAssumption DEF CodeRow

\* ... so is a deleted one,
LEMMA NoRow == NoCode \in CodeRow
  BY AttemptsAssumption DEF CodeRow, NoCode

\* ... one whose miss was counted, as long as it was below the cap,
LEMMA MissedRow ==
    ASSUME NEW row \in CodeRow, row.attempts < MaxAttempts
    PROVE  [user |-> row.user, newEmail |-> row.newEmail,
            attempts |-> row.attempts + 1,
            consumed |-> row.attempts + 1 >= MaxAttempts,
            expired |-> row.expired] \in CodeRow
  BY AttemptsAssumption DEF CodeRow

\* ... a spent one
LEMMA SpentRow ==
    \A row \in CodeRow, n \in 0..MaxAttempts :
        [user |-> row.user, newEmail |-> row.newEmail, attempts |-> n,
         consumed |-> TRUE, expired |-> row.expired] \in CodeRow
  BY DEF CodeRow

\* ... and an expired one.
LEMMA ExpiredRow == \A row \in CodeRow : [row EXCEPT !.expired = TRUE] \in CodeRow
  BY DEF CodeRow

\* The numbers of a kind are as many as its bound says.
LEMMA IdCount ==
    Cardinality(Ids("reset")) = MaxResets /\ Cardinality(Ids("change")) = MaxChanges
  BY FS_Interval, BoundsAssumption DEF Ids, ResetIds, ChangeIds

\* Superseding gives a request the next number of its kind, and takes none back.
LEMMA NextNumber ==
    ASSUME StampShape, NEW r \in Reqs, NEW kind \in Kinds, Supersede(r, kind)
    PROVE  /\ StampShape'
           /\ \A c \in CodeIds : Stamped(c) => Stamped(c)'
           /\ \E c \in Ids(kind) :
                 ~Stamped(c) /\ Stamped(c)' /\ ch' = [ch EXCEPT ![r] = c]
<1> USE BoundsAssumption, IdCount
    DEF Supersede, StampShape, Stamped, Ids, CodeIds, ResetIds, ChangeIds
<1>1. CASE kind = "reset"
  <2>1. /\ stamped["reset"] \in Nat
        /\ stamped["reset"] < MaxResets
        /\ stamped["change"] \in Nat
        /\ stamped["change"] <= MaxChanges
        /\ stamped'["reset"] = stamped["reset"] + 1
        /\ stamped'["change"] = stamped["change"]
        /\ stamped' \in [Kinds -> Nat]
    BY <1>1 DEF Kinds
  <2> DEFINE n == 0 + stamped["reset"] + 1
  <2>2. ch' = [ch EXCEPT ![r] = n]
    BY <1>1
  <2>3. n \in ResetIds /\ ~Stamped(n) /\ n <= stamped'["reset"]
    BY <2>1
  <2>4. StampShape' /\ \A c \in CodeIds : Stamped(c) => Stamped(c)'
    BY <2>1
  <2>5. \E c \in ResetIds : c = n
    BY <2>3
  <2>6. QED
    BY <1>1, <2>2, <2>3, <2>4, <2>5
<1>2. CASE kind = "change"
  <2>1. /\ stamped["change"] \in Nat
        /\ stamped["change"] < MaxChanges
        /\ stamped["reset"] \in Nat
        /\ stamped["reset"] <= MaxResets
        /\ stamped'["change"] = stamped["change"] + 1
        /\ stamped'["reset"] = stamped["reset"]
        /\ stamped' \in [Kinds -> Nat]
    BY <1>2 DEF Kinds
  <2> DEFINE n == MaxResets + stamped["change"] + 1
  <2>2. ch' = [ch EXCEPT ![r] = n]
    BY <1>2
  <2>3. n \in ChangeIds /\ ~Stamped(n) /\ n <= MaxResets + stamped'["change"]
    BY <2>1
  <2>4. StampShape' /\ \A c \in CodeIds : Stamped(c) => Stamped(c)'
    BY <2>1
  <2>5. \E c \in ChangeIds : c = n
    BY <2>3
  <2>6. QED
    BY <1>2, <2>2, <2>3, <2>4, <2>5
<1>3. QED
  BY <1>1, <1>2 DEF Kinds

\* The newest open code is a code of its kind, of the account and not spent.
LEMMA ActiveCode ==
    \A kind \in Kinds : \A u : \A c \in Active(kind, u) :
        c \in Ids(kind) /\ code[c].user = u /\ ~code[c].consumed
  BY DEF Active, Outstanding

\* An answered request is as before it came.
LEMMA AnswerShape ==
    ASSUME LocalShape, NEW r \in Reqs, Answer(r)
    PROVE  LocalShape'
  BY AttemptsAssumption DEF LocalShape, Answer, Goto, Pcs

\* So is one that compared a code, or found none.
LEMMA CompareShape ==
    ASSUME TypeOK, NEW r \in Reqs, NEW kind \in Kinds, NEW u \in Users, NEW submitted,
           NEW matched \in Pcs, NEW mismatched \in Pcs,
           Compare(r, kind, u, submitted, matched, mismatched)
    PROVE  LocalShape'
<1>1. CASE Answer(r)
  BY <1>1, AnswerShape DEF TypeOK, LocalShape
<1>2. ASSUME NEW c \in Active(kind, u),
             Goto(r, IF submitted = c THEN matched ELSE mismatched),
             who' = [who EXCEPT ![r] = u],
             ch' = [ch EXCEPT ![r] = c],
             got' = [got EXCEPT ![r] = code[c].attempts],
             UNCHANGED <<addr, old>>
      PROVE  LocalShape'
  <2>1. c \in CodeIds /\ code[c].attempts \in 0..MaxAttempts
    BY ActiveCode DEF TypeOK, CodeRow, Ids, CodeIds
  <2>2. QED
    BY <1>2, <2>1 DEF TypeOK, LocalShape, Goto
<1>3. QED
  BY <1>1, <1>2 DEF Compare

(***************************************************************************)
(* Requests                                                                *)
(***************************************************************************)

\* Each step keeps the requests well-formed.
LEMMA LocalShapeStep == TypeOK /\ HeldInv /\ Next => LocalShape'
<1> USE BoundsAssumption, AnswerShape, ActiveCode DEF TypeOK, LocalShape, HeldInv, Pcs,
       CodeIds, CodeRow, Inserting, Kinds
<1>0. SUFFICES ASSUME TypeOK /\ HeldInv, Next PROVE LocalShape'
  OBVIOUS
<1>1. ASSUME NEW r \in Reqs, \E e \in Emails : BeginPasswordReset(r, e)
      PROVE  LocalShape'
  BY <1>0, <1>1 DEF BeginPasswordReset, Goto, ByEmail, locals, history
<1>2. ASSUME NEW r \in Reqs, \E e \in Emails : CompletePasswordReset(r, e)
      PROVE  LocalShape'
  BY <1>0, <1>2 DEF CompletePasswordReset, Goto, ByEmail, locals, history
<1>3. ASSUME NEW r \in Reqs, ReplacePasswordResetBegin(r) PROVE LocalShape'
  <2>1. Supersede(r, "reset") /\ pc[r] = "rreplace" /\ Goto(r, "rinsert")
    BY <1>3 DEF ReplacePasswordResetBegin
  <2>2. PICK c \in Ids("reset") : ch' = [ch EXCEPT ![r] = c]
    BY <1>0, <2>1, NextNumber DEF TypeOK, StampShape, Kinds
  <2>3. QED
    BY <1>0, <2>1, <2>2 DEF Supersede, Goto, Ids, Outstanding, history
<1>4. ASSUME NEW r \in Reqs, ReplacePasswordResetCommit(r) PROVE LocalShape'
  BY <1>0, <1>4 DEF ReplacePasswordResetCommit, Goto, Insert, locals, history
<1>5. ASSUME NEW r \in Reqs, SendPasswordReset(r) PROVE LocalShape'
  BY <1>0, <1>5 DEF SendPasswordReset, locals, history
<1>6. ASSUME NEW r \in Reqs, \E submitted \in Submitted : ReadPasswordReset(r, submitted)
      PROVE  LocalShape'
  BY <1>0, <1>6, CompareShape DEF ReadPasswordReset
<1>7. ASSUME NEW r \in Reqs, FailPasswordReset(r) PROVE LocalShape'
  BY <1>0, <1>7 DEF FailPasswordReset, CountMiss, NothingToCount
<1>8. ASSUME NEW r \in Reqs, \E p \in Passwords : ConsumePasswordReset(r, p)
      PROVE  LocalShape'
  BY <1>0, <1>8 DEF ConsumePasswordReset, Spend
<1>9. ASSUME NEW r \in Reqs, \E u \in Users, p \in Passwords, e \in Emails :
             BeginEmailChange(r, u, p, e)
      PROVE  LocalShape'
  BY <1>0, <1>9 DEF BeginEmailChange, Goto, locals, history
<1>10. ASSUME NEW r \in Reqs, ReplaceEmailChangeBegin(r) PROVE LocalShape'
  <2>1. Supersede(r, "change") /\ pc[r] = "creplace" /\ Goto(r, "cinsert")
    BY <1>10 DEF ReplaceEmailChangeBegin
  <2>2. PICK c \in Ids("change") : ch' = [ch EXCEPT ![r] = c]
    BY <1>0, <2>1, NextNumber DEF TypeOK, StampShape, Kinds
  <2>3. QED
    BY <1>0, <2>1, <2>2 DEF Supersede, Goto, Ids, Outstanding, history
<1>11. ASSUME NEW r \in Reqs, ReplaceEmailChangeCommit(r) PROVE LocalShape'
  BY <1>0, <1>11 DEF ReplaceEmailChangeCommit, Goto, Insert, locals, history
<1>12. ASSUME NEW r \in Reqs, PendingEmailChange(r) PROVE LocalShape'
  <2>1. CASE Answer(r)
    BY <1>0, <2>1, AnswerShape
  <2>2. ASSUME NEW c \in Active("change", who[r])
        PROVE  code[c].newEmail \in Emails \cup {None}
    BY <1>0, <2>2, ActiveCode DEF Ids
  <2>3. QED
    BY <1>0, <1>12, <2>1, <2>2 DEF PendingEmailChange, Goto
<1>13. ASSUME NEW r \in Reqs, SendEmailChange(r) PROVE LocalShape'
  BY <1>0, <1>13 DEF SendEmailChange, locals, history
<1>14. ASSUME NEW r \in Reqs, \E u \in Users, submitted \in Submitted :
             ConfirmEmailChange(r, u, submitted)
      PROVE  LocalShape'
  BY <1>0, <1>14, CompareShape DEF ConfirmEmailChange
<1>15. ASSUME NEW r \in Reqs, FailEmailChange(r) PROVE LocalShape'
  BY <1>0, <1>15 DEF FailEmailChange, CountMiss, NothingToCount
<1>16. ASSUME NEW r \in Reqs, ConsumeEmailChange(r) PROVE LocalShape'
  BY <1>0, <1>16 DEF ConsumeEmailChange, Spend, Taken
<1>17. ASSUME NEW r \in Reqs, Abandon(r) PROVE LocalShape'
  BY <1>0, <1>17 DEF Abandon, locals, history
<1>18. ASSUME \E u \in Users, p \in Passwords, e \in Emails : Create(u, p, e)
      PROVE  LocalShape'
  BY <1>0, <1>18 DEF Create, locals, history, Taken
<1>19. ASSUME \E u \in Users : DeleteUser(u) PROVE LocalShape'
  BY <1>0, <1>19 DEF DeleteUser, locals, history
<1>20. ASSUME \E c \in CodeIds : Expire(c) PROVE LocalShape'
  BY <1>0, <1>20 DEF Expire, locals, history
<1>21. QED
  BY <1>0, <1>1, <1>2, <1>3, <1>4, <1>5, <1>6, <1>7, <1>8, <1>9, <1>10, <1>11, <1>12,
     <1>13, <1>14, <1>15, <1>16, <1>17, <1>18, <1>19, <1>20
     DEF Next, ResetStep, ChangeStep, OthersStep

\* Each step leaves requests with what exists.
LEMMA HeldStep == TypeOK /\ HeldInv /\ RowInv /\ Next => HeldInv'
<1> USE BoundsAssumption, NoneAssumption, ActiveCode DEF TypeOK, HeldInv, RowInv,
       Inserting, CodeIds, Kinds, Ids
<1>0. SUFFICES ASSUME TypeOK /\ HeldInv /\ RowInv, Next PROVE HeldInv'
  OBVIOUS
<1>1. ASSUME NEW r \in Reqs, \E e \in Emails : BeginPasswordReset(r, e) PROVE HeldInv'
  BY <1>0, <1>1 DEF BeginPasswordReset, Answer, Goto, ByEmail, locals, history
<1>2. ASSUME NEW r \in Reqs, \E e \in Emails : CompletePasswordReset(r, e)
      PROVE  HeldInv'
  BY <1>0, <1>2 DEF CompletePasswordReset, Answer, Goto, ByEmail, locals, history
<1>3. ASSUME NEW r \in Reqs, ReplacePasswordResetBegin(r) PROVE HeldInv'
  <2>1. Supersede(r, "reset") /\ pc[r] = "rreplace" /\ Goto(r, "rinsert")
    BY <1>3 DEF ReplacePasswordResetBegin
  <2>2. PICK c \in Ids("reset") : ch' = [ch EXCEPT ![r] = c]
    BY <1>0, <2>1, NextNumber DEF TypeOK, StampShape, Kinds
  <2>3. QED
    BY <1>0, <2>1, <2>2 DEF Supersede, Goto, Ids, Outstanding, history
<1>4. ASSUME NEW r \in Reqs, ReplacePasswordResetCommit(r) PROVE HeldInv'
  BY <1>0, <1>4 DEF ReplacePasswordResetCommit, Goto, Insert, locals, history
<1>5. ASSUME NEW r \in Reqs, SendPasswordReset(r) PROVE HeldInv'
  BY <1>0, <1>5 DEF SendPasswordReset, Answer, Goto, locals, history
<1>6. ASSUME NEW r \in Reqs, \E submitted \in Submitted : ReadPasswordReset(r, submitted)
      PROVE  HeldInv'
  BY <1>0, <1>6 DEF ReadPasswordReset, Answer, Goto, Compare, locals, history
<1>7. ASSUME NEW r \in Reqs, FailPasswordReset(r) PROVE HeldInv'
  BY <1>0, <1>7 DEF FailPasswordReset, Answer, Goto, CountMiss, NothingToCount
<1>8. ASSUME NEW r \in Reqs, \E p \in Passwords : ConsumePasswordReset(r, p)
      PROVE  HeldInv'
  BY <1>0, <1>8 DEF ConsumePasswordReset, Answer, Goto, Spend
<1>9. ASSUME NEW r \in Reqs, \E u \in Users, p \in Passwords, e \in Emails :
             BeginEmailChange(r, u, p, e)
      PROVE  HeldInv'
  BY <1>0, <1>9 DEF BeginEmailChange, Answer, Goto, locals, history
<1>10. ASSUME NEW r \in Reqs, ReplaceEmailChangeBegin(r) PROVE HeldInv'
  <2>1. Supersede(r, "change") /\ pc[r] = "creplace" /\ Goto(r, "cinsert")
    BY <1>10 DEF ReplaceEmailChangeBegin
  <2>2. PICK c \in Ids("change") : ch' = [ch EXCEPT ![r] = c]
    BY <1>0, <2>1, NextNumber DEF TypeOK, StampShape, Kinds
  <2>3. QED
    BY <1>0, <2>1, <2>2 DEF Supersede, Goto, Ids, Outstanding, history
<1>11. ASSUME NEW r \in Reqs, ReplaceEmailChangeCommit(r) PROVE HeldInv'
  BY <1>0, <1>11 DEF ReplaceEmailChangeCommit, Goto, Insert, locals, history
<1>12. ASSUME NEW r \in Reqs, PendingEmailChange(r) PROVE HeldInv'
  BY <1>0, <1>12 DEF PendingEmailChange, Answer, Goto, locals, history
<1>13. ASSUME NEW r \in Reqs, SendEmailChange(r) PROVE HeldInv'
  BY <1>0, <1>13 DEF SendEmailChange, Answer, Goto, locals, history
<1>14. ASSUME NEW r \in Reqs, \E u \in Users, submitted \in Submitted :
             ConfirmEmailChange(r, u, submitted)
      PROVE  HeldInv'
  BY <1>0, <1>14 DEF ConfirmEmailChange, Answer, Goto, Compare, locals, history
<1>15. ASSUME NEW r \in Reqs, FailEmailChange(r) PROVE HeldInv'
  BY <1>0, <1>15 DEF FailEmailChange, Answer, Goto, CountMiss, NothingToCount
<1>16. ASSUME NEW r \in Reqs, ConsumeEmailChange(r) PROVE HeldInv'
  BY <1>0, <1>16 DEF ConsumeEmailChange, Answer, Goto, Spend, Taken
<1>17. ASSUME NEW r \in Reqs, Abandon(r) PROVE HeldInv'
  BY <1>0, <1>17 DEF Abandon, Answer, Goto, locals, history
<1>18. ASSUME \E u \in Users, p \in Passwords, e \in Emails : Create(u, p, e)
      PROVE  HeldInv'
  BY <1>0, <1>18 DEF Create, locals, history, Taken
<1>19. ASSUME \E u \in Users : DeleteUser(u) PROVE HeldInv'
  BY <1>0, <1>19 DEF DeleteUser, locals, history
<1>20. ASSUME \E c \in CodeIds : Expire(c) PROVE HeldInv'
  BY <1>0, <1>20 DEF Expire, locals, history
<1>21. QED
  BY <1>0, <1>1, <1>2, <1>3, <1>4, <1>5, <1>6, <1>7, <1>8, <1>9, <1>10, <1>11, <1>12,
     <1>13, <1>14, <1>15, <1>16, <1>17, <1>18, <1>19, <1>20
     DEF Next, ResetStep, ChangeStep, OthersStep

\* Each step counts and redeems codes that exist.
LEMMA HistoryShapeStep == TypeOK /\ HeldInv /\ Next => HistoryShape'
<1> USE DEF TypeOK, HistoryShape, HeldInv, CodeIds
<1>0. SUFFICES ASSUME TypeOK /\ HeldInv, Next PROVE HistoryShape'
  OBVIOUS
<1>1. ASSUME NEW r \in Reqs, \E e \in Emails : BeginPasswordReset(r, e)
      PROVE  HistoryShape'
  BY <1>0, <1>1 DEF BeginPasswordReset, Answer, Goto, ByEmail, locals, history
<1>2. ASSUME NEW r \in Reqs, \E e \in Emails : CompletePasswordReset(r, e)
      PROVE  HistoryShape'
  BY <1>0, <1>2 DEF CompletePasswordReset, Answer, Goto, ByEmail, locals, history
<1>3. ASSUME NEW r \in Reqs, ReplacePasswordResetBegin(r) PROVE HistoryShape'
  BY <1>0, <1>3 DEF ReplacePasswordResetBegin, Goto, Supersede, Outstanding, locals,
     history, Ids
<1>4. ASSUME NEW r \in Reqs, ReplacePasswordResetCommit(r) PROVE HistoryShape'
  BY <1>0, <1>4 DEF ReplacePasswordResetCommit, Goto, Insert, locals, history
<1>5. ASSUME NEW r \in Reqs, SendPasswordReset(r) PROVE HistoryShape'
  BY <1>0, <1>5 DEF SendPasswordReset, Answer, Goto, locals, history
<1>6. ASSUME NEW r \in Reqs, \E submitted \in Submitted : ReadPasswordReset(r, submitted)
      PROVE  HistoryShape'
  BY <1>0, <1>6 DEF ReadPasswordReset, Answer, Goto, Compare, Outstanding, Active, locals,
     history, Ids
<1>7. ASSUME NEW r \in Reqs, FailPasswordReset(r) PROVE HistoryShape'
  BY <1>0, <1>7 DEF FailPasswordReset, Answer, Goto, CountMiss, NothingToCount
<1>8. ASSUME NEW r \in Reqs, \E p \in Passwords : ConsumePasswordReset(r, p)
      PROVE  HistoryShape'
  BY <1>0, <1>8 DEF ConsumePasswordReset, Answer, Goto, Spend
<1>9. ASSUME NEW r \in Reqs, \E u \in Users, p \in Passwords, e \in Emails :
             BeginEmailChange(r, u, p, e)
      PROVE  HistoryShape'
  BY <1>0, <1>9 DEF BeginEmailChange, Answer, Goto, locals, history
<1>10. ASSUME NEW r \in Reqs, ReplaceEmailChangeBegin(r) PROVE HistoryShape'
  BY <1>0, <1>10 DEF ReplaceEmailChangeBegin, Goto, Supersede, Outstanding, locals,
     history, Ids
<1>11. ASSUME NEW r \in Reqs, ReplaceEmailChangeCommit(r) PROVE HistoryShape'
  BY <1>0, <1>11 DEF ReplaceEmailChangeCommit, Goto, Insert, locals, history
<1>12. ASSUME NEW r \in Reqs, PendingEmailChange(r) PROVE HistoryShape'
  BY <1>0, <1>12 DEF PendingEmailChange, Answer, Goto, Outstanding, Active, locals,
     history, Ids
<1>13. ASSUME NEW r \in Reqs, SendEmailChange(r) PROVE HistoryShape'
  BY <1>0, <1>13 DEF SendEmailChange, Answer, Goto, locals, history
<1>14. ASSUME NEW r \in Reqs, \E u \in Users, submitted \in Submitted :
             ConfirmEmailChange(r, u, submitted)
      PROVE  HistoryShape'
  BY <1>0, <1>14 DEF ConfirmEmailChange, Answer, Goto, Compare, Outstanding, Active,
     locals, history, Ids
<1>15. ASSUME NEW r \in Reqs, FailEmailChange(r) PROVE HistoryShape'
  BY <1>0, <1>15 DEF FailEmailChange, Answer, Goto, CountMiss, NothingToCount
<1>16. ASSUME NEW r \in Reqs, ConsumeEmailChange(r) PROVE HistoryShape'
  BY <1>0, <1>16 DEF ConsumeEmailChange, Answer, Goto, Spend, Taken
<1>17. ASSUME NEW r \in Reqs, Abandon(r) PROVE HistoryShape'
  BY <1>0, <1>17 DEF Abandon, Answer, Goto, locals, history
<1>18. ASSUME \E u \in Users, p \in Passwords, e \in Emails : Create(u, p, e)
      PROVE  HistoryShape'
  BY <1>0, <1>18 DEF Create, locals, history, Taken
<1>19. ASSUME \E u \in Users : DeleteUser(u) PROVE HistoryShape'
  BY <1>0, <1>19 DEF DeleteUser, locals, history
<1>20. ASSUME \E c \in CodeIds : Expire(c) PROVE HistoryShape'
  BY <1>0, <1>20 DEF Expire, locals, history
<1>21. QED
  BY <1>0, <1>1, <1>2, <1>3, <1>4, <1>5, <1>6, <1>7, <1>8, <1>9, <1>10, <1>11, <1>12,
     <1>13, <1>14, <1>15, <1>16, <1>17, <1>18, <1>19, <1>20
     DEF Next, ResetStep, ChangeStep, OthersStep

\* Each step keeps the accounts well-formed.
LEMMA AccountStep == TypeOK /\ HeldInv /\ RowInv /\ Next => AccountShape'
<1> USE NoneAssumption DEF TypeOK, AccountShape, HeldInv, RowInv, AccountRow, CodeIds
<1>0. SUFFICES ASSUME TypeOK /\ HeldInv /\ RowInv, Next PROVE AccountShape'
  OBVIOUS
<1>1. ASSUME NEW r \in Reqs, \E e \in Emails : BeginPasswordReset(r, e)
      PROVE  AccountShape'
  BY <1>0, <1>1 DEF BeginPasswordReset, Answer, Goto, ByEmail, locals, history
<1>2. ASSUME NEW r \in Reqs, \E e \in Emails : CompletePasswordReset(r, e)
      PROVE  AccountShape'
  BY <1>0, <1>2 DEF CompletePasswordReset, Answer, Goto, ByEmail, locals, history
<1>3. ASSUME NEW r \in Reqs, ReplacePasswordResetBegin(r) PROVE AccountShape'
  BY <1>0, <1>3 DEF ReplacePasswordResetBegin, Goto, Supersede, Outstanding, locals,
     history, Ids
<1>4. ASSUME NEW r \in Reqs, ReplacePasswordResetCommit(r) PROVE AccountShape'
  BY <1>0, <1>4 DEF ReplacePasswordResetCommit, Goto, Insert, locals, history
<1>5. ASSUME NEW r \in Reqs, SendPasswordReset(r) PROVE AccountShape'
  BY <1>0, <1>5 DEF SendPasswordReset, Answer, Goto, locals, history
<1>6. ASSUME NEW r \in Reqs, \E submitted \in Submitted : ReadPasswordReset(r, submitted)
      PROVE  AccountShape'
  BY <1>0, <1>6 DEF ReadPasswordReset, Answer, Goto, Compare, Outstanding, Active, locals,
     history, Ids
<1>7. ASSUME NEW r \in Reqs, FailPasswordReset(r) PROVE AccountShape'
  BY <1>0, <1>7 DEF FailPasswordReset, Answer, Goto, CountMiss, NothingToCount
<1>8. ASSUME NEW r \in Reqs, \E p \in Passwords : ConsumePasswordReset(r, p)
      PROVE  AccountShape'
  BY <1>0, <1>8 DEF ConsumePasswordReset, Answer, Goto, Spend
<1>9. ASSUME NEW r \in Reqs, \E u \in Users, p \in Passwords, e \in Emails :
             BeginEmailChange(r, u, p, e)
      PROVE  AccountShape'
  BY <1>0, <1>9 DEF BeginEmailChange, Answer, Goto, locals, history
<1>10. ASSUME NEW r \in Reqs, ReplaceEmailChangeBegin(r) PROVE AccountShape'
  BY <1>0, <1>10 DEF ReplaceEmailChangeBegin, Goto, Supersede, Outstanding, locals,
     history, Ids
<1>11. ASSUME NEW r \in Reqs, ReplaceEmailChangeCommit(r) PROVE AccountShape'
  BY <1>0, <1>11 DEF ReplaceEmailChangeCommit, Goto, Insert, locals, history
<1>12. ASSUME NEW r \in Reqs, PendingEmailChange(r) PROVE AccountShape'
  BY <1>0, <1>12 DEF PendingEmailChange, Answer, Goto, Outstanding, Active, locals,
     history, Ids
<1>13. ASSUME NEW r \in Reqs, SendEmailChange(r) PROVE AccountShape'
  BY <1>0, <1>13 DEF SendEmailChange, Answer, Goto, locals, history
<1>14. ASSUME NEW r \in Reqs, \E u \in Users, submitted \in Submitted :
             ConfirmEmailChange(r, u, submitted)
      PROVE  AccountShape'
  BY <1>0, <1>14 DEF ConfirmEmailChange, Answer, Goto, Compare, Outstanding, Active,
     locals, history, Ids
<1>15. ASSUME NEW r \in Reqs, FailEmailChange(r) PROVE AccountShape'
  BY <1>0, <1>15 DEF FailEmailChange, Answer, Goto, CountMiss, NothingToCount
<1>16. ASSUME NEW r \in Reqs, ConsumeEmailChange(r) PROVE AccountShape'
  BY <1>0, <1>16 DEF ConsumeEmailChange, Answer, Goto, Spend, Taken
<1>17. ASSUME NEW r \in Reqs, Abandon(r) PROVE AccountShape'
  BY <1>0, <1>17 DEF Abandon, Answer, Goto, locals, history
<1>18. ASSUME \E u \in Users, p \in Passwords, e \in Emails : Create(u, p, e)
      PROVE  AccountShape'
  BY <1>0, <1>18 DEF Create, locals, history, Taken
<1>19. ASSUME \E u \in Users : DeleteUser(u) PROVE AccountShape'
  BY <1>0, <1>19 DEF DeleteUser, locals, history
<1>20. ASSUME \E c \in CodeIds : Expire(c) PROVE AccountShape'
  BY <1>0, <1>20 DEF Expire, locals, history
<1>21. QED
  BY <1>0, <1>1, <1>2, <1>3, <1>4, <1>5, <1>6, <1>7, <1>8, <1>9, <1>10, <1>11, <1>12,
     <1>13, <1>14, <1>15, <1>16, <1>17, <1>18, <1>19, <1>20
     DEF Next, ResetStep, ChangeStep, OthersStep

(***************************************************************************)
(* Codes                                                                   *)
(***************************************************************************)

\* How a step may write the table of codes, and what it does besides.
Inserts(r) ==
    /\ pc[r] \in Inserting
    /\ \E e \in Emails \cup {None} : Insert(r, e) /\ (ch[r] \in ChangeIds => e \in Emails)
    /\ pc' = [pc EXCEPT ![r] = IF pc[r] = "rinsert" THEN "rmail" ELSE "cpending"]
    /\ UNCHANGED <<stamped, ch, history>>

Counts(r) ==
    /\ pc[r] \in {"rfail", "cfail"}
    /\ CountMiss(r)
    /\ Answer(r)
    /\ UNCHANGED <<stamped, redeemed>>

Spends(r) ==
    /\ pc[r] \in {"rspend", "cspend"}
    /\ code[ch[r]].user # None
    /\ Spend(r)
    /\ Answer(r)
    /\ UNCHANGED <<stamped, missed>>

Numbers(r) ==
    /\ pc[r] \in {"rreplace", "creplace"}
    /\ \E kind \in Kinds :
          Supersede(r, kind) /\ Goto(r, IF kind = "reset" THEN "rinsert" ELSE "cinsert")

\* A step that writes no code and gives no number.
Spares ==
    /\ UNCHANGED <<stamped, code, history>>
    /\ \A s \in Reqs : pc'[s] \in Inserting => pc[s] = pc'[s] /\ ch'[s] = ch[s]

Writes ==
    \/ Spares
    \/ \E r \in Reqs : Inserts(r) \/ Counts(r) \/ Spends(r) \/ Numbers(r)
    \/ \E c \in CodeIds : Expire(c)

\* Each step spares the codes or does one of these.
LEMMA WritersStep == TypeOK /\ HeldInv /\ Next => Writes
<1> USE BoundsAssumption DEF TypeOK, HeldInv, Inserting, Spares
<1>0. SUFFICES ASSUME TypeOK /\ HeldInv, Next PROVE Writes
  OBVIOUS
<1>1. ASSUME NEW r \in Reqs, \E e \in Emails : BeginPasswordReset(r, e) PROVE Writes
  BY <1>0, <1>1 DEF Writes, BeginPasswordReset, Answer, Goto, ByEmail, locals, history
<1>2. ASSUME NEW r \in Reqs, \E e \in Emails : CompletePasswordReset(r, e) PROVE Writes
  BY <1>0, <1>2 DEF Writes, CompletePasswordReset, Answer, Goto, ByEmail, locals, history
<1>3. ASSUME NEW r \in Reqs, ReplacePasswordResetBegin(r) PROVE Writes
  <2>1. Numbers(r)
    BY <1>0, <1>3 DEF ReplacePasswordResetBegin, Numbers, Kinds
  <2>2. QED
    BY <2>1 DEF Writes
<1>4. ASSUME NEW r \in Reqs, ReplacePasswordResetCommit(r) PROVE Writes
  <2>1. Inserts(r)
    BY <1>0, <1>4 DEF ReplacePasswordResetCommit, Inserts, ResetIds, ChangeIds, Goto, locals
  <2>2. QED
    BY <2>1 DEF Writes
<1>5. ASSUME NEW r \in Reqs, SendPasswordReset(r) PROVE Writes
  BY <1>0, <1>5 DEF Writes, SendPasswordReset, Answer, Goto, locals, history
<1>6. ASSUME NEW r \in Reqs, \E submitted \in Submitted : ReadPasswordReset(r, submitted)
      PROVE  Writes
  BY <1>0, <1>6 DEF Writes, ReadPasswordReset, Answer, Goto, Compare, Outstanding, Active, locals,
     history, Ids
<1>7. ASSUME NEW r \in Reqs, FailPasswordReset(r) PROVE Writes
  <2>1. Spares \/ Counts(r)
    BY <1>0, <1>7 DEF FailPasswordReset, Counts, NothingToCount, Answer, Goto, history
  <2>2. QED
    BY <2>1 DEF Writes
<1>8. ASSUME NEW r \in Reqs, \E p \in Passwords : ConsumePasswordReset(r, p)
      PROVE  Writes
  <2>1. Spares \/ Spends(r)
    BY <1>0, <1>8 DEF ConsumePasswordReset, Spends, Answer, Goto, history
  <2>2. QED
    BY <2>1 DEF Writes
<1>9. ASSUME NEW r \in Reqs, \E u \in Users, p \in Passwords, e \in Emails :
             BeginEmailChange(r, u, p, e)
      PROVE  Writes
  BY <1>0, <1>9 DEF Writes, BeginEmailChange, Answer, Goto, locals, history
<1>10. ASSUME NEW r \in Reqs, ReplaceEmailChangeBegin(r) PROVE Writes
  <2>1. Numbers(r)
    BY <1>0, <1>10 DEF ReplaceEmailChangeBegin, Numbers, Kinds
  <2>2. QED
    BY <2>1 DEF Writes
<1>11. ASSUME NEW r \in Reqs, ReplaceEmailChangeCommit(r) PROVE Writes
  <2>1. Inserts(r)
    BY <1>0, <1>11 DEF ReplaceEmailChangeCommit, Inserts, Goto, locals
  <2>2. QED
    BY <2>1 DEF Writes
<1>12. ASSUME NEW r \in Reqs, PendingEmailChange(r) PROVE Writes
  BY <1>0, <1>12 DEF Writes, PendingEmailChange, Answer, Goto, Outstanding, Active, locals,
     history, Ids
<1>13. ASSUME NEW r \in Reqs, SendEmailChange(r) PROVE Writes
  BY <1>0, <1>13 DEF Writes, SendEmailChange, Answer, Goto, locals, history
<1>14. ASSUME NEW r \in Reqs, \E u \in Users, submitted \in Submitted :
             ConfirmEmailChange(r, u, submitted)
      PROVE  Writes
  BY <1>0, <1>14 DEF Writes, ConfirmEmailChange, Answer, Goto, Compare, Outstanding, Active,
     locals, history, Ids
<1>15. ASSUME NEW r \in Reqs, FailEmailChange(r) PROVE Writes
  <2>1. Spares \/ Counts(r)
    BY <1>0, <1>15 DEF FailEmailChange, Counts, NothingToCount, Answer, Goto, history
  <2>2. QED
    BY <2>1 DEF Writes
<1>16. ASSUME NEW r \in Reqs, ConsumeEmailChange(r) PROVE Writes
  <2>1. Spares \/ Spends(r)
    BY <1>0, <1>16 DEF ConsumeEmailChange, Spends, Answer, Goto, history
  <2>2. QED
    BY <2>1 DEF Writes
<1>17. ASSUME NEW r \in Reqs, Abandon(r) PROVE Writes
  BY <1>0, <1>17 DEF Writes, Abandon, Answer, Goto, locals, history
<1>18. ASSUME \E u \in Users, p \in Passwords, e \in Emails : Create(u, p, e)
      PROVE  Writes
  BY <1>0, <1>18 DEF Writes, Create, locals, history, Taken
<1>19. ASSUME \E u \in Users : DeleteUser(u) PROVE Writes
  BY <1>0, <1>19 DEF Writes, DeleteUser, locals, history
<1>20. ASSUME \E c \in CodeIds : Expire(c) PROVE Writes
  BY <1>20 DEF Writes
<1>21. QED
  BY <1>0, <1>1, <1>2, <1>3, <1>4, <1>5, <1>6, <1>7, <1>8, <1>9, <1>10, <1>11, <1>12,
     <1>13, <1>14, <1>15, <1>16, <1>17, <1>18, <1>19, <1>20
     DEF Next, ResetStep, ChangeStep, OthersStep

\* Counting a miss moves one counter, and burns the code when it reaches the cap.
LEMMA Counted ==
    ASSUME TypeOK, HeldInv, NEW r \in Reqs, Counts(r)
    PROVE  /\ ch[r] \in CodeIds
           /\ code[ch[r]].user # None /\ ~code[ch[r]].consumed
           /\ code[ch[r]].attempts \in Nat
           /\ \A c \in CodeIds : c # ch[r] => code'[c] = code[c]
           /\ code'[ch[r]].user = code[ch[r]].user
           /\ code'[ch[r]].newEmail = code[ch[r]].newEmail
           /\ code'[ch[r]].attempts = code[ch[r]].attempts + 1
           /\ ~code'[ch[r]].consumed => code'[ch[r]].attempts < MaxAttempts
           /\ missed' = missed \cup {<<r, ch[r]>>}
           /\ UNCHANGED stamped
<1>1. ch[r] \in CodeIds
  BY DEF HeldInv, Counts, CodeIds
<1>2. code[ch[r]] \in CodeRow
  BY <1>1 DEF TypeOK
<1>3. code[ch[r]].attempts \in Nat
  BY <1>2, AttemptsAssumption DEF CodeRow
<1> DEFINE row == [user |-> code[ch[r]].user, newEmail |-> code[ch[r]].newEmail,
                   attempts |-> code[ch[r]].attempts + 1,
                   consumed |-> code[ch[r]].attempts + 1 >= MaxAttempts,
                   expired |-> code[ch[r]].expired]
<1>4. code' = [code EXCEPT ![ch[r]] = row]
  BY DEF Counts, CountMiss
<1>5. code'[ch[r]] = row /\ \A c \in CodeIds : c # ch[r] => code'[c] = code[c]
  BY <1>1, <1>4 DEF TypeOK
<1>6. ~row.consumed => row.attempts < MaxAttempts
  <2> DEFINE n == code[ch[r]].attempts + 1
  <2>1. row.consumed = (n >= MaxAttempts) /\ row.attempts = n
    OBVIOUS
  <2>2. n >= MaxAttempts \/ n < MaxAttempts
    BY <1>3, AttemptsAssumption
  <2> HIDE DEF n, row
  <2>3. QED
    BY <2>1, <2>2
<1>7. QED
  BY <1>1, <1>3, <1>5, <1>6 DEF Counts, CountMiss

\* Each step gives out numbers one at a time.
LEMMA StampStep == TypeOK /\ HeldInv /\ Next => StampShape'
<1> SUFFICES ASSUME TypeOK /\ HeldInv, Next PROVE StampShape'
  OBVIOUS
<1> USE DEF TypeOK, StampShape
<1>1. CASE Spares
  BY <1>1 DEF Spares
<1>2. ASSUME NEW r \in Reqs, Inserts(r) PROVE StampShape'
  BY <1>2 DEF Inserts
<1>3. ASSUME NEW r \in Reqs, Counts(r) PROVE StampShape'
  BY <1>3 DEF Counts
<1>4. ASSUME NEW r \in Reqs, Spends(r) PROVE StampShape'
  BY <1>4 DEF Spends
<1>5. ASSUME NEW r \in Reqs, Numbers(r) PROVE StampShape'
  BY <1>5, NextNumber DEF Numbers
<1>6. ASSUME NEW c \in CodeIds, Expire(c) PROVE StampShape'
  BY <1>6 DEF Expire
<1>7. QED
  BY <1>1, <1>2, <1>3, <1>4, <1>5, <1>6, WritersStep DEF Writes

\* Each step keeps the codes well-formed.
LEMMA CodeStep == TypeOK /\ HeldInv /\ RowInv /\ Next => CodeShape'
<1> SUFFICES ASSUME TypeOK /\ HeldInv /\ RowInv, Next PROVE CodeShape'
  OBVIOUS
<1> USE DEF TypeOK, CodeShape, HeldInv, Inserting, CodeIds
<1>1. CASE Spares
  BY <1>1 DEF Spares
<1>2. ASSUME NEW r \in Reqs, Inserts(r) PROVE CodeShape'
  BY <1>2, NewRow, NoRow DEF Inserts, Insert
<1>3. ASSUME NEW r \in Reqs, Counts(r) PROVE CodeShape'
  BY <1>3, MissedRow DEF Counts, CountMiss, RowInv
<1>4. ASSUME NEW r \in Reqs, Spends(r) PROVE CodeShape'
  BY <1>4, SpentRow DEF Spends, Spend
<1>5. ASSUME NEW r \in Reqs, Numbers(r) PROVE CodeShape'
  BY <1>5 DEF Numbers, Supersede
<1>6. ASSUME NEW c \in CodeIds, Expire(c) PROVE CodeShape'
  BY <1>6, ExpiredRow DEF Expire
<1>7. QED
  BY <1>1, <1>2, <1>3, <1>4, <1>5, <1>6, WritersStep DEF Writes

\* Each step leaves rows with a number, and no open one at the cap.
LEMMA RowStep == TypeOK /\ HeldInv /\ RowInv /\ InsertInv /\ Next => RowInv'
<1> SUFFICES ASSUME TypeOK /\ HeldInv /\ RowInv /\ InsertInv, Next PROVE RowInv'
  OBVIOUS
<1> USE AttemptsAssumption, NoneAssumption DEF TypeOK, HeldInv, Inserting, RowInv, CodeIds
<1>1. CASE Spares
  BY <1>1 DEF Spares, Stamped
<1>2. ASSUME NEW r \in Reqs, Inserts(r) PROVE RowInv'
  BY <1>2 DEF Inserts, Insert, InsertInv, Stamped, NoCode
<1>3. ASSUME NEW r \in Reqs, Counts(r) PROVE RowInv'
  BY <1>3, Counted DEF Stamped
<1>4. ASSUME NEW r \in Reqs, Spends(r) PROVE RowInv'
  BY <1>4 DEF Spends, Spend, Stamped
<1>5. ASSUME NEW r \in Reqs, Numbers(r) PROVE RowInv'
  BY <1>5, NextNumber DEF Numbers, StampShape, Supersede
<1>6. ASSUME NEW c \in CodeIds, Expire(c) PROVE RowInv'
  BY <1>6 DEF Expire, Stamped
<1>7. QED
  BY <1>1, <1>2, <1>3, <1>4, <1>5, <1>6, WritersStep DEF Writes

\* Each step leaves the numbers to come unguessed.
LEMMA FreshStep == TypeOK /\ HeldInv /\ RowInv /\ FreshInv /\ Next => FreshInv'
<1> SUFFICES ASSUME TypeOK /\ HeldInv /\ RowInv /\ FreshInv, Next PROVE FreshInv'
  OBVIOUS
<1> USE DEF TypeOK, HeldInv, FreshInv, CodeIds
<1>1. CASE Spares
  BY <1>1 DEF Spares, Stamped, Guesses, history
<1>2. ASSUME NEW r \in Reqs, Inserts(r) PROVE FreshInv'
  BY <1>2 DEF Inserts, Stamped, Guesses, history
<1>3. ASSUME NEW r \in Reqs, Counts(r) PROVE FreshInv'
  BY <1>3 DEF Counts, CountMiss, Stamped, Guesses, RowInv
<1>4. ASSUME NEW r \in Reqs, Spends(r) PROVE FreshInv'
  BY <1>4 DEF Spends, Stamped, Guesses
<1>5. ASSUME NEW r \in Reqs, Numbers(r) PROVE FreshInv'
  BY <1>5, NextNumber DEF Numbers, StampShape, Supersede, Guesses, history
<1>6. ASSUME NEW c \in CodeIds, Expire(c) PROVE FreshInv'
  BY <1>6 DEF Expire, Stamped, Guesses, history
<1>7. QED
  BY <1>1, <1>2, <1>3, <1>4, <1>5, <1>6, WritersStep DEF Writes

\* Each step leaves a number to the one request that inserts its row.
LEMMA InsertStep ==
    TypeOK /\ HeldInv /\ RowInv /\ FreshInv /\ InsertInv /\ Next =>
        InsertInv'
<1> SUFFICES ASSUME TypeOK /\ HeldInv /\ RowInv /\ FreshInv /\ InsertInv, Next
             PROVE  InsertInv'
  OBVIOUS
<1> USE NoneAssumption DEF TypeOK, HeldInv, Inserting, InsertInv, CodeIds
<1>1. CASE Spares
  BY <1>1 DEF Spares, Stamped, Guesses, history
<1>2. ASSUME NEW r \in Reqs, Inserts(r) PROVE InsertInv'
  BY <1>2 DEF Inserts, Insert, Stamped, Guesses, history, NoCode
<1>3. ASSUME NEW r \in Reqs, Counts(r) PROVE InsertInv'
  BY <1>3 DEF Counts, CountMiss, Answer, Goto, Stamped, Guesses
<1>4. ASSUME NEW r \in Reqs, Spends(r) PROVE InsertInv'
  BY <1>4 DEF Spends, Spend, Answer, Goto, Stamped, Guesses
<1>5. ASSUME NEW r \in Reqs, Numbers(r) PROVE InsertInv'
  <2>1. PICK kind \in Kinds : Supersede(r, kind)
    BY <1>5 DEF Numbers
  <2>2. PICK c \in Ids(kind) : ~Stamped(c) /\ Stamped(c)' /\ ch' = [ch EXCEPT ![r] = c]
    BY <2>1, NextNumber DEF StampShape
  <2>3. \A d \in CodeIds : Stamped(d) => Stamped(d)'
    BY <2>1, NextNumber DEF StampShape
  <2>4. UNCHANGED code /\ \A d : Guesses(d)' = Guesses(d)
    BY <2>1 DEF Supersede, Guesses, history
  <2>5. c \in CodeIds /\ code[c].user = None /\ Guesses(c) = {}
    BY <2>2 DEF Ids, RowInv, FreshInv
  <2>6. ch'[r] = c /\ \A q \in Reqs \ {r} : pc'[q] = pc[q] /\ ch'[q] = ch[q]
    BY <1>5, <2>2 DEF Numbers, Goto
  <2>7. \A q \in Reqs : pc[q] \in Inserting => ch[q] \in CodeIds /\ ch[q] # c
    BY <2>2
  <2>8. QED
    BY <2>2, <2>3, <2>4, <2>5, <2>6, <2>7
<1>6. ASSUME NEW c \in CodeIds, Expire(c) PROVE InsertInv'
  BY <1>6 DEF Expire, Stamped, Guesses, history, locals
<1>7. QED
  BY <1>1, <1>2, <1>3, <1>4, <1>5, <1>6, WritersStep DEF Writes

\* Each step that counts a miss counts it on the row.
LEMMA CountStep ==
    TypeOK /\ HeldInv /\ RowInv /\ InsertInv /\ CountInv /\ Next =>
        CountInv'
<1> SUFFICES ASSUME TypeOK /\ HeldInv /\ RowInv /\ InsertInv /\ CountInv, Next
             PROVE  CountInv'
  OBVIOUS
<1> USE NoneAssumption DEF CountInv
<1>1. CASE Spares
  <2>1. \A d : Guesses(d)' = Guesses(d)
    BY <1>1 DEF Spares, Guesses, history
  <2>2. QED
    BY <1>1, <2>1 DEF Spares
<1>2. ASSUME NEW r \in Reqs, Inserts(r) PROVE CountInv'
  <2>1. \A d : Guesses(d)' = Guesses(d)
    BY <1>2 DEF Inserts, Guesses, history
  <2>2. ch[r] \in CodeIds /\ Guesses(ch[r]) = {}
    BY <1>2 DEF Inserts, InsertInv, HeldInv, Inserting, CodeIds
  <2>3. code'[ch[r]].attempts = 0
    BY <1>2, <2>2 DEF Inserts, Insert
  <2>4. \A c \in CodeIds : c # ch[r] => code'[c] = code[c] \/ code'[c].user = None
    BY <1>2, <2>2 DEF Inserts, Insert, NoCode
  <2>5. IsFiniteSet({}) /\ Cardinality({}) = 0
    BY FS_EmptySet
  <2>6. ASSUME NEW c \in CodeIds, code'[c].user # None, ~code'[c].consumed
        PROVE  IsFiniteSet(Guesses(c)) /\ Cardinality(Guesses(c)) <= code'[c].attempts
    <3>1. CASE c = ch[r]
      <4>1. Guesses(c) = {} /\ code'[c].attempts = 0
        BY <2>2, <2>3, <3>1
      <4>2. IsFiniteSet(Guesses(c)) /\ Cardinality(Guesses(c)) = 0
        BY <2>5, <4>1, Zenon
      <4>3. QED
        BY <4>1, <4>2
    <3>2. CASE c # ch[r]
      BY <2>4, <2>6, <3>2
    <3>3. QED
      BY <3>1, <3>2
  <2>7. QED
    BY <2>1, <2>6
<1>3. ASSUME NEW r \in Reqs, Counts(r) PROVE CountInv'
  <2>0. PICK d \in CodeIds : d = ch[r]
    BY <1>3, Counted
  <2>1. /\ Guesses(d)' = Guesses(d) \cup {r}
        /\ \A c \in CodeIds : c # d => Guesses(c)' = Guesses(c)
    BY <1>3, <2>0, Counted DEF Guesses
  <2>2. IsFiniteSet(Guesses(d)) /\ Cardinality(Guesses(d)) <= code[d].attempts
    BY <1>3, <2>0, Counted
  <2>3. Cardinality(Guesses(d)) \in Nat
    BY <2>2, FS_CardinalityType
  <2>4. /\ IsFiniteSet(Guesses(d) \cup {r})
        /\ \/ Cardinality(Guesses(d) \cup {r}) = Cardinality(Guesses(d))
           \/ Cardinality(Guesses(d) \cup {r}) = Cardinality(Guesses(d)) + 1
    BY <2>2, FS_AddElement
  <2>5. code[d].attempts \in Nat /\ code'[d].attempts = code[d].attempts + 1
    BY <1>3, <2>0, Counted
  <2>6. Cardinality(Guesses(d) \cup {r}) <= code'[d].attempts
    BY <2>2, <2>3, <2>4, <2>5
  <2>7. QED
    BY <1>3, <2>0, <2>1, <2>4, <2>6, Counted
<1>4. ASSUME NEW r \in Reqs, Spends(r) PROVE CountInv'
  <2>1. \A d : Guesses(d)' = Guesses(d)
    BY <1>4 DEF Spends, Guesses
  <2>2. \A c \in CodeIds : code'[c] = code[c] \/ code'[c].consumed
    BY <1>4 DEF Spends, Spend, TypeOK
  <2>3. QED
    BY <2>1, <2>2
<1>5. ASSUME NEW r \in Reqs, Numbers(r) PROVE CountInv'
  <2>1. \A d : Guesses(d)' = Guesses(d)
    BY <1>5 DEF Numbers, Supersede, Guesses, history
  <2>2. QED
    BY <1>5, <2>1 DEF Numbers, Supersede
<1>6. ASSUME NEW c \in CodeIds, Expire(c) PROVE CountInv'
  <2>1. \A d : Guesses(d)' = Guesses(d)
    BY <1>6 DEF Expire, Guesses, history
  <2>2. \A d \in CodeIds : /\ code'[d].user = code[d].user
                           /\ code'[d].consumed = code[d].consumed
                           /\ code'[d].attempts = code[d].attempts
    BY <1>6 DEF Expire, TypeOK, CodeRow
  <2>3. QED
    BY <2>1, <2>2
<1>7. QED
  BY <1>1, <1>2, <1>3, <1>4, <1>5, <1>6, WritersStep DEF Writes

\* Each step leaves a code that took effect spent.
LEMMA RedeemedStep ==
    TypeOK /\ HeldInv /\ RowInv /\ InsertInv /\ RedeemedCodeIsSpent /\ Next =>
        RedeemedCodeIsSpent'
<1> SUFFICES ASSUME TypeOK /\ HeldInv /\ RowInv /\ InsertInv /\ RedeemedCodeIsSpent, Next
             PROVE  RedeemedCodeIsSpent'
  OBVIOUS
<1> USE DEF TypeOK, HeldInv, RedeemedCodeIsSpent, CodeIds
<1>1. CASE Spares
  BY <1>1 DEF Spares, history
<1>2. ASSUME NEW r \in Reqs, Inserts(r) PROVE RedeemedCodeIsSpent'
  BY <1>2 DEF Inserts, Insert, InsertInv, RowInv, history
<1>3. ASSUME NEW r \in Reqs, Counts(r) PROVE RedeemedCodeIsSpent'
  BY <1>3 DEF Counts, CountMiss
<1>4. ASSUME NEW r \in Reqs, Spends(r) PROVE RedeemedCodeIsSpent'
  BY <1>4 DEF Spends, Spend
<1>5. ASSUME NEW r \in Reqs, Numbers(r) PROVE RedeemedCodeIsSpent'
  BY <1>5 DEF Numbers, Supersede, history
<1>6. ASSUME NEW c \in CodeIds, Expire(c) PROVE RedeemedCodeIsSpent'
  BY <1>6 DEF Expire, history
<1>7. QED
  BY <1>1, <1>2, <1>3, <1>4, <1>5, <1>6, WritersStep DEF Writes

\* Each step leaves a spent or burned code that.
LEMMA SpentStep ==
    TypeOK /\ HeldInv /\ RowInv /\ InsertInv /\ Next =>
        \A c \in CodeIds : code[c].consumed => code'[c].consumed
<1> SUFFICES ASSUME TypeOK /\ HeldInv /\ RowInv /\ InsertInv, Next
             PROVE  \A c \in CodeIds : code[c].consumed => code'[c].consumed
  OBVIOUS
<1> USE DEF TypeOK, HeldInv, CodeIds
<1>1. CASE Spares
  BY <1>1 DEF Spares
<1>2. ASSUME NEW r \in Reqs, Inserts(r)
      PROVE  \A c \in CodeIds : code[c].consumed => code'[c].consumed
  BY <1>2 DEF Inserts, Insert, InsertInv, RowInv
<1>3. ASSUME NEW r \in Reqs, Counts(r)
      PROVE  \A c \in CodeIds : code[c].consumed => code'[c].consumed
  BY <1>3 DEF Counts, CountMiss
<1>4. ASSUME NEW r \in Reqs, Spends(r)
      PROVE  \A c \in CodeIds : code[c].consumed => code'[c].consumed
  BY <1>4 DEF Spends, Spend
<1>5. ASSUME NEW r \in Reqs, Numbers(r)
      PROVE  \A c \in CodeIds : code[c].consumed => code'[c].consumed
  BY <1>5 DEF Numbers, Supersede
<1>6. ASSUME NEW c \in CodeIds, Expire(c)
      PROVE  \A d \in CodeIds : code[d].consumed => code'[d].consumed
  BY <1>6 DEF Expire
<1>7. QED
  BY <1>1, <1>2, <1>3, <1>4, <1>5, <1>6, WritersStep DEF Writes

(***************************************************************************)
(* Accounts                                                                *)
(***************************************************************************)

\* Each step leaves an address to one account: an index decides.
LEMMA AddressStep ==
    TypeOK /\ HeldInv /\ RowInv /\ NoTwoAccountsShareAnAddress /\ Next =>
        NoTwoAccountsShareAnAddress'
<1> USE DEF TypeOK, HeldInv, NoTwoAccountsShareAnAddress, AccountRow, Taken
<1>0. SUFFICES ASSUME TypeOK /\ HeldInv /\ RowInv /\ NoTwoAccountsShareAnAddress, Next
               PROVE  NoTwoAccountsShareAnAddress'
  OBVIOUS
<1>1. ASSUME NEW r \in Reqs, \E e \in Emails : BeginPasswordReset(r, e)
      PROVE  NoTwoAccountsShareAnAddress'
  BY <1>0, <1>1 DEF BeginPasswordReset, Answer, Goto, ByEmail, locals, history
<1>2. ASSUME NEW r \in Reqs, \E e \in Emails : CompletePasswordReset(r, e)
      PROVE  NoTwoAccountsShareAnAddress'
  BY <1>0, <1>2 DEF CompletePasswordReset, Answer, Goto, ByEmail, locals, history
<1>3. ASSUME NEW r \in Reqs, ReplacePasswordResetBegin(r)
      PROVE  NoTwoAccountsShareAnAddress'
  BY <1>0, <1>3 DEF ReplacePasswordResetBegin, Goto, Supersede, Outstanding, locals,
     history, Ids
<1>4. ASSUME NEW r \in Reqs, ReplacePasswordResetCommit(r)
      PROVE  NoTwoAccountsShareAnAddress'
  BY <1>0, <1>4 DEF ReplacePasswordResetCommit, Goto, Insert, locals, history
<1>5. ASSUME NEW r \in Reqs, SendPasswordReset(r) PROVE NoTwoAccountsShareAnAddress'
  BY <1>0, <1>5 DEF SendPasswordReset, Answer, Goto, locals, history
<1>6. ASSUME NEW r \in Reqs, \E submitted \in Submitted : ReadPasswordReset(r, submitted)
      PROVE  NoTwoAccountsShareAnAddress'
  BY <1>0, <1>6 DEF ReadPasswordReset, Answer, Goto, Compare, Outstanding, Active, locals,
     history, Ids
<1>7. ASSUME NEW r \in Reqs, FailPasswordReset(r) PROVE NoTwoAccountsShareAnAddress'
  BY <1>0, <1>7 DEF FailPasswordReset, Answer, Goto, CountMiss, NothingToCount
<1>8. ASSUME NEW r \in Reqs, \E p \in Passwords : ConsumePasswordReset(r, p)
      PROVE  NoTwoAccountsShareAnAddress'
  BY <1>0, <1>8 DEF ConsumePasswordReset, Answer, Goto, Spend
<1>9. ASSUME NEW r \in Reqs, \E u \in Users, p \in Passwords, e \in Emails :
             BeginEmailChange(r, u, p, e)
      PROVE  NoTwoAccountsShareAnAddress'
  BY <1>0, <1>9 DEF BeginEmailChange, Answer, Goto, locals, history
<1>10. ASSUME NEW r \in Reqs, ReplaceEmailChangeBegin(r)
      PROVE  NoTwoAccountsShareAnAddress'
  BY <1>0, <1>10 DEF ReplaceEmailChangeBegin, Goto, Supersede, Outstanding, locals,
     history, Ids
<1>11. ASSUME NEW r \in Reqs, ReplaceEmailChangeCommit(r)
      PROVE  NoTwoAccountsShareAnAddress'
  BY <1>0, <1>11 DEF ReplaceEmailChangeCommit, Goto, Insert, locals, history
<1>12. ASSUME NEW r \in Reqs, PendingEmailChange(r) PROVE NoTwoAccountsShareAnAddress'
  BY <1>0, <1>12 DEF PendingEmailChange, Answer, Goto, Outstanding, Active, locals,
     history, Ids
<1>13. ASSUME NEW r \in Reqs, SendEmailChange(r) PROVE NoTwoAccountsShareAnAddress'
  BY <1>0, <1>13 DEF SendEmailChange, Answer, Goto, locals, history
<1>14. ASSUME NEW r \in Reqs, \E u \in Users, submitted \in Submitted :
             ConfirmEmailChange(r, u, submitted)
      PROVE  NoTwoAccountsShareAnAddress'
  BY <1>0, <1>14 DEF ConfirmEmailChange, Answer, Goto, Compare, Outstanding, Active,
     locals, history, Ids
<1>15. ASSUME NEW r \in Reqs, FailEmailChange(r) PROVE NoTwoAccountsShareAnAddress'
  BY <1>0, <1>15 DEF FailEmailChange, Answer, Goto, CountMiss, NothingToCount
<1>16. ASSUME NEW r \in Reqs, ConsumeEmailChange(r) PROVE NoTwoAccountsShareAnAddress'
  <2>1. CASE UNCHANGED account
    BY <1>0, <2>1
  <2>2. ASSUME NEW e, ~Taken(who[r], e), account' = [account EXCEPT ![who[r]].email = e]
        PROVE  NoTwoAccountsShareAnAddress'
    BY <1>0, <2>2
  <2>3. QED
    BY <1>16, <2>1, <2>2 DEF ConsumeEmailChange
<1>17. ASSUME NEW r \in Reqs, Abandon(r) PROVE NoTwoAccountsShareAnAddress'
  BY <1>0, <1>17 DEF Abandon, Answer, Goto, locals, history
<1>18. ASSUME \E u \in Users, p \in Passwords, e \in Emails : Create(u, p, e)
      PROVE  NoTwoAccountsShareAnAddress'
  BY <1>0, <1>18 DEF Create, locals, history
<1>19. ASSUME \E u \in Users : DeleteUser(u) PROVE NoTwoAccountsShareAnAddress'
  BY <1>0, <1>19 DEF DeleteUser, locals, history
<1>20. ASSUME \E c \in CodeIds : Expire(c) PROVE NoTwoAccountsShareAnAddress'
  BY <1>0, <1>20 DEF Expire, locals, history
<1>21. QED
  BY <1>0, <1>1, <1>2, <1>3, <1>4, <1>5, <1>6, <1>7, <1>8, <1>9, <1>10, <1>11, <1>12,
     <1>13, <1>14, <1>15, <1>16, <1>17, <1>18, <1>19, <1>20
     DEF Next, ResetStep, ChangeStep, OthersStep

(***************************************************************************)
(* Induction                                                               *)
(***************************************************************************)

\* The parts are all of TypeOK.
LEMMA Parts ==
    AccountShape /\ CodeShape /\ StampShape /\ HistoryShape /\ LocalShape <=> TypeOK
  BY DEF AccountShape, CodeShape, StampShape, HistoryShape, LocalShape, TypeOK

\* Before the first request the invariant holds.
LEMMA InitIInv == Init => IInv
<1> SUFFICES ASSUME Init PROVE IInv
  OBVIOUS
<1> USE AttemptsAssumption, BoundsAssumption, NoneAssumption
<1>1. TypeOK
  <2>1. AccountShape
    BY DEF Init, AccountShape, AccountRow
  <2>2. CodeShape
    BY NoRow DEF Init, CodeShape
  <2>3. StampShape /\ HistoryShape
    BY DEF Init, StampShape, HistoryShape, Kinds
  <2>4. LocalShape
    BY DEF Init, LocalShape, Pcs
  <2>5. QED
    BY <2>1, <2>2, <2>3, <2>4, Parts
<1>2. HeldInv /\ InsertInv
  BY DEF Init, HeldInv, InsertInv, Inserting
<1>3. \A c \in CodeIds : code[c].user = None /\ ~code[c].consumed /\ code[c].attempts = 0
  BY DEF Init, NoCode
<1>4. RowInv /\ CountInv
  BY <1>3 DEF RowInv, CountInv
<1>5. FreshInv /\ RedeemedCodeIsSpent
  BY DEF Init, FreshInv, Guesses, RedeemedCodeIsSpent
<1>6. QED
  BY <1>1, <1>2, <1>4, <1>5 DEF Init, IInv

\* Every step keeps the invariant.
LEMMA NextIInv == IInv /\ [Next]_vars => IInv'
<1> SUFFICES ASSUME IInv, [Next]_vars PROVE IInv'
  OBVIOUS
<1>1. CASE Next
  <2>1. AccountShape' /\ CodeShape' /\ StampShape' /\ HistoryShape' /\ LocalShape'
    BY <1>1, AccountStep, CodeStep, StampStep, HistoryShapeStep, LocalShapeStep DEF IInv
  <2>2. TypeOK'
    BY <2>1, Parts, PTL
  <2>3. HeldInv' /\ RowInv' /\ FreshInv' /\ InsertInv' /\ CountInv'
    BY <1>1, HeldStep, RowStep, FreshStep, InsertStep, CountStep DEF IInv
  <2>4. RedeemedCodeIsSpent' /\ NoTwoAccountsShareAnAddress'
    BY <1>1, RedeemedStep, AddressStep DEF IInv
  <2>5. QED
    BY <2>2, <2>3, <2>4 DEF IInv
<1>2. CASE UNCHANGED vars
  <2> USE <1>2 DEF vars, locals, history
  <2>1. TypeOK'
    BY DEF IInv, TypeOK
  <2>2. HeldInv'
    BY DEF IInv, HeldInv
  <2>3. RowInv'
    BY DEF IInv, RowInv, Stamped
  <2>4. FreshInv'
    BY DEF IInv, FreshInv, Stamped, Guesses
  <2>5. InsertInv'
    BY DEF IInv, InsertInv, Stamped, Guesses
  <2>6. CountInv'
    BY DEF IInv, CountInv, Guesses
  <2>7. RedeemedCodeIsSpent' /\ NoTwoAccountsShareAnAddress'
    BY DEF IInv, RedeemedCodeIsSpent, NoTwoAccountsShareAnAddress
  <2>8. QED
    BY <2>1, <2>2, <2>3, <2>4, <2>5, <2>6, <2>7 DEF IInv
<1>3. QED
  BY <1>1, <1>2

(***************************************************************************)
(* Theorems                                                                *)
(***************************************************************************)

\* The invariant holds in every state the endpoints of AccountCodes reach.
THEOREM Inductive == Spec => []IInv
  BY InitIInv, NextIInv, PTL DEF Spec

\* Every table holds rows of its shape: attempts never passes the cap.
THEOREM TypeCorrect == Spec => []TypeOK
<1>1. IInv => TypeOK
  BY DEF IInv
<1>2. QED
  BY <1>1, Inductive, PTL

\* A code that is open has been guessed at fewer than MaxAttempts times: FailXxx
\* counts and burns in one UPDATE, so overlapping guesses are all counted.
THEOREM CapHolds == Spec => []OpenCodeIsBelowTheCap
<1>1. IInv => OpenCodeIsBelowTheCap
  <2> SUFFICES ASSUME IInv, NEW c \in CodeIds, code[c].user # None, ~code[c].consumed
               PROVE  Cardinality(Guesses(c)) < MaxAttempts
    BY DEF OpenCodeIsBelowTheCap
  <2>1. IsFiniteSet(Guesses(c)) /\ Cardinality(Guesses(c)) <= code[c].attempts
    BY DEF IInv, CountInv
  <2>2. code[c].attempts < MaxAttempts /\ code[c] \in CodeRow
    BY DEF IInv, RowInv, TypeOK
  <2>3. code[c].attempts \in Nat /\ Cardinality(Guesses(c)) \in Nat
    BY <2>1, <2>2, FS_CardinalityType, AttemptsAssumption DEF CodeRow
  <2>4. QED
    BY <2>1, <2>2, <2>3, AttemptsAssumption
<1>2. QED
  BY <1>1, Inductive, PTL

\* A code that took effect is on record as spent: the account and consumed_at
\* commit together (ConsumePasswordReset, ConsumeEmailChange), and no later
\* request for a code deletes the row.
THEOREM RedeemedIsSpent == Spec => []RedeemedCodeIsSpent
<1>1. IInv => RedeemedCodeIsSpent
  BY DEF IInv
<1>2. QED
  BY <1>1, Inductive, PTL

\* Registration, the email change and deletion leave an address to one account.
THEOREM OneAddress == Spec => []NoTwoAccountsShareAnAddress
<1>1. IInv => NoTwoAccountsShareAnAddress
  BY DEF IInv
<1>2. QED
  BY <1>1, Inductive, PTL

\* A spent or burned code is never open again, whatever the requests that read it
\* before go on to write.
THEOREM SpentForGood == Spec => SpentStaysSpent
<1>1. IInv /\ [Next]_vars
        => [\A c \in CodeIds : code[c].consumed => code'[c].consumed]_vars
  BY SpentStep DEF IInv
<1>2. QED
  BY <1>1, Inductive, PTL DEF Spec, SpentStaysSpent

=============================================================================
