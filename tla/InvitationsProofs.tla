------------------------- MODULE InvitationsProofs -------------------------
(***************************************************************************)
(* Proofs about Invitations, for any number of accounts, addresses, rows,  *)
(* roles, requests and tokens.                                             *)
(*                                                                         *)
(* The argument.  A request that accepts holds its row's lock from the     *)
(* check to the membership, and the row is open all the while: a row       *)
(* leaves "open" only by a membership, which takes the lock with it, or by *)
(* a deletion, which waits for it.  So the row of a membership was open    *)
(* when it was made and is accepted or gone ever after.  An offer loses    *)
(* the roles that are deleted and nothing else, and tokens only grow.      *)
(***************************************************************************)
EXTENDS Invitations, TLAPS

(***************************************************************************)
(* The inductive invariant                                                 *)
(***************************************************************************)

\* Where a request holds the lock of the row it accepts.
Holding == {"check", "roles", "join"}

\* What a request holds exists.
HeldInv ==
    \A r \in Reqs :
        /\ pc[r] \in Holding \cup {"lookup", "lock", "rows", "plain"} =>
              who[r] \in Registered
        /\ pc[r] \in Holding \cup {"lock", "find", "delete"} => target[r] \in Invites

\* A row that is being accepted is locked and open.
LockInv ==
    \A r \in Reqs : pc[r] \in Holding =>
        locked[target[r]] = r /\ invite[target[r]].state = "open"

\* The token of a row has been generated.
TokenInv == \A i \in Invites : Present(i) => invite[i].token \in 1..tokens

\* A row that made a membership is not open any more,
SpentInv ==
    \A i \in Invites, r \in Reqs :
        <<i, r>> \in joined => invite[i].state \in {"accepted", "gone"}

\* ... and one whose end was answered is gone.
EndedInv == \A i \in ended : invite[i].state = "gone"

\* An offer has the roles it was made with, as far as they exist,
OfferInv == \A i \in Invites : Present(i) => offers[i] = promised[i] \cap role

\* ... and so had it when it was read.
WantedInv ==
    \A r \in Reqs : pc[r] = "join" =>
        /\ wanted[r] \subseteq promised[target[r]]
        /\ promised[target[r]] \cap role \subseteq wanted[r]

\* Offers that came after the check have later tokens.
PlainInv ==
    \A r \in Reqs : pc[r] = "plain" =>
        \A i \in OfferedTo(addr[r]) : invite[i].token > since[r]

IInv ==
    /\ TypeOK
    /\ HeldInv /\ LockInv /\ TokenInv /\ SpentInv /\ EndedInv
    /\ OfferInv /\ WantedInv /\ PlainInv
    /\ OneMembershipPerInvitation


\* The parts of TypeOK.
LiveShape ==
    /\ live \in BOOLEAN

AccountShape ==
    /\ address \in [Users -> Emails \cup {None}]
    /\ \A u, v \in Registered : address[u] = address[v] => u = v
    /\ members \subseteq Registered
    /\ fresh \subseteq Registered

HoldShape ==
    /\ holds \in [Users -> SUBSET role]
    /\ \A u \in Users \ members : holds[u] = {}
    /\ role \subseteq Roles

RowShape ==
    /\ invite \in [Invites -> Row]
    /\ offers \in [Invites -> SUBSET role]
    /\ \A i \in Invites : ~Present(i) => offers[i] = {}

UniqueShape ==
    /\ \A i, j \in Invites : i # j /\ Present(i) /\ Present(j)
          => invite[i].email # invite[j].email /\ invite[i].token # invite[j].token

LocalShape ==
    /\ locked \in [Invites -> Reqs \cup {None}]
    /\ pc \in [Reqs -> Pcs]
    /\ who \in [Reqs -> Users \cup {None}]
    /\ addr \in [Reqs -> Emails \cup {None}]
    /\ todo \in [Reqs -> SUBSET Emails]
    /\ wanted \in [Reqs -> SUBSET Roles]
    /\ target \in [Reqs -> Invites \cup {None}]

NumberShape ==
    /\ tokens \in 0..MaxTokens
    /\ mailed \subseteq 1..tokens
    /\ sent \in [Reqs -> SUBSET (1..tokens)]
    /\ since \in [Reqs -> 0..tokens]

HistoryShape ==
    /\ joined \subseteq Invites \X Reqs
    /\ promised \in [Invites -> SUBSET Roles]
    /\ ended \subseteq Invites

(***************************************************************************)
(* Requests                                                                *)
(***************************************************************************)

\* An answered request is as before it came,
LEMMA AnswerShape ==
    ASSUME LocalShape, NEW r \in Reqs, Answer(r)
    PROVE  LocalShape'
  BY DEF LocalShape, Answer, Goto, Set, Pcs

\* ... and so are the numbers it held.
LEMMA AnswerNumbers ==
    ASSUME NumberShape, NEW r \in Reqs, Answer(r),
           UNCHANGED tokens, mailed' \subseteq 1..tokens
    PROVE  NumberShape'
  BY BoundAssumption DEF NumberShape, Answer, Set

\* Each step keeps the requests well-formed.
LEMMA LocalStep == TypeOK /\ HeldInv /\ Next => LocalShape'
<1> USE AnswerShape DEF TypeOK, LocalShape, HeldInv, Pcs, Registered, Holding
<1>0. SUFFICES ASSUME TypeOK /\ HeldInv, Next PROVE LocalShape'
  OBVIOUS
<1>1. ASSUME NEW r \in Reqs, \E emails \in SUBSET Emails, some \in SUBSET Roles :
             InviteMany(r, emails, some)
      PROVE  LocalShape'
  <2> PICK emails \in SUBSET Emails, some \in SUBSET Roles : InviteMany(r, emails, some)
    BY <1>1
  <2>1. CASE Answer(r)
    BY <1>0, <2>1, AnswerShape
  <2>2. CASE ~Answer(r)
    BY <1>0, <2>2, SMTT(30) DEF InviteMany, Refuse, Goto, Set
  <2>3. QED
    BY <2>1, <2>2
<1>2. ASSUME NEW r \in Reqs, \E e \in Emails : InviteCount(r, e) PROVE LocalShape'
  <2> PICK e \in Emails : InviteCount(r, e)
    BY <1>2
  <2>1. CASE Answer(r)
    BY <1>0, <2>1, AnswerShape
  <2>2. CASE ~Answer(r)
    BY <1>0, <2>2, SMTT(30) DEF InviteCount, Refuse, Goto, Set, NextAddress
  <2>3. QED
    BY <2>1, <2>2
<1>3. ASSUME NEW r \in Reqs, \E i \in Invites : InviteInsert(r, i) PROVE LocalShape'
  <2> PICK i \in Invites : InviteInsert(r, i)
    BY <1>3
  <2>1. CASE Answer(r)
    BY <1>0, <2>1, AnswerShape
  <2>2. CASE NextAddress(r, addr[r]) /\ UNCHANGED <<locked, who, wanted, target>>
    BY <1>0, <2>2 DEF NextAddress, Goto, Set
  <2>3. QED
    BY <2>1, <2>2 DEF InviteInsert, Refuse
<1>4. ASSUME NEW r \in Reqs, \E some \in SUBSET sent[r] : Mail(r, some)
      PROVE  LocalShape'
  BY <1>0, <1>4 DEF Mail, tables, locals, history
<1>5. ASSUME NEW r \in Reqs, \E i \in Invites : Reissue(r, i) PROVE LocalShape'
  BY <1>0, <1>5, SMTT(30) DEF Reissue, Refuse, Goto, Set, tables, locals, history
<1>6. ASSUME NEW r \in Reqs, \E u \in Users : ReadAddress(r, u) PROVE LocalShape'
  BY <1>0, <1>6 DEF ReadAddress, Goto, Set, tables, locals, history
<1>7. ASSUME NEW r \in Reqs, \E t \in mailed : AcceptLookup(r, t) PROVE LocalShape'
  <2> PICK t \in mailed : AcceptLookup(r, t)
    BY <1>7
  <2>1. CASE Answer(r)
    BY <1>0, <2>1, AnswerShape
  <2>2. CASE ~Answer(r)
    BY <1>0, <2>2 DEF AcceptLookup, Refuse, Goto, Set, Pending
  <2>3. QED
    BY <2>1, <2>2
<1>8. ASSUME NEW r \in Reqs, AcceptLock(r) PROVE LocalShape'
  BY <1>0, <1>8 DEF AcceptLock, Refuse, Goto, tables, locals, history
<1>9. ASSUME NEW r \in Reqs, AcceptCheck(r) PROVE LocalShape'
  BY <1>0, <1>9 DEF AcceptCheck, Refuse, Goto, tables, locals, history
<1>10. ASSUME NEW r \in Reqs, AcceptRoles(r) PROVE LocalShape'
  BY <1>0, <1>10 DEF AcceptRoles, Goto, Set, tables, locals, history
<1>11. ASSUME NEW r \in Reqs, Join(r) PROVE LocalShape'
  BY <1>0, <1>11 DEF Join, Refuse, Set, tables, locals, history
<1>12. ASSUME NEW r \in Reqs, \E t \in mailed : Decline(r, t) PROVE LocalShape'
  BY <1>0, <1>12 DEF Decline, Refuse, Goto, Set, Pending, tables, locals, history
<1>13. ASSUME NEW r \in Reqs, FindDeclined(r) PROVE LocalShape'
  BY <1>0, <1>13 DEF FindDeclined, Refuse, Goto, Set, Find, tables, locals, history
<1>14. ASSUME NEW r \in Reqs, \E i \in Invites : Withdraw(r, i) PROVE LocalShape'
  BY <1>0, <1>14, SMTT(30) DEF Withdraw, Refuse, Goto, Set, Find, tables, locals, history
<1>15. ASSUME NEW r \in Reqs, Delete(r) PROVE LocalShape'
  BY <1>0, <1>15 DEF Delete, Refuse, Set, tables, locals, history
<1>16. ASSUME NEW r \in Reqs, \E u \in Users, e \in Emails : Register(r, u, e)
      PROVE  LocalShape'
  <2> PICK u \in Users, e \in Emails : Register(r, u, e)
    BY <1>16
  <2>1. CASE Answer(r)
    BY <1>0, <2>1, AnswerShape
  <2>2. CASE /\ who' = Set(who, r, u) /\ addr' = Set(addr, r, e) /\ Goto(r, "rows")
             /\ UNCHANGED <<locked, todo, wanted, target>>
    BY <1>0, <2>2 DEF Goto, Set
  <2>3. QED
    BY <2>1, <2>2 DEF Register
<1>17. ASSUME NEW r \in Reqs, CheckRows(r) PROVE LocalShape'
  BY <1>0, <1>17 DEF CheckRows, Refuse, Goto, OfferedTo, LookedAfter, tables, locals,
     history
<1>18. ASSUME NEW r \in Reqs, JoinPlain(r) PROVE LocalShape'
  BY <1>0, <1>18 DEF JoinPlain, LookedAfter
<1>19. ASSUME NEW r \in Reqs, Abandon(r) PROVE LocalShape'
  BY <1>0, <1>19 DEF Abandon, Refuse, tables, locals, history
<1>20. ASSUME \E i \in Invites : Expire(i) PROVE LocalShape'
  BY <1>0, <1>20 DEF Expire, tables, locals, history
<1>21. ASSUME \E q \in Roles : DeleteRole(q) PROVE LocalShape'
  BY <1>0, <1>21 DEF DeleteRole, tables, locals, history
<1>22. ASSUME DeleteOrganization PROVE LocalShape'
  BY <1>0, <1>22 DEF DeleteOrganization, tables, locals, history
<1>23. ASSUME \E u \in Users : RemoveMember(u) PROVE LocalShape'
  BY <1>0, <1>23 DEF RemoveMember, Set, tables, locals, history
<1>24. ASSUME \E u \in Users, e \in Emails : ChangeEmail(u, e) PROVE LocalShape'
  BY <1>0, <1>24 DEF ChangeEmail, Set, tables, locals, history
<1>25. QED
  BY <1>0, <1>1, <1>2, <1>3, <1>4, <1>5, <1>6, <1>7, <1>8, <1>9, <1>10, <1>11, <1>12,
     <1>13, <1>14, <1>15, <1>16, <1>17, <1>18, <1>19, <1>20, <1>21, <1>22, <1>23, <1>24
     DEF Next, InviteStep, AcceptStep, EndStep, RegisterStep, OthersStep

\* Each step leaves requests with what exists.
LEMMA HeldStep == TypeOK /\ HeldInv /\ Next => HeldInv'
<1> USE NoneAssumption DEF TypeOK, HeldInv, Holding, Registered
<1>0. SUFFICES ASSUME TypeOK /\ HeldInv, Next PROVE HeldInv'
  OBVIOUS
<1>1. ASSUME NEW r \in Reqs, \E emails \in SUBSET Emails, some \in SUBSET Roles :
             InviteMany(r, emails, some)
      PROVE  HeldInv'
  BY <1>0, <1>1 DEF InviteMany, Answer, Refuse, Goto, Set, tables, locals, history
<1>2. ASSUME NEW r \in Reqs, \E e \in Emails : InviteCount(r, e) PROVE HeldInv'
  BY <1>0, <1>2 DEF InviteCount, Answer, Refuse, Goto, Set, NextAddress, tables, locals,
     history
<1>3. ASSUME NEW r \in Reqs, \E i \in Invites : InviteInsert(r, i) PROVE HeldInv'
  BY <1>0, <1>3 DEF InviteInsert, Answer, Refuse, Goto, Set, NextAddress, HasRow, tables,
     locals, history
<1>4. ASSUME NEW r \in Reqs, \E some \in SUBSET sent[r] : Mail(r, some) PROVE HeldInv'
  BY <1>0, <1>4 DEF Mail, Answer, Goto, Set, tables, locals, history
<1>5. ASSUME NEW r \in Reqs, \E i \in Invites : Reissue(r, i) PROVE HeldInv'
  BY <1>0, <1>5 DEF Reissue, Answer, Refuse, Goto, Set, tables, locals, history
<1>6. ASSUME NEW r \in Reqs, \E u \in Users : ReadAddress(r, u) PROVE HeldInv'
  BY <1>0, <1>6 DEF ReadAddress, Goto, Set, tables, locals, history
<1>7. ASSUME NEW r \in Reqs, \E t \in mailed : AcceptLookup(r, t) PROVE HeldInv'
  BY <1>0, <1>7 DEF AcceptLookup, Answer, Refuse, Goto, Set, Pending, tables, locals,
     history
<1>8. ASSUME NEW r \in Reqs, AcceptLock(r) PROVE HeldInv'
  BY <1>0, <1>8 DEF AcceptLock, Answer, Refuse, Goto, Set, tables, locals, history
<1>9. ASSUME NEW r \in Reqs, AcceptCheck(r) PROVE HeldInv'
  BY <1>0, <1>9 DEF AcceptCheck, Answer, Refuse, Goto, Set, tables, locals, history
<1>10. ASSUME NEW r \in Reqs, AcceptRoles(r) PROVE HeldInv'
  BY <1>0, <1>10 DEF AcceptRoles, Goto, Set, tables, locals, history
<1>11. ASSUME NEW r \in Reqs, Join(r) PROVE HeldInv'
  BY <1>0, <1>11, SMTT(30) DEF Join, Answer, Refuse, Goto, Set, tables, locals, history
<1>12. ASSUME NEW r \in Reqs, \E t \in mailed : Decline(r, t) PROVE HeldInv'
  BY <1>0, <1>12 DEF Decline, Answer, Refuse, Goto, Set, Pending, tables, locals, history
<1>13. ASSUME NEW r \in Reqs, FindDeclined(r) PROVE HeldInv'
  BY <1>0, <1>13 DEF FindDeclined, Answer, Refuse, Goto, Set, Find, tables, locals,
     history
<1>14. ASSUME NEW r \in Reqs, \E i \in Invites : Withdraw(r, i) PROVE HeldInv'
  BY <1>0, <1>14 DEF Withdraw, Answer, Refuse, Goto, Set, Find, tables, locals, history
<1>15. ASSUME NEW r \in Reqs, Delete(r) PROVE HeldInv'
  BY <1>0, <1>15 DEF Delete, Answer, Refuse, Goto, Set, tables, locals, history
<1>16. ASSUME NEW r \in Reqs, \E u \in Users, e \in Emails : Register(r, u, e)
      PROVE  HeldInv'
  BY <1>0, <1>16 DEF Register, Answer, Goto, Set, tables, locals, history
<1>17. ASSUME NEW r \in Reqs, CheckRows(r) PROVE HeldInv'
  BY <1>0, <1>17 DEF CheckRows, Refuse, Answer, Goto, Set, OfferedTo, LookedAfter,
     tables, locals, history
<1>18. ASSUME NEW r \in Reqs, JoinPlain(r) PROVE HeldInv'
  BY <1>0, <1>18 DEF JoinPlain, Answer, Goto, Set, LookedAfter
<1>19. ASSUME NEW r \in Reqs, Abandon(r) PROVE HeldInv'
  BY <1>0, <1>19 DEF Abandon, Answer, Refuse, Goto, Set, tables, locals, history
<1>20. ASSUME \E i \in Invites : Expire(i) PROVE HeldInv'
  BY <1>0, <1>20 DEF Expire, tables, locals, history
<1>21. ASSUME \E q \in Roles : DeleteRole(q) PROVE HeldInv'
  BY <1>0, <1>21 DEF DeleteRole, tables, locals, history
<1>22. ASSUME DeleteOrganization PROVE HeldInv'
  BY <1>0, <1>22 DEF DeleteOrganization, tables, locals, history
<1>23. ASSUME \E u \in Users : RemoveMember(u) PROVE HeldInv'
  BY <1>0, <1>23 DEF RemoveMember, Set, tables, locals, history
<1>24. ASSUME \E u \in Users, e \in Emails : ChangeEmail(u, e) PROVE HeldInv'
  BY <1>0, <1>24 DEF ChangeEmail, Set, tables, locals, history
<1>25. QED
  BY <1>0, <1>1, <1>2, <1>3, <1>4, <1>5, <1>6, <1>7, <1>8, <1>9, <1>10, <1>11, <1>12,
     <1>13, <1>14, <1>15, <1>16, <1>17, <1>18, <1>19, <1>20, <1>21, <1>22, <1>23, <1>24
     DEF Next, InviteStep, AcceptStep, EndStep, RegisterStep, OthersStep

\* No step brings a deleted organization back.
LEMMA LiveStep == Next => live' = live \/ live' = FALSE
<1> USE DEF tables
<1>0. SUFFICES ASSUME Next PROVE live' = live \/ live' = FALSE
  OBVIOUS
<1>1. ASSUME NEW r \in Reqs, \E emails \in SUBSET Emails, some \in SUBSET Roles :
             InviteMany(r, emails, some)
      PROVE  live' = live \/ live' = FALSE
  BY <1>0, <1>1 DEF InviteMany, Refuse, locals, history
<1>2. ASSUME NEW r \in Reqs, \E e \in Emails : InviteCount(r, e)
      PROVE  live' = live \/ live' = FALSE
  BY <1>0, <1>2 DEF InviteCount, Refuse, locals, history
<1>3. ASSUME NEW r \in Reqs, \E i \in Invites : InviteInsert(r, i)
      PROVE  live' = live \/ live' = FALSE
  BY <1>0, <1>3 DEF InviteInsert, Refuse, locals, history
<1>4. ASSUME NEW r \in Reqs, \E some \in SUBSET sent[r] : Mail(r, some)
      PROVE  live' = live \/ live' = FALSE
  BY <1>0, <1>4 DEF Mail, locals, history
<1>5. ASSUME NEW r \in Reqs, \E i \in Invites : Reissue(r, i)
      PROVE  live' = live \/ live' = FALSE
  BY <1>0, <1>5 DEF Reissue, Refuse, locals, history
<1>6. ASSUME NEW r \in Reqs, \E u \in Users : ReadAddress(r, u)
      PROVE  live' = live \/ live' = FALSE
  BY <1>0, <1>6 DEF ReadAddress, locals, history
<1>7. ASSUME NEW r \in Reqs, \E t \in mailed : AcceptLookup(r, t)
      PROVE  live' = live \/ live' = FALSE
  BY <1>0, <1>7 DEF AcceptLookup, Refuse, locals, history
<1>8. ASSUME NEW r \in Reqs, AcceptLock(r) PROVE live' = live \/ live' = FALSE
  BY <1>0, <1>8 DEF AcceptLock, Refuse, locals, history
<1>9. ASSUME NEW r \in Reqs, AcceptCheck(r) PROVE live' = live \/ live' = FALSE
  BY <1>0, <1>9 DEF AcceptCheck, Refuse, locals, history
<1>10. ASSUME NEW r \in Reqs, AcceptRoles(r) PROVE live' = live \/ live' = FALSE
  BY <1>0, <1>10 DEF AcceptRoles, locals, history
<1>11. ASSUME NEW r \in Reqs, Join(r) PROVE live' = live \/ live' = FALSE
  BY <1>0, <1>11 DEF Join, Refuse, locals, history
<1>12. ASSUME NEW r \in Reqs, \E t \in mailed : Decline(r, t)
      PROVE  live' = live \/ live' = FALSE
  BY <1>0, <1>12 DEF Decline, Refuse, locals, history
<1>13. ASSUME NEW r \in Reqs, FindDeclined(r) PROVE live' = live \/ live' = FALSE
  BY <1>0, <1>13 DEF FindDeclined, Refuse, Find, locals, history
<1>14. ASSUME NEW r \in Reqs, \E i \in Invites : Withdraw(r, i)
      PROVE  live' = live \/ live' = FALSE
  BY <1>0, <1>14 DEF Withdraw, Refuse, Find, locals, history
<1>15. ASSUME NEW r \in Reqs, Delete(r) PROVE live' = live \/ live' = FALSE
  BY <1>0, <1>15 DEF Delete, Refuse, locals, history
<1>16. ASSUME NEW r \in Reqs, \E u \in Users, e \in Emails : Register(r, u, e)
      PROVE  live' = live \/ live' = FALSE
  BY <1>0, <1>16 DEF Register, locals, history
<1>17. ASSUME NEW r \in Reqs, CheckRows(r) PROVE live' = live \/ live' = FALSE
  BY <1>0, <1>17 DEF CheckRows, Refuse, LookedAfter, locals, history
<1>18. ASSUME NEW r \in Reqs, JoinPlain(r) PROVE live' = live \/ live' = FALSE
  BY <1>0, <1>18 DEF JoinPlain, LookedAfter
<1>19. ASSUME NEW r \in Reqs, Abandon(r) PROVE live' = live \/ live' = FALSE
  BY <1>0, <1>19 DEF Abandon, Refuse, locals, history
<1>20. ASSUME \E i \in Invites : Expire(i) PROVE live' = live \/ live' = FALSE
  BY <1>0, <1>20 DEF Expire, locals, history
<1>21. ASSUME \E q \in Roles : DeleteRole(q) PROVE live' = live \/ live' = FALSE
  BY <1>0, <1>21 DEF DeleteRole, locals, history
<1>22. ASSUME DeleteOrganization PROVE live' = live \/ live' = FALSE
  BY <1>0, <1>22 DEF DeleteOrganization, locals, history
<1>23. ASSUME \E u \in Users : RemoveMember(u) PROVE live' = live \/ live' = FALSE
  BY <1>0, <1>23 DEF RemoveMember, locals, history
<1>24. ASSUME \E u \in Users, e \in Emails : ChangeEmail(u, e)
      PROVE  live' = live \/ live' = FALSE
  BY <1>0, <1>24 DEF ChangeEmail, locals, history
<1>25. QED
  BY <1>0, <1>1, <1>2, <1>3, <1>4, <1>5, <1>6, <1>7, <1>8, <1>9, <1>10, <1>11, <1>12,
     <1>13, <1>14, <1>15, <1>16, <1>17, <1>18, <1>19, <1>20, <1>21, <1>22, <1>23, <1>24
     DEF Next, InviteStep, AcceptStep, EndStep, RegisterStep, OthersStep

\* Each step keeps the accounts and members well-formed.
LEMMA AccountStep == TypeOK /\ HeldInv /\ Next => AccountShape'
<1> USE NoneAssumption DEF TypeOK, AccountShape, HeldInv, Holding, Registered
<1>0. SUFFICES ASSUME TypeOK /\ HeldInv, Next PROVE AccountShape'
  OBVIOUS
<1>1. ASSUME NEW r \in Reqs, \E emails \in SUBSET Emails, some \in SUBSET Roles :
             InviteMany(r, emails, some)
      PROVE  AccountShape'
  BY <1>0, <1>1 DEF InviteMany, Answer, Refuse, Goto, Set, tables, locals, history
<1>2. ASSUME NEW r \in Reqs, \E e \in Emails : InviteCount(r, e) PROVE AccountShape'
  BY <1>0, <1>2 DEF InviteCount, Answer, Refuse, Goto, Set, NextAddress, tables, locals,
     history
<1>3. ASSUME NEW r \in Reqs, \E i \in Invites : InviteInsert(r, i) PROVE AccountShape'
  BY <1>0, <1>3 DEF InviteInsert, Answer, Refuse, Goto, Set, NextAddress, HasRow, tables,
     locals, history
<1>4. ASSUME NEW r \in Reqs, \E some \in SUBSET sent[r] : Mail(r, some)
      PROVE  AccountShape'
  BY <1>0, <1>4 DEF Mail, Answer, Goto, Set, tables, locals, history
<1>5. ASSUME NEW r \in Reqs, \E i \in Invites : Reissue(r, i) PROVE AccountShape'
  BY <1>0, <1>5 DEF Reissue, Answer, Refuse, Goto, Set, tables, locals, history
<1>6. ASSUME NEW r \in Reqs, \E u \in Users : ReadAddress(r, u) PROVE AccountShape'
  BY <1>0, <1>6 DEF ReadAddress, Goto, Set, tables, locals, history
<1>7. ASSUME NEW r \in Reqs, \E t \in mailed : AcceptLookup(r, t) PROVE AccountShape'
  BY <1>0, <1>7 DEF AcceptLookup, Answer, Refuse, Goto, Set, Pending, tables, locals,
     history
<1>8. ASSUME NEW r \in Reqs, AcceptLock(r) PROVE AccountShape'
  BY <1>0, <1>8 DEF AcceptLock, Answer, Refuse, Goto, Set, tables, locals, history
<1>9. ASSUME NEW r \in Reqs, AcceptCheck(r) PROVE AccountShape'
  BY <1>0, <1>9 DEF AcceptCheck, Answer, Refuse, Goto, Set, tables, locals, history
<1>10. ASSUME NEW r \in Reqs, AcceptRoles(r) PROVE AccountShape'
  BY <1>0, <1>10 DEF AcceptRoles, Goto, Set, tables, locals, history
<1>11. ASSUME NEW r \in Reqs, Join(r) PROVE AccountShape'
  BY <1>0, <1>11 DEF Join, Answer, Refuse, Goto, Set, tables, locals, history
<1>12. ASSUME NEW r \in Reqs, \E t \in mailed : Decline(r, t) PROVE AccountShape'
  BY <1>0, <1>12 DEF Decline, Answer, Refuse, Goto, Set, Pending, tables, locals, history
<1>13. ASSUME NEW r \in Reqs, FindDeclined(r) PROVE AccountShape'
  BY <1>0, <1>13 DEF FindDeclined, Answer, Refuse, Goto, Set, Find, tables, locals,
     history
<1>14. ASSUME NEW r \in Reqs, \E i \in Invites : Withdraw(r, i) PROVE AccountShape'
  BY <1>0, <1>14 DEF Withdraw, Answer, Refuse, Goto, Set, Find, tables, locals, history
<1>15. ASSUME NEW r \in Reqs, Delete(r) PROVE AccountShape'
  BY <1>0, <1>15 DEF Delete, Answer, Refuse, Goto, Set, tables, locals, history
<1>16. ASSUME NEW r \in Reqs, \E u \in Users, e \in Emails : Register(r, u, e)
      PROVE  AccountShape'
  BY <1>0, <1>16 DEF Register, Answer, Goto, Set, tables, locals, history
<1>17. ASSUME NEW r \in Reqs, CheckRows(r) PROVE AccountShape'
  BY <1>0, <1>17 DEF CheckRows, Refuse, Answer, Goto, Set, OfferedTo, LookedAfter,
     tables, locals, history
<1>18. ASSUME NEW r \in Reqs, JoinPlain(r) PROVE AccountShape'
  BY <1>0, <1>18 DEF JoinPlain, Answer, Goto, Set, LookedAfter
<1>19. ASSUME NEW r \in Reqs, Abandon(r) PROVE AccountShape'
  BY <1>0, <1>19 DEF Abandon, Answer, Refuse, Goto, Set, tables, locals, history
<1>20. ASSUME \E i \in Invites : Expire(i) PROVE AccountShape'
  BY <1>0, <1>20 DEF Expire, tables, locals, history
<1>21. ASSUME \E q \in Roles : DeleteRole(q) PROVE AccountShape'
  BY <1>0, <1>21 DEF DeleteRole, tables, locals, history
<1>22. ASSUME DeleteOrganization PROVE AccountShape'
  BY <1>0, <1>22 DEF DeleteOrganization, tables, locals, history
<1>23. ASSUME \E u \in Users : RemoveMember(u) PROVE AccountShape'
  BY <1>0, <1>23 DEF RemoveMember, Set, tables, locals, history
<1>24. ASSUME \E u \in Users, e \in Emails : ChangeEmail(u, e) PROVE AccountShape'
  BY <1>0, <1>24 DEF ChangeEmail, Set, tables, locals, history
<1>25. QED
  BY <1>0, <1>1, <1>2, <1>3, <1>4, <1>5, <1>6, <1>7, <1>8, <1>9, <1>10, <1>11, <1>12,
     <1>13, <1>14, <1>15, <1>16, <1>17, <1>18, <1>19, <1>20, <1>21, <1>22, <1>23, <1>24
     DEF Next, InviteStep, AcceptStep, EndStep, RegisterStep, OthersStep

\* Each step leaves roles to members, and roles that exist.
LEMMA HoldStep == TypeOK /\ HeldInv /\ Next => HoldShape'
<1> USE NoneAssumption DEF TypeOK, HoldShape, HeldInv, Holding, Registered
<1>0. SUFFICES ASSUME TypeOK /\ HeldInv, Next PROVE HoldShape'
  OBVIOUS
<1>1. ASSUME NEW r \in Reqs, \E emails \in SUBSET Emails, some \in SUBSET Roles :
             InviteMany(r, emails, some)
      PROVE  HoldShape'
  BY <1>0, <1>1 DEF InviteMany, Answer, Refuse, Goto, Set, tables, locals, history
<1>2. ASSUME NEW r \in Reqs, \E e \in Emails : InviteCount(r, e) PROVE HoldShape'
  BY <1>0, <1>2 DEF InviteCount, Answer, Refuse, Goto, Set, NextAddress, tables, locals,
     history
<1>3. ASSUME NEW r \in Reqs, \E i \in Invites : InviteInsert(r, i) PROVE HoldShape'
  BY <1>0, <1>3 DEF InviteInsert, Answer, Refuse, Goto, Set, NextAddress, HasRow, tables,
     locals, history
<1>4. ASSUME NEW r \in Reqs, \E some \in SUBSET sent[r] : Mail(r, some)
      PROVE  HoldShape'
  BY <1>0, <1>4 DEF Mail, Answer, Goto, Set, tables, locals, history
<1>5. ASSUME NEW r \in Reqs, \E i \in Invites : Reissue(r, i) PROVE HoldShape'
  BY <1>0, <1>5 DEF Reissue, Answer, Refuse, Goto, Set, tables, locals, history
<1>6. ASSUME NEW r \in Reqs, \E u \in Users : ReadAddress(r, u) PROVE HoldShape'
  BY <1>0, <1>6 DEF ReadAddress, Goto, Set, tables, locals, history
<1>7. ASSUME NEW r \in Reqs, \E t \in mailed : AcceptLookup(r, t) PROVE HoldShape'
  BY <1>0, <1>7 DEF AcceptLookup, Answer, Refuse, Goto, Set, Pending, tables, locals,
     history
<1>8. ASSUME NEW r \in Reqs, AcceptLock(r) PROVE HoldShape'
  BY <1>0, <1>8 DEF AcceptLock, Answer, Refuse, Goto, Set, tables, locals, history
<1>9. ASSUME NEW r \in Reqs, AcceptCheck(r) PROVE HoldShape'
  BY <1>0, <1>9 DEF AcceptCheck, Answer, Refuse, Goto, Set, tables, locals, history
<1>10. ASSUME NEW r \in Reqs, AcceptRoles(r) PROVE HoldShape'
  BY <1>0, <1>10 DEF AcceptRoles, Goto, Set, tables, locals, history
<1>11. ASSUME NEW r \in Reqs, Join(r) PROVE HoldShape'
  BY <1>0, <1>11 DEF Join, Answer, Refuse, Goto, Set, tables, locals, history
<1>12. ASSUME NEW r \in Reqs, \E t \in mailed : Decline(r, t) PROVE HoldShape'
  BY <1>0, <1>12 DEF Decline, Answer, Refuse, Goto, Set, Pending, tables, locals, history
<1>13. ASSUME NEW r \in Reqs, FindDeclined(r) PROVE HoldShape'
  BY <1>0, <1>13 DEF FindDeclined, Answer, Refuse, Goto, Set, Find, tables, locals,
     history
<1>14. ASSUME NEW r \in Reqs, \E i \in Invites : Withdraw(r, i) PROVE HoldShape'
  BY <1>0, <1>14 DEF Withdraw, Answer, Refuse, Goto, Set, Find, tables, locals, history
<1>15. ASSUME NEW r \in Reqs, Delete(r) PROVE HoldShape'
  BY <1>0, <1>15 DEF Delete, Answer, Refuse, Goto, Set, tables, locals, history
<1>16. ASSUME NEW r \in Reqs, \E u \in Users, e \in Emails : Register(r, u, e)
      PROVE  HoldShape'
  BY <1>0, <1>16 DEF Register, Answer, Goto, Set, tables, locals, history
<1>17. ASSUME NEW r \in Reqs, CheckRows(r) PROVE HoldShape'
  BY <1>0, <1>17 DEF CheckRows, Refuse, Answer, Goto, Set, OfferedTo, LookedAfter,
     tables, locals, history
<1>18. ASSUME NEW r \in Reqs, JoinPlain(r) PROVE HoldShape'
  BY <1>0, <1>18 DEF JoinPlain, Answer, Goto, Set, LookedAfter
<1>19. ASSUME NEW r \in Reqs, Abandon(r) PROVE HoldShape'
  BY <1>0, <1>19 DEF Abandon, Answer, Refuse, Goto, Set, tables, locals, history
<1>20. ASSUME \E i \in Invites : Expire(i) PROVE HoldShape'
  BY <1>0, <1>20 DEF Expire, tables, locals, history
<1>21. ASSUME \E q \in Roles : DeleteRole(q) PROVE HoldShape'
  BY <1>0, <1>21 DEF DeleteRole, tables, locals, history
<1>22. ASSUME DeleteOrganization PROVE HoldShape'
  BY <1>0, <1>22 DEF DeleteOrganization, tables, locals, history
<1>23. ASSUME \E u \in Users : RemoveMember(u) PROVE HoldShape'
  BY <1>0, <1>23 DEF RemoveMember, Set, tables, locals, history
<1>24. ASSUME \E u \in Users, e \in Emails : ChangeEmail(u, e) PROVE HoldShape'
  BY <1>0, <1>24 DEF ChangeEmail, Set, tables, locals, history
<1>25. QED
  BY <1>0, <1>1, <1>2, <1>3, <1>4, <1>5, <1>6, <1>7, <1>8, <1>9, <1>10, <1>11, <1>12,
     <1>13, <1>14, <1>15, <1>16, <1>17, <1>18, <1>19, <1>20, <1>21, <1>22, <1>23, <1>24
     DEF Next, InviteStep, AcceptStep, EndStep, RegisterStep, OthersStep

\* Each step gives out tokens one at a time.
LEMMA NumberStep == TypeOK /\ Next => NumberShape'
<1> USE BoundAssumption, AnswerNumbers DEF TypeOK, NumberShape
<1>0. SUFFICES ASSUME TypeOK, Next PROVE NumberShape'
  OBVIOUS
<1>1. ASSUME NEW r \in Reqs, \E emails \in SUBSET Emails, some \in SUBSET Roles :
             InviteMany(r, emails, some)
      PROVE  NumberShape'
  BY <1>0, <1>1 DEF InviteMany, Refuse, Goto, Set, tables, locals, history
<1>2. ASSUME NEW r \in Reqs, \E e \in Emails : InviteCount(r, e) PROVE NumberShape'
  BY <1>0, <1>2 DEF InviteCount, Refuse, Goto, Set, NextAddress, tables, locals, history
<1>3. ASSUME NEW r \in Reqs, \E i \in Invites : InviteInsert(r, i) PROVE NumberShape'
  <2> PICK i \in Invites : InviteInsert(r, i)
    BY <1>3
  <2>1. CASE Answer(r) /\ UNCHANGED <<tokens, mailed>>
    BY <1>0, <2>1
  <2>2. CASE UNCHANGED <<tokens, mailed, sent, since>>
    BY <1>0, <2>2
  <2>3. CASE /\ tokens < MaxTokens /\ tokens' = tokens + 1
             /\ sent' = Set(sent, r, sent[r] \cup {tokens'})
             /\ UNCHANGED <<mailed, since>>
    BY <1>0, <2>3 DEF Set
  <2>4. QED
    BY <2>1, <2>2, <2>3 DEF InviteInsert, Refuse, tables
<1>4. ASSUME NEW r \in Reqs, \E some \in SUBSET sent[r] : Mail(r, some)
      PROVE  NumberShape'
  <2>1. mailed' \subseteq 1..tokens /\ UNCHANGED tokens /\ Answer(r)
    BY <1>0, <1>4 DEF Mail
  <2>2. QED
    BY <1>0, <2>1
<1>5. ASSUME NEW r \in Reqs, \E i \in Invites : Reissue(r, i) PROVE NumberShape'
  BY <1>0, <1>5 DEF Reissue, Refuse, Goto, Set, tables, locals, history
<1>6. ASSUME NEW r \in Reqs, \E u \in Users : ReadAddress(r, u) PROVE NumberShape'
  BY <1>0, <1>6 DEF ReadAddress, Goto, Set, tables, locals, history
<1>7. ASSUME NEW r \in Reqs, \E t \in mailed : AcceptLookup(r, t) PROVE NumberShape'
  BY <1>0, <1>7 DEF AcceptLookup, Refuse, Goto, Set, tables, locals, history
<1>8. ASSUME NEW r \in Reqs, AcceptLock(r) PROVE NumberShape'
  BY <1>0, <1>8 DEF AcceptLock, Refuse, Goto, tables, locals, history
<1>9. ASSUME NEW r \in Reqs, AcceptCheck(r) PROVE NumberShape'
  BY <1>0, <1>9 DEF AcceptCheck, Refuse, Goto, tables, locals, history
<1>10. ASSUME NEW r \in Reqs, AcceptRoles(r) PROVE NumberShape'
  BY <1>0, <1>10 DEF AcceptRoles, Goto, Set, tables, locals, history
<1>11. ASSUME NEW r \in Reqs, Join(r) PROVE NumberShape'
  BY <1>0, <1>11 DEF Join, Refuse, Set, tables, locals, history
<1>12. ASSUME NEW r \in Reqs, \E t \in mailed : Decline(r, t) PROVE NumberShape'
  BY <1>0, <1>12 DEF Decline, Refuse, Goto, Set, tables, locals, history
<1>13. ASSUME NEW r \in Reqs, FindDeclined(r) PROVE NumberShape'
  BY <1>0, <1>13 DEF FindDeclined, Refuse, Goto, Set, Find, tables, locals, history
<1>14. ASSUME NEW r \in Reqs, \E i \in Invites : Withdraw(r, i) PROVE NumberShape'
  BY <1>0, <1>14 DEF Withdraw, Refuse, Goto, Set, Find, tables, locals, history
<1>15. ASSUME NEW r \in Reqs, Delete(r) PROVE NumberShape'
  BY <1>0, <1>15 DEF Delete, Refuse, Set, tables, locals, history
<1>16. ASSUME NEW r \in Reqs, \E u \in Users, e \in Emails : Register(r, u, e)
      PROVE  NumberShape'
  <2>1. CASE Answer(r) /\ UNCHANGED tables
    BY <1>0, <2>1 DEF tables
  <2>2. CASE since' = Set(since, r, tokens) /\ UNCHANGED <<tokens, mailed, sent>>
    BY <1>0, <2>2 DEF Set
  <2>3. QED
    BY <1>16, <2>1, <2>2 DEF Register
<1>17. ASSUME NEW r \in Reqs, CheckRows(r) PROVE NumberShape'
  BY <1>0, <1>17 DEF CheckRows, Refuse, Goto, LookedAfter, tables, locals, history
<1>18. ASSUME NEW r \in Reqs, JoinPlain(r) PROVE NumberShape'
  BY <1>0, <1>18 DEF JoinPlain, LookedAfter
<1>19. ASSUME NEW r \in Reqs, Abandon(r) PROVE NumberShape'
  BY <1>0, <1>19 DEF Abandon, Refuse, tables, locals, history
<1>20. ASSUME \E i \in Invites : Expire(i) PROVE NumberShape'
  BY <1>0, <1>20 DEF Expire, tables, locals, history
<1>21. ASSUME \E q \in Roles : DeleteRole(q) PROVE NumberShape'
  BY <1>0, <1>21 DEF DeleteRole, tables, locals, history
<1>22. ASSUME DeleteOrganization PROVE NumberShape'
  BY <1>0, <1>22 DEF DeleteOrganization, tables, locals, history
<1>23. ASSUME \E u \in Users : RemoveMember(u) PROVE NumberShape'
  BY <1>0, <1>23 DEF RemoveMember, Set, tables, locals, history
<1>24. ASSUME \E u \in Users, e \in Emails : ChangeEmail(u, e) PROVE NumberShape'
  BY <1>0, <1>24 DEF ChangeEmail, Set, tables, locals, history
<1>25. QED
  BY <1>0, <1>1, <1>2, <1>3, <1>4, <1>5, <1>6, <1>7, <1>8, <1>9, <1>10, <1>11, <1>12,
     <1>13, <1>14, <1>15, <1>16, <1>17, <1>18, <1>19, <1>20, <1>21, <1>22, <1>23, <1>24
     DEF Next, InviteStep, AcceptStep, EndStep, RegisterStep, OthersStep

(***************************************************************************)
(* Rows                                                                    *)
(***************************************************************************)

\* No row but i's is written.
OnlyRow(i) ==
    /\ invite' = [invite EXCEPT ![i] = invite'[i]]
    /\ offers' = [offers EXCEPT ![i] = offers'[i]]
    /\ promised' = [promised EXCEPT ![i] = promised'[i]]

\* How a step may write the tables of invitations.
Makes(r, i) ==
    /\ invite[i].state = "unused"
    /\ ~HasRow(addr[r])
    /\ tokens < MaxTokens /\ tokens' = tokens + 1
    /\ OnlyRow(i)
    /\ invite'[i] = [state |-> "open", email |-> addr[r], token |-> tokens',
                     expired |-> FALSE]
    /\ wanted[r] \subseteq role /\ offers'[i] = wanted[r] /\ promised'[i] = wanted[r]
    /\ UNCHANGED <<role, joined, ended>>

Renews(i) ==
    /\ locked[i] = None /\ invite[i].state = "open"
    /\ tokens < MaxTokens /\ tokens' = tokens + 1
    /\ OnlyRow(i)
    /\ invite'[i] = [state |-> "open", email |-> invite[i].email, token |-> tokens',
                     expired |-> FALSE]
    /\ UNCHANGED <<offers, promised, role, joined, ended>>

Joins(r) ==
    /\ pc[r] = "join" /\ Present(target[r]) /\ Answer(r)
    /\ OnlyRow(target[r])
    /\ invite'[target[r]] \in Row /\ invite'[target[r]].state = "accepted"
    /\ invite'[target[r]].email = invite[target[r]].email
    /\ invite'[target[r]].token = invite[target[r]].token
    /\ wanted[r] \subseteq role
    /\ holds' = [holds EXCEPT ![who[r]] = wanted[r]]
    /\ joined' = joined \cup {<<target[r], r>>}
    /\ UNCHANGED <<offers, promised, role, tokens, ended>>

Deletes(r) ==
    /\ pc[r] = "delete" /\ locked[target[r]] = None /\ Answer(r)
    /\ OnlyRow(target[r])
    /\ invite'[target[r]] = [state |-> "gone", email |-> None, token |-> 0,
                             expired |-> FALSE]
    /\ offers'[target[r]] = {}
    /\ ended' = ended \/ ended' = ended \cup {target[r]}
    /\ UNCHANGED <<promised, role, tokens, joined>>

Ages(i) ==
    /\ OnlyRow(i)
    /\ invite'[i] \in Row /\ invite'[i].expired
    /\ invite'[i].state = invite[i].state
    /\ invite'[i].email = invite[i].email
    /\ invite'[i].token = invite[i].token
    /\ UNCHANGED <<offers, promised, role, tokens, joined, ended>>

Drops(q) ==
    /\ role' = role \ {q}
    /\ offers' = [i \in Invites |-> offers[i] \ {q}]
    /\ UNCHANGED <<invite, promised, tokens, joined, ended>>

SparesRows == UNCHANGED <<invite, offers, promised, role, tokens, joined, ended>>

Writes ==
    \/ SparesRows
    \/ \E r \in Reqs, i \in Invites : Makes(r, i)
    \/ \E i \in Invites : Renews(i)
    \/ \E r \in Reqs : Joins(r)
    \/ \E r \in Reqs : Deletes(r)
    \/ \E i \in Invites : Ages(i)
    \/ \E q \in Roles : Drops(q)

\* An accepted row is a row,
LEMMA AcceptedRow ==
    \A row \in Row :
        /\ [row EXCEPT !.state = "accepted"] \in Row
        /\ [row EXCEPT !.state = "accepted"].state = "accepted"
        /\ [row EXCEPT !.state = "accepted"].email = row.email
        /\ [row EXCEPT !.state = "accepted"].token = row.token
  BY DEF Row

\* ... and so is an expired one.
LEMMA ExpiredRow ==
    \A row \in Row :
        /\ [row EXCEPT !.expired = TRUE] \in Row
        /\ [row EXCEPT !.expired = TRUE].expired
        /\ [row EXCEPT !.expired = TRUE].state = row.state
        /\ [row EXCEPT !.expired = TRUE].email = row.email
        /\ [row EXCEPT !.expired = TRUE].token = row.token
  BY DEF Row

\* Each step spares the rows or does one of these.
LEMMA WritersStep == TypeOK /\ HeldInv /\ Next => Writes
<1> USE DEF TypeOK, HeldInv, Holding
<1>0. SUFFICES ASSUME TypeOK /\ HeldInv, Next PROVE Writes
  OBVIOUS
<1>1. ASSUME NEW r \in Reqs, \E emails \in SUBSET Emails, some \in SUBSET Roles :
             InviteMany(r, emails, some)
      PROVE  Writes
  BY <1>0, <1>1 DEF Writes, SparesRows, InviteMany, Refuse, tables, locals, history
<1>2. ASSUME NEW r \in Reqs, \E e \in Emails : InviteCount(r, e) PROVE Writes
  BY <1>0, <1>2 DEF Writes, SparesRows, InviteCount, Refuse, tables, locals, history
<1>3. ASSUME NEW r \in Reqs, \E i \in Invites : InviteInsert(r, i) PROVE Writes
  <2> PICK i \in Invites : InviteInsert(r, i)
    BY <1>3
  <2>1. CASE UNCHANGED <<tables, history>>
    BY <2>1 DEF tables, history, SparesRows, Writes
  <2>2. CASE ~UNCHANGED <<tables, history>>
    <3>1. Makes(r, i)
      BY <1>0, <2>2 DEF InviteInsert, Refuse, Makes, OnlyRow, Set
    <3>2. QED
      BY <3>1 DEF Writes
  <2>3. QED
    BY <2>1, <2>2
<1>4. ASSUME NEW r \in Reqs, \E some \in SUBSET sent[r] : Mail(r, some) PROVE Writes
  BY <1>0, <1>4 DEF Writes, SparesRows, Mail, tables, locals, history
<1>5. ASSUME NEW r \in Reqs, \E i \in Invites : Reissue(r, i) PROVE Writes
  <2> PICK i \in Invites : Reissue(r, i)
    BY <1>5
  <2>1. CASE UNCHANGED <<tables, history>>
    BY <2>1 DEF tables, history, SparesRows, Writes
  <2>2. CASE ~UNCHANGED <<tables, history>>
    <3>1. Renews(i)
      BY <1>0, <2>2 DEF Reissue, Refuse, Renews, OnlyRow, history
    <3>2. QED
      BY <3>1 DEF Writes
  <2>3. QED
    BY <2>1, <2>2
<1>6. ASSUME NEW r \in Reqs, \E u \in Users : ReadAddress(r, u) PROVE Writes
  BY <1>0, <1>6 DEF Writes, SparesRows, ReadAddress, tables, locals, history
<1>7. ASSUME NEW r \in Reqs, \E t \in mailed : AcceptLookup(r, t) PROVE Writes
  BY <1>0, <1>7 DEF Writes, SparesRows, AcceptLookup, Refuse, tables, locals, history
<1>8. ASSUME NEW r \in Reqs, AcceptLock(r) PROVE Writes
  BY <1>0, <1>8 DEF Writes, SparesRows, AcceptLock, Refuse, tables, locals, history
<1>9. ASSUME NEW r \in Reqs, AcceptCheck(r) PROVE Writes
  BY <1>0, <1>9 DEF Writes, SparesRows, AcceptCheck, Refuse, tables, locals, history
<1>10. ASSUME NEW r \in Reqs, AcceptRoles(r) PROVE Writes
  BY <1>0, <1>10 DEF Writes, SparesRows, AcceptRoles, tables, locals, history
<1>11. ASSUME NEW r \in Reqs, Join(r) PROVE Writes
  <2>1. CASE UNCHANGED <<tables, history>>
    BY <2>1 DEF tables, history, SparesRows, Writes
  <2>2. CASE ~UNCHANGED <<tables, history>>
    <3>1. target[r] \in Invites /\ invite[target[r]] \in Row
      BY <1>0, <1>11 DEF Join
    <3>2. /\ invite' = [invite EXCEPT ![target[r]].state = "accepted"]
          /\ pc[r] = "join" /\ Present(target[r]) /\ Answer(r)
          /\ wanted[r] \subseteq role
          /\ holds' = [holds EXCEPT ![who[r]] = wanted[r]]
          /\ joined' = joined \cup {<<target[r], r>>}
          /\ UNCHANGED <<offers, promised, role, tokens, ended>>
      BY <1>11, <2>2 DEF Join, Refuse, Set
    <3>3. invite'[target[r]] = [invite[target[r]] EXCEPT !.state = "accepted"]
      BY <1>0, <3>1, <3>2
    <3>4. OnlyRow(target[r])
      BY <1>0, <3>1, <3>2, <3>3 DEF OnlyRow
    <3>5. /\ invite'[target[r]] \in Row /\ invite'[target[r]].state = "accepted"
          /\ invite'[target[r]].email = invite[target[r]].email
          /\ invite'[target[r]].token = invite[target[r]].token
      BY <3>1, <3>3, AcceptedRow, Zenon
    <3>6. Joins(r)
      BY <3>2, <3>4, <3>5 DEF Joins
    <3>7. QED
      BY <3>6 DEF Writes
  <2>3. QED
    BY <2>1, <2>2
<1>12. ASSUME NEW r \in Reqs, \E t \in mailed : Decline(r, t) PROVE Writes
  BY <1>0, <1>12 DEF Writes, SparesRows, Decline, Refuse, tables, locals, history
<1>13. ASSUME NEW r \in Reqs, FindDeclined(r) PROVE Writes
  BY <1>0, <1>13 DEF Writes, SparesRows, FindDeclined, Refuse, Find, tables, locals, history
<1>14. ASSUME NEW r \in Reqs, \E i \in Invites : Withdraw(r, i) PROVE Writes
  BY <1>0, <1>14 DEF Writes, SparesRows, Withdraw, Refuse, Find, tables, locals, history
<1>15. ASSUME NEW r \in Reqs, Delete(r) PROVE Writes
  <2>1. CASE UNCHANGED <<tables, history>>
    BY <2>1 DEF tables, history, SparesRows, Writes
  <2>2. CASE ~UNCHANGED <<tables, history>>
    <3>1. target[r] \in Invites
      BY <1>0, <1>15 DEF Delete
    <3>2. Deletes(r)
      BY <1>0, <1>15, <2>2, <3>1 DEF Delete, Refuse, Deletes, OnlyRow, Set
    <3>3. QED
      BY <3>2 DEF Writes
  <2>3. QED
    BY <2>1, <2>2
<1>16. ASSUME NEW r \in Reqs, \E u \in Users, e \in Emails : Register(r, u, e)
      PROVE  Writes
  BY <1>0, <1>16 DEF Writes, SparesRows, Register, tables, locals, history
<1>17. ASSUME NEW r \in Reqs, CheckRows(r) PROVE Writes
  BY <1>0, <1>17 DEF Writes, SparesRows, CheckRows, Refuse, LookedAfter, tables, locals,
     history
<1>18. ASSUME NEW r \in Reqs, JoinPlain(r) PROVE Writes
  BY <1>0, <1>18 DEF Writes, SparesRows, JoinPlain, LookedAfter
<1>19. ASSUME NEW r \in Reqs, Abandon(r) PROVE Writes
  BY <1>0, <1>19 DEF Writes, SparesRows, Abandon, Refuse, tables, locals, history
<1>20. ASSUME \E i \in Invites : Expire(i) PROVE Writes
  <2> PICK i \in Invites : Expire(i)
    BY <1>20
  <2>1. Ages(i)
    BY <1>0, ExpiredRow DEF Expire, Ages, OnlyRow, history
  <2>2. QED
    BY <2>1 DEF Writes
<1>21. ASSUME \E q \in Roles : DeleteRole(q) PROVE Writes
  <2> PICK q \in Roles : DeleteRole(q)
    BY <1>21
  <2>1. Drops(q)
    BY DEF DeleteRole, Drops, history
  <2>2. QED
    BY <2>1 DEF Writes
<1>22. ASSUME DeleteOrganization PROVE Writes
  BY <1>0, <1>22 DEF Writes, SparesRows, DeleteOrganization, tables, locals, history
<1>23. ASSUME \E u \in Users : RemoveMember(u) PROVE Writes
  BY <1>0, <1>23 DEF Writes, SparesRows, RemoveMember, tables, locals, history
<1>24. ASSUME \E u \in Users, e \in Emails : ChangeEmail(u, e) PROVE Writes
  BY <1>0, <1>24 DEF Writes, SparesRows, ChangeEmail, tables, locals, history
<1>25. QED
  BY <1>0, <1>1, <1>2, <1>3, <1>4, <1>5, <1>6, <1>7, <1>8, <1>9, <1>10, <1>11, <1>12,
     <1>13, <1>14, <1>15, <1>16, <1>17, <1>18, <1>19, <1>20, <1>21, <1>22, <1>23, <1>24
     DEF Next, InviteStep, AcceptStep, EndStep, RegisterStep, OthersStep

\* A step that writes one row leaves rows if what it writes is one.
LEMMA OneRow ==
    ASSUME TypeOK, NEW i \in Invites, OnlyRow(i), UNCHANGED role,
           NEW row \in Row, row = invite'[i],
           NEW offer \in SUBSET role, offer = offers'[i],
           row.state \in {"open", "accepted"} \/ offer = {}
    PROVE  RowShape'
<1>1. invite' = [invite EXCEPT ![i] = row] /\ offers' = [offers EXCEPT ![i] = offer]
  BY DEF OnlyRow
<1>2. invite' \in [Invites -> Row]
  BY <1>1 DEF TypeOK
<1>3. offers' \in [Invites -> SUBSET role']
  BY <1>1 DEF TypeOK
<1>4. \A j \in Invites : j # i => invite'[j] = invite[j] /\ offers'[j] = offers[j]
  BY <1>1 DEF TypeOK
<1>5. \A j \in Invites : ~Present(j)' => offers'[j] = {}
  BY <1>4 DEF TypeOK, Present
<1>6. QED
  BY <1>2, <1>3, <1>5 DEF RowShape

\* Each step keeps the rows well-formed.
LEMMA RowStep == TypeOK /\ HeldInv /\ Next => RowShape'
<1>0. SUFFICES ASSUME TypeOK /\ HeldInv, Next PROVE RowShape'
  OBVIOUS
<1> USE <1>0, BoundAssumption DEF HeldInv, Holding
<1>1. CASE SparesRows
  BY <1>1 DEF SparesRows, TypeOK, RowShape, Present
<1>2. ASSUME NEW r \in Reqs, NEW i \in Invites, Makes(r, i) PROVE RowShape'
  <2>1.  invite'[i] \in Row /\ offers'[i] \in SUBSET role
    BY <1>0, <1>2 DEF Makes, TypeOK, Row
  <2>2. invite'[i].state \in {"open", "accepted"} \/ offers'[i] = {}
    BY <1>0, <1>2 DEF Makes, TypeOK, Present
  <2>3. QED
    BY <1>0, <1>2, <2>1, <2>2, OneRow DEF Makes, Present
<1>3. ASSUME NEW i \in Invites, Renews(i) PROVE RowShape'
  <2>1.  invite'[i] \in Row /\ offers'[i] \in SUBSET role
    BY <1>0, <1>3 DEF Renews, TypeOK, Row
  <2>2. invite'[i].state \in {"open", "accepted"} \/ offers'[i] = {}
    BY <1>0, <1>3 DEF Renews, TypeOK, Present
  <2>3. QED
    BY <1>0, <1>3, <2>1, <2>2, OneRow DEF Renews, Present
<1>4. ASSUME NEW r \in Reqs, Joins(r) PROVE RowShape'
  <2>1. /\ target[r] \in Invites
        /\ invite'[target[r]] \in Row /\ offers'[target[r]] \in SUBSET role
    BY <1>0, <1>4 DEF Joins, TypeOK, Row
  <2>2. invite'[target[r]].state \in {"open", "accepted"} \/ offers'[target[r]] = {}
    BY <1>0, <1>4 DEF Joins, TypeOK, Present
  <2>3. QED
    BY <1>0, <1>4, <2>1, <2>2, OneRow DEF Joins, Present
<1>5. ASSUME NEW r \in Reqs, Deletes(r) PROVE RowShape'
  <2>1. /\ target[r] \in Invites
        /\ invite'[target[r]] \in Row /\ offers'[target[r]] \in SUBSET role
    BY <1>0, <1>5 DEF Deletes, TypeOK, Row
  <2>2. invite'[target[r]].state \in {"open", "accepted"} \/ offers'[target[r]] = {}
    BY <1>0, <1>5 DEF Deletes, TypeOK, Present
  <2>3. QED
    BY <1>0, <1>5, <2>1, <2>2, OneRow DEF Deletes, Present
<1>6. ASSUME NEW i \in Invites, Ages(i) PROVE RowShape'
  <2>1.  invite'[i] \in Row /\ offers'[i] \in SUBSET role
    BY <1>0, <1>6 DEF Ages, TypeOK, Row
  <2>2. invite'[i].state \in {"open", "accepted"} \/ offers'[i] = {}
    BY <1>0, <1>6 DEF Ages, TypeOK, Present
  <2>3. QED
    BY <1>0, <1>6, <2>1, <2>2, OneRow DEF Ages, Present
<1>7. ASSUME NEW q \in Roles, Drops(q) PROVE RowShape'
  BY <1>7 DEF Drops, TypeOK, RowShape, Present
<1>8. QED
  BY <1>1, <1>2, <1>3, <1>4, <1>5, <1>6, <1>7, WritersStep DEF Writes

\* Each step keeps the histories well-formed.
LEMMA HistoryStep == TypeOK /\ HeldInv /\ Next => HistoryShape'
<1>0. SUFFICES ASSUME TypeOK /\ HeldInv, Next PROVE HistoryShape'
  OBVIOUS
<1> USE <1>0 DEF TypeOK, HistoryShape, HeldInv, Holding
<1>1. CASE SparesRows
  BY <1>1 DEF SparesRows
<1>2. ASSUME NEW r \in Reqs, NEW i \in Invites, Makes(r, i) PROVE HistoryShape'
  BY <1>2 DEF Makes, OnlyRow
<1>3. ASSUME NEW i \in Invites, Renews(i) PROVE HistoryShape'
  BY <1>3 DEF Renews, OnlyRow
<1>4. ASSUME NEW r \in Reqs, Joins(r) PROVE HistoryShape'
  BY <1>4 DEF Joins, OnlyRow
<1>5. ASSUME NEW r \in Reqs, Deletes(r) PROVE HistoryShape'
  BY <1>5 DEF Deletes, OnlyRow
<1>6. ASSUME NEW i \in Invites, Ages(i) PROVE HistoryShape'
  BY <1>6 DEF Ages, OnlyRow
<1>7. ASSUME NEW q \in Roles, Drops(q) PROVE HistoryShape'
  BY <1>7 DEF Drops
<1>8. QED
  BY <1>1, <1>2, <1>3, <1>4, <1>5, <1>6, <1>7, WritersStep DEF Writes

\* Each step leaves rows with tokens that were generated.
LEMMA TokenStep == TypeOK /\ HeldInv /\ TokenInv /\ Next => TokenInv'
<1>0. SUFFICES ASSUME TypeOK /\ HeldInv /\ TokenInv, Next PROVE TokenInv'
  OBVIOUS
<1> USE <1>0, BoundAssumption DEF TypeOK, HeldInv, Holding, TokenInv, Present
<1>1. CASE SparesRows
  BY <1>1 DEF SparesRows
<1>2. ASSUME NEW r \in Reqs, NEW i \in Invites, Makes(r, i) PROVE TokenInv'
  BY <1>2 DEF Makes, OnlyRow
<1>3. ASSUME NEW i \in Invites, Renews(i) PROVE TokenInv'
  BY <1>3 DEF Renews, OnlyRow
<1>4. ASSUME NEW r \in Reqs, Joins(r) PROVE TokenInv'
  BY <1>4, SMTT(30) DEF Joins, OnlyRow
<1>5. ASSUME NEW r \in Reqs, Deletes(r) PROVE TokenInv'
  BY <1>5 DEF Deletes, OnlyRow
<1>6. ASSUME NEW i \in Invites, Ages(i) PROVE TokenInv'
  BY <1>6 DEF Ages, OnlyRow
<1>7. ASSUME NEW q \in Roles, Drops(q) PROVE TokenInv'
  BY <1>7 DEF Drops
<1>8. QED
  BY <1>1, <1>2, <1>3, <1>4, <1>5, <1>6, <1>7, WritersStep DEF Writes

\* Each step keeps addresses and tokens unique.
LEMMA UniqueStep == TypeOK /\ HeldInv /\ TokenInv /\ Next => UniqueShape'
<1>0. SUFFICES ASSUME TypeOK /\ HeldInv /\ TokenInv, Next PROVE UniqueShape'
  OBVIOUS
<1> USE <1>0, BoundAssumption DEF TypeOK, UniqueShape, HeldInv, Holding, TokenInv, Present
<1>1. CASE SparesRows
  BY <1>1 DEF SparesRows, HasRow
<1>2. ASSUME NEW r \in Reqs, NEW i \in Invites, Makes(r, i) PROVE UniqueShape'
  BY <1>2 DEF Makes, HasRow, OnlyRow
<1>3. ASSUME NEW i \in Invites, Renews(i) PROVE UniqueShape'
  BY <1>3 DEF Renews, HasRow, OnlyRow
<1>4. ASSUME NEW r \in Reqs, Joins(r) PROVE UniqueShape'
  BY <1>4 DEF Joins, HasRow, OnlyRow
<1>5. ASSUME NEW r \in Reqs, Deletes(r) PROVE UniqueShape'
  BY <1>5 DEF Deletes, HasRow, OnlyRow
<1>6. ASSUME NEW i \in Invites, Ages(i) PROVE UniqueShape'
  BY <1>6 DEF Ages, HasRow, OnlyRow
<1>7. ASSUME NEW q \in Roles, Drops(q) PROVE UniqueShape'
  BY <1>7 DEF Drops, HasRow
<1>8. QED
  BY <1>1, <1>2, <1>3, <1>4, <1>5, <1>6, <1>7, WritersStep DEF Writes

\* Each step leaves a row that made a membership accepted or gone.
LEMMA SpentStep == TypeOK /\ HeldInv /\ SpentInv /\ Next => SpentInv'
<1>0. SUFFICES ASSUME TypeOK /\ HeldInv /\ SpentInv, Next PROVE SpentInv'
  OBVIOUS
<1> USE <1>0 DEF TypeOK, HeldInv, Holding, SpentInv
<1>1. CASE SparesRows
  BY <1>1 DEF SparesRows
<1>2. ASSUME NEW r \in Reqs, NEW i \in Invites, Makes(r, i) PROVE SpentInv'
  BY <1>2 DEF Makes, OnlyRow
<1>3. ASSUME NEW i \in Invites, Renews(i) PROVE SpentInv'
  BY <1>3 DEF Renews, OnlyRow
<1>4. ASSUME NEW r \in Reqs, Joins(r) PROVE SpentInv'
  BY <1>4 DEF Joins, OnlyRow
<1>5. ASSUME NEW r \in Reqs, Deletes(r) PROVE SpentInv'
  BY <1>5 DEF Deletes, OnlyRow
<1>6. ASSUME NEW i \in Invites, Ages(i) PROVE SpentInv'
  BY <1>6 DEF Ages, OnlyRow
<1>7. ASSUME NEW q \in Roles, Drops(q) PROVE SpentInv'
  BY <1>7 DEF Drops
<1>8. QED
  BY <1>1, <1>2, <1>3, <1>4, <1>5, <1>6, <1>7, WritersStep DEF Writes

\* Each step that makes a membership makes the first by its row.
LEMMA OnceStep ==
    TypeOK /\ HeldInv /\ LockInv /\ SpentInv /\ OneMembershipPerInvitation /\ Next =>
        OneMembershipPerInvitation'
<1>0. SUFFICES ASSUME TypeOK /\ HeldInv /\ LockInv /\ SpentInv,
                OneMembershipPerInvitation, Next PROVE OneMembershipPerInvitation'
  OBVIOUS
<1> USE <1>0 DEF TypeOK, HeldInv, Holding, LockInv, SpentInv, OneMembershipPerInvitation
<1>1. CASE SparesRows
  BY <1>1 DEF SparesRows
<1>2. ASSUME NEW r \in Reqs, NEW i \in Invites, Makes(r, i)
      PROVE  OneMembershipPerInvitation'
  BY <1>2 DEF Makes, OnlyRow
<1>3. ASSUME NEW i \in Invites, Renews(i) PROVE OneMembershipPerInvitation'
  BY <1>3 DEF Renews, OnlyRow
<1>4. ASSUME NEW r \in Reqs, Joins(r) PROVE OneMembershipPerInvitation'
  BY <1>4 DEF Joins, OnlyRow
<1>5. ASSUME NEW r \in Reqs, Deletes(r) PROVE OneMembershipPerInvitation'
  BY <1>5, SMTT(30) DEF Deletes, OnlyRow
<1>6. ASSUME NEW i \in Invites, Ages(i) PROVE OneMembershipPerInvitation'
  BY <1>6 DEF Ages, OnlyRow
<1>7. ASSUME NEW q \in Roles, Drops(q) PROVE OneMembershipPerInvitation'
  BY <1>7 DEF Drops
<1>8. QED
  BY <1>1, <1>2, <1>3, <1>4, <1>5, <1>6, <1>7, WritersStep DEF Writes

\* Each step leaves a row whose end was answered gone.
LEMMA EndedStep == TypeOK /\ HeldInv /\ LockInv /\ EndedInv /\ Next => EndedInv'
<1>0. SUFFICES ASSUME TypeOK /\ HeldInv /\ LockInv /\ EndedInv, Next PROVE EndedInv'
  OBVIOUS
<1> USE <1>0 DEF TypeOK, HeldInv, Holding, LockInv, EndedInv
<1>1. CASE SparesRows
  BY <1>1 DEF SparesRows
<1>2. ASSUME NEW r \in Reqs, NEW i \in Invites, Makes(r, i) PROVE EndedInv'
  BY <1>2 DEF Makes, OnlyRow
<1>3. ASSUME NEW i \in Invites, Renews(i) PROVE EndedInv'
  BY <1>3 DEF Renews, OnlyRow
<1>4. ASSUME NEW r \in Reqs, Joins(r) PROVE EndedInv'
  BY <1>4 DEF Joins, OnlyRow
<1>5. ASSUME NEW r \in Reqs, Deletes(r) PROVE EndedInv'
  BY <1>5 DEF Deletes, OnlyRow
<1>6. ASSUME NEW i \in Invites, Ages(i) PROVE EndedInv'
  BY <1>6 DEF Ages, OnlyRow
<1>7. ASSUME NEW q \in Roles, Drops(q) PROVE EndedInv'
  BY <1>7 DEF Drops
<1>8. QED
  BY <1>1, <1>2, <1>3, <1>4, <1>5, <1>6, <1>7, WritersStep DEF Writes

\* Each step takes from an offer the roles that are deleted, and no other.
LEMMA OfferStep == TypeOK /\ HeldInv /\ LockInv /\ OfferInv /\ Next => OfferInv'
<1>0. SUFFICES ASSUME TypeOK /\ HeldInv /\ LockInv /\ OfferInv, Next PROVE OfferInv'
  OBVIOUS
<1> USE <1>0 DEF TypeOK, HeldInv, Holding, LockInv, OfferInv, Present
<1>1. CASE SparesRows
  BY <1>1 DEF SparesRows
<1>2. ASSUME NEW r \in Reqs, NEW i \in Invites, Makes(r, i) PROVE OfferInv'
  BY <1>2 DEF Makes, OnlyRow
<1>3. ASSUME NEW i \in Invites, Renews(i) PROVE OfferInv'
  BY <1>3 DEF Renews, OnlyRow
<1>4. ASSUME NEW r \in Reqs, Joins(r) PROVE OfferInv'
  BY <1>4 DEF Joins, OnlyRow
<1>5. ASSUME NEW r \in Reqs, Deletes(r) PROVE OfferInv'
  BY <1>5 DEF Deletes, OnlyRow
<1>6. ASSUME NEW i \in Invites, Ages(i) PROVE OfferInv'
  BY <1>6 DEF Ages, OnlyRow
<1>7. ASSUME NEW q \in Roles, Drops(q) PROVE OfferInv'
  BY <1>7 DEF Drops
<1>8. QED
  BY <1>1, <1>2, <1>3, <1>4, <1>5, <1>6, <1>7, WritersStep DEF Writes

(***************************************************************************)
(* Requests that accept or register                                        *)
(***************************************************************************)

\* An answer ends what a request holds, and leaves the others what they hold.
LEMMA AnswerHolds ==
    ASSUME TypeOK, HeldInv, LockInv, NEW r \in Reqs, Answer(r)
    PROVE  \A q \in Reqs : pc'[q] \in Holding =>
              /\ q # r /\ pc[q] \in Holding
              /\ target'[q] = target[q] /\ target[q] \in Invites
              /\ locked'[target[q]] = q
  BY DEF TypeOK, HeldInv, LockInv, Answer, Goto, Set, Holding

\* Each step leaves the rows that are being accepted locked and open.
LEMMA LockStep == TypeOK /\ HeldInv /\ LockInv /\ Next => LockInv'
<1> USE NoneAssumption DEF TypeOK, HeldInv, LockInv, Holding
<1>0. SUFFICES ASSUME TypeOK /\ HeldInv /\ LockInv, Next PROVE LockInv'
  OBVIOUS
<1>1. ASSUME NEW r \in Reqs, \E emails \in SUBSET Emails, some \in SUBSET Roles :
             InviteMany(r, emails, some)
      PROVE  LockInv'
  BY <1>0, <1>1 DEF InviteMany, Answer, Refuse, Goto, Set, tables, locals, history
<1>2. ASSUME NEW r \in Reqs, \E e \in Emails : InviteCount(r, e) PROVE LockInv'
  BY <1>0, <1>2 DEF InviteCount, Answer, Refuse, Goto, Set, NextAddress, tables, locals,
     history
<1>3. ASSUME NEW r \in Reqs, \E i \in Invites : InviteInsert(r, i) PROVE LockInv'
  <2> PICK i \in Invites : InviteInsert(r, i)
    BY <1>3
  <2>1. \A q \in Reqs : pc'[q] \in Holding =>
            /\ q # r /\ pc[q] \in Holding
            /\ target'[q] = target[q] /\ target[q] \in Invites
            /\ locked'[target[q]] = q
    <3>1. CASE Answer(r)
      BY <1>0, <3>1, AnswerHolds
    <3>2. CASE ~Answer(r)
      BY <1>0, <1>3, <3>2 DEF InviteInsert, NextAddress, Refuse, Goto
    <3>3. QED
      BY <3>1, <3>2
  <2>2. \A q \in Reqs : q # r /\ pc[q] \in Holding => invite'[target[q]].state = "open"
    BY <1>0, <1>3 DEF InviteInsert, Refuse, tables
  <2>3. QED
    BY <2>1, <2>2
<1>4. ASSUME NEW r \in Reqs, \E some \in SUBSET sent[r] : Mail(r, some) PROVE LockInv'
  BY <1>0, <1>4 DEF Mail, Answer, Goto, Set, tables, locals, history
<1>5. ASSUME NEW r \in Reqs, \E i \in Invites : Reissue(r, i) PROVE LockInv'
  <2> PICK i \in Invites : Reissue(r, i)
    BY <1>5
  <2>1. \A q \in Reqs : pc'[q] \in Holding =>
            /\ q # r /\ pc[q] \in Holding
            /\ target'[q] = target[q] /\ target[q] \in Invites
            /\ locked'[target[q]] = q
    <3>1. CASE Answer(r)
      BY <1>0, <3>1, AnswerHolds
    <3>2. CASE ~Answer(r)
      BY <1>0, <1>5, <3>2 DEF Reissue, Refuse, Goto
    <3>3. QED
      BY <3>1, <3>2
  <2>2. \A q \in Reqs : q # r /\ pc[q] \in Holding => invite'[target[q]].state = "open"
    BY <1>0, <1>5 DEF Reissue, Refuse, tables
  <2>3. QED
    BY <2>1, <2>2
<1>6. ASSUME NEW r \in Reqs, \E u \in Users : ReadAddress(r, u) PROVE LockInv'
  BY <1>0, <1>6 DEF ReadAddress, Goto, Set, tables, locals, history
<1>7. ASSUME NEW r \in Reqs, \E t \in mailed : AcceptLookup(r, t) PROVE LockInv'
  BY <1>0, <1>7 DEF AcceptLookup, Answer, Refuse, Goto, Set, Pending, tables, locals,
     history
<1>8. ASSUME NEW r \in Reqs, AcceptLock(r) PROVE LockInv'
  BY <1>0, <1>8 DEF AcceptLock, Answer, Refuse, Goto, Set, tables, locals, history
<1>9. ASSUME NEW r \in Reqs, AcceptCheck(r) PROVE LockInv'
  BY <1>0, <1>9 DEF AcceptCheck, Answer, Refuse, Goto, Set, tables, locals, history
<1>10. ASSUME NEW r \in Reqs, AcceptRoles(r) PROVE LockInv'
  BY <1>0, <1>10 DEF AcceptRoles, Goto, Set, tables, locals, history
<1>11. ASSUME NEW r \in Reqs, Join(r) PROVE LockInv'
  <2>1. \A q \in Reqs : pc'[q] \in Holding =>
            /\ q # r /\ pc[q] \in Holding
            /\ target'[q] = target[q] /\ target[q] \in Invites
            /\ locked'[target[q]] = q
    <3>1. CASE Answer(r)
      BY <1>0, <3>1, AnswerHolds
    <3>2. CASE ~Answer(r)
      BY <1>0, <1>11, <3>2 DEF Join, Refuse
    <3>3. QED
      BY <3>1, <3>2
  <2>2. \A q \in Reqs : q # r /\ pc[q] \in Holding => invite'[target[q]].state = "open"
    BY <1>0, <1>11 DEF Join, Refuse, tables
  <2>3. QED
    BY <2>1, <2>2
<1>12. ASSUME NEW r \in Reqs, \E t \in mailed : Decline(r, t) PROVE LockInv'
  BY <1>0, <1>12 DEF Decline, Answer, Refuse, Goto, Set, Pending, tables, locals, history
<1>13. ASSUME NEW r \in Reqs, FindDeclined(r) PROVE LockInv'
  BY <1>0, <1>13 DEF FindDeclined, Answer, Refuse, Goto, Set, Find, tables, locals,
     history
<1>14. ASSUME NEW r \in Reqs, \E i \in Invites : Withdraw(r, i) PROVE LockInv'
  BY <1>0, <1>14 DEF Withdraw, Answer, Refuse, Goto, Set, Find, tables, locals, history
<1>15. ASSUME NEW r \in Reqs, Delete(r) PROVE LockInv'
  <2>1. \A q \in Reqs : pc'[q] \in Holding =>
            /\ q # r /\ pc[q] \in Holding
            /\ target'[q] = target[q] /\ target[q] \in Invites
            /\ locked'[target[q]] = q
    <3>1. CASE Answer(r)
      BY <1>0, <3>1, AnswerHolds
    <3>2. CASE ~Answer(r)
      BY <1>0, <1>15, <3>2 DEF Delete, Refuse
    <3>3. QED
      BY <3>1, <3>2
  <2>2. \A q \in Reqs : q # r /\ pc[q] \in Holding => invite'[target[q]].state = "open"
    BY <1>0, <1>15 DEF Delete, Refuse, tables
  <2>3. QED
    BY <2>1, <2>2
<1>16. ASSUME NEW r \in Reqs, \E u \in Users, e \in Emails : Register(r, u, e)
      PROVE  LockInv'
  BY <1>0, <1>16 DEF Register, Answer, Goto, Set, tables, locals, history
<1>17. ASSUME NEW r \in Reqs, CheckRows(r) PROVE LockInv'
  BY <1>0, <1>17 DEF CheckRows, Refuse, Answer, Goto, Set, OfferedTo, LookedAfter,
     tables, locals, history
<1>18. ASSUME NEW r \in Reqs, JoinPlain(r) PROVE LockInv'
  BY <1>0, <1>18 DEF JoinPlain, Answer, Goto, Set, LookedAfter
<1>19. ASSUME NEW r \in Reqs, Abandon(r) PROVE LockInv'
  BY <1>0, <1>19 DEF Abandon, Answer, Refuse, Goto, Set, tables, locals, history
<1>20. ASSUME \E i \in Invites : Expire(i) PROVE LockInv'
  BY <1>0, <1>20 DEF Expire, tables, locals, history
<1>21. ASSUME \E q \in Roles : DeleteRole(q) PROVE LockInv'
  BY <1>0, <1>21 DEF DeleteRole, tables, locals, history
<1>22. ASSUME DeleteOrganization PROVE LockInv'
  BY <1>0, <1>22 DEF DeleteOrganization, tables, locals, history
<1>23. ASSUME \E u \in Users : RemoveMember(u) PROVE LockInv'
  BY <1>0, <1>23 DEF RemoveMember, Set, tables, locals, history
<1>24. ASSUME \E u \in Users, e \in Emails : ChangeEmail(u, e) PROVE LockInv'
  BY <1>0, <1>24 DEF ChangeEmail, Set, tables, locals, history
<1>25. QED
  BY <1>0, <1>1, <1>2, <1>3, <1>4, <1>5, <1>6, <1>7, <1>8, <1>9, <1>10, <1>11, <1>12,
     <1>13, <1>14, <1>15, <1>16, <1>17, <1>18, <1>19, <1>20, <1>21, <1>22, <1>23, <1>24
     DEF Next, InviteStep, AcceptStep, EndStep, RegisterStep, OthersStep

\* Each step leaves what was read of an offer what the offer is.
LEMMA WantedStep ==
    TypeOK /\ HeldInv /\ LockInv /\ OfferInv /\ WantedInv /\ Next =>
        WantedInv'
<1> USE DEF TypeOK, HeldInv, Holding, LockInv, OfferInv, WantedInv, Present
<1>0. SUFFICES ASSUME TypeOK /\ HeldInv /\ LockInv /\ OfferInv /\ WantedInv, Next
               PROVE  WantedInv'
  OBVIOUS
<1>1. ASSUME NEW r \in Reqs, \E emails \in SUBSET Emails, some \in SUBSET Roles :
             InviteMany(r, emails, some)
      PROVE  WantedInv'
  BY <1>0, <1>1 DEF InviteMany, Answer, Refuse, Goto, Set, tables, locals, history
<1>2. ASSUME NEW r \in Reqs, \E e \in Emails : InviteCount(r, e) PROVE WantedInv'
  BY <1>0, <1>2 DEF InviteCount, Answer, Refuse, Goto, Set, NextAddress, tables, locals,
     history
<1>3. ASSUME NEW r \in Reqs, \E i \in Invites : InviteInsert(r, i) PROVE WantedInv'
  BY <1>0, <1>3, SMTT(30)
  DEF InviteInsert, Answer, Refuse, Goto, Set, NextAddress, HasRow, tables,
     locals, history
<1>4. ASSUME NEW r \in Reqs, \E some \in SUBSET sent[r] : Mail(r, some)
      PROVE  WantedInv'
  BY <1>0, <1>4 DEF Mail, Answer, Goto, Set, tables, locals, history
<1>5. ASSUME NEW r \in Reqs, \E i \in Invites : Reissue(r, i) PROVE WantedInv'
  BY <1>0, <1>5 DEF Reissue, Answer, Refuse, Goto, Set, tables, locals, history
<1>6. ASSUME NEW r \in Reqs, \E u \in Users : ReadAddress(r, u) PROVE WantedInv'
  BY <1>0, <1>6 DEF ReadAddress, Goto, Set, tables, locals, history
<1>7. ASSUME NEW r \in Reqs, \E t \in mailed : AcceptLookup(r, t) PROVE WantedInv'
  BY <1>0, <1>7 DEF AcceptLookup, Answer, Refuse, Goto, Set, Pending, tables, locals,
     history
<1>8. ASSUME NEW r \in Reqs, AcceptLock(r) PROVE WantedInv'
  BY <1>0, <1>8 DEF AcceptLock, Answer, Refuse, Goto, Set, tables, locals, history
<1>9. ASSUME NEW r \in Reqs, AcceptCheck(r) PROVE WantedInv'
  BY <1>0, <1>9 DEF AcceptCheck, Answer, Refuse, Goto, Set, tables, locals, history
<1>10. ASSUME NEW r \in Reqs, AcceptRoles(r) PROVE WantedInv'
  BY <1>0, <1>10 DEF AcceptRoles, Goto, Set, tables, locals, history
<1>11. ASSUME NEW r \in Reqs, Join(r) PROVE WantedInv'
  BY <1>0, <1>11 DEF Join, Answer, Refuse, Goto, Set, tables, locals, history
<1>12. ASSUME NEW r \in Reqs, \E t \in mailed : Decline(r, t) PROVE WantedInv'
  BY <1>0, <1>12 DEF Decline, Answer, Refuse, Goto, Set, Pending, tables, locals, history
<1>13. ASSUME NEW r \in Reqs, FindDeclined(r) PROVE WantedInv'
  BY <1>0, <1>13 DEF FindDeclined, Answer, Refuse, Goto, Set, Find, tables, locals,
     history
<1>14. ASSUME NEW r \in Reqs, \E i \in Invites : Withdraw(r, i) PROVE WantedInv'
  BY <1>0, <1>14 DEF Withdraw, Answer, Refuse, Goto, Set, Find, tables, locals, history
<1>15. ASSUME NEW r \in Reqs, Delete(r) PROVE WantedInv'
  BY <1>0, <1>15 DEF Delete, Answer, Refuse, Goto, Set, tables, locals, history
<1>16. ASSUME NEW r \in Reqs, \E u \in Users, e \in Emails : Register(r, u, e)
      PROVE  WantedInv'
  BY <1>0, <1>16 DEF Register, Answer, Goto, Set, tables, locals, history
<1>17. ASSUME NEW r \in Reqs, CheckRows(r) PROVE WantedInv'
  BY <1>0, <1>17 DEF CheckRows, Refuse, Answer, Goto, Set, OfferedTo, LookedAfter,
     tables, locals, history
<1>18. ASSUME NEW r \in Reqs, JoinPlain(r) PROVE WantedInv'
  BY <1>0, <1>18 DEF JoinPlain, Answer, Goto, Set, LookedAfter
<1>19. ASSUME NEW r \in Reqs, Abandon(r) PROVE WantedInv'
  BY <1>0, <1>19 DEF Abandon, Answer, Refuse, Goto, Set, tables, locals, history
<1>20. ASSUME \E i \in Invites : Expire(i) PROVE WantedInv'
  BY <1>0, <1>20 DEF Expire, tables, locals, history
<1>21. ASSUME \E q \in Roles : DeleteRole(q) PROVE WantedInv'
  BY <1>0, <1>21 DEF DeleteRole, tables, locals, history
<1>22. ASSUME DeleteOrganization PROVE WantedInv'
  BY <1>0, <1>22 DEF DeleteOrganization, tables, locals, history
<1>23. ASSUME \E u \in Users : RemoveMember(u) PROVE WantedInv'
  BY <1>0, <1>23 DEF RemoveMember, Set, tables, locals, history
<1>24. ASSUME \E u \in Users, e \in Emails : ChangeEmail(u, e) PROVE WantedInv'
  BY <1>0, <1>24 DEF ChangeEmail, Set, tables, locals, history
<1>25. QED
  BY <1>0, <1>1, <1>2, <1>3, <1>4, <1>5, <1>6, <1>7, <1>8, <1>9, <1>10, <1>11, <1>12,
     <1>13, <1>14, <1>15, <1>16, <1>17, <1>18, <1>19, <1>20, <1>21, <1>22, <1>23, <1>24
     DEF Next, InviteStep, AcceptStep, EndStep, RegisterStep, OthersStep

\* Each step that makes an offer after a check gives it a later token.
LEMMA PlainStep == TypeOK /\ HeldInv /\ PlainInv /\ Next => PlainInv'
<1> USE BoundAssumption DEF TypeOK, HeldInv, Holding, PlainInv, OfferedTo
<1>0. SUFFICES ASSUME TypeOK /\ HeldInv /\ PlainInv, Next PROVE PlainInv'
  OBVIOUS
<1>1. ASSUME NEW r \in Reqs, \E emails \in SUBSET Emails, some \in SUBSET Roles :
             InviteMany(r, emails, some)
      PROVE  PlainInv'
  BY <1>0, <1>1 DEF InviteMany, Answer, Refuse, Goto, Set, tables, locals, history
<1>2. ASSUME NEW r \in Reqs, \E e \in Emails : InviteCount(r, e) PROVE PlainInv'
  BY <1>0, <1>2, SMTT(30)
  DEF InviteCount, Answer, Refuse, Goto, Set, NextAddress, tables, locals,
     history
<1>3. ASSUME NEW r \in Reqs, \E i \in Invites : InviteInsert(r, i) PROVE PlainInv'
  BY <1>0, <1>3 DEF InviteInsert, Answer, Refuse, Goto, Set, NextAddress, HasRow, tables,
     locals, history
<1>4. ASSUME NEW r \in Reqs, \E some \in SUBSET sent[r] : Mail(r, some) PROVE PlainInv'
  BY <1>0, <1>4 DEF Mail, Answer, Goto, Set, tables, locals, history
<1>5. ASSUME NEW r \in Reqs, \E i \in Invites : Reissue(r, i) PROVE PlainInv'
  BY <1>0, <1>5, SMTT(30) DEF Reissue, Answer, Refuse, Goto, Set, tables, locals, history
<1>6. ASSUME NEW r \in Reqs, \E u \in Users : ReadAddress(r, u) PROVE PlainInv'
  BY <1>0, <1>6 DEF ReadAddress, Goto, Set, tables, locals, history
<1>7. ASSUME NEW r \in Reqs, \E t \in mailed : AcceptLookup(r, t) PROVE PlainInv'
  BY <1>0, <1>7, SMTT(30)
  DEF AcceptLookup, Answer, Refuse, Goto, Set, Pending, tables, locals,
     history
<1>8. ASSUME NEW r \in Reqs, AcceptLock(r) PROVE PlainInv'
  BY <1>0, <1>8 DEF AcceptLock, Answer, Refuse, Goto, Set, tables, locals, history
<1>9. ASSUME NEW r \in Reqs, AcceptCheck(r) PROVE PlainInv'
  BY <1>0, <1>9 DEF AcceptCheck, Answer, Refuse, Goto, Set, tables, locals, history
<1>10. ASSUME NEW r \in Reqs, AcceptRoles(r) PROVE PlainInv'
  BY <1>0, <1>10 DEF AcceptRoles, Goto, Set, tables, locals, history
<1>11. ASSUME NEW r \in Reqs, Join(r) PROVE PlainInv'
  <2>1. \A i \in Invites : invite'[i].state = "open" => invite'[i] = invite[i]
    <3>1. target[r] \in Invites /\ invite[target[r]] \in Row
      BY <1>0, <1>11 DEF Join
    <3>2. \/ UNCHANGED invite
          \/ invite' = [invite EXCEPT ![target[r]].state = "accepted"]
      BY <1>11 DEF Join, Refuse, tables
    <3>3. [invite[target[r]] EXCEPT !.state = "accepted"].state = "accepted"
      BY <3>1, AcceptedRow
    <3>4. QED
      BY <1>0, <3>1, <3>2, <3>3
  <2>2. \A q \in Reqs : pc'[q] = "plain" =>
            pc[q] = "plain" /\ addr'[q] = addr[q] /\ since'[q] = since[q]
    BY <1>0, <1>11 DEF Join, Refuse, Answer, Goto, Set
  <2>3. QED
    BY <1>0, <2>1, <2>2
<1>12. ASSUME NEW r \in Reqs, \E t \in mailed : Decline(r, t) PROVE PlainInv'
  BY <1>0, <1>12 DEF Decline, Answer, Refuse, Goto, Set, Pending, tables, locals, history
<1>13. ASSUME NEW r \in Reqs, FindDeclined(r) PROVE PlainInv'
  BY <1>0, <1>13 DEF FindDeclined, Answer, Refuse, Goto, Set, Find, tables, locals,
     history
<1>14. ASSUME NEW r \in Reqs, \E i \in Invites : Withdraw(r, i) PROVE PlainInv'
  BY <1>0, <1>14 DEF Withdraw, Answer, Refuse, Goto, Set, Find, tables, locals, history
<1>15. ASSUME NEW r \in Reqs, Delete(r) PROVE PlainInv'
  BY <1>0, <1>15 DEF Delete, Answer, Refuse, Goto, Set, tables, locals, history
<1>16. ASSUME NEW r \in Reqs, \E u \in Users, e \in Emails : Register(r, u, e)
      PROVE  PlainInv'
  BY <1>0, <1>16 DEF Register, Answer, Goto, Set, tables, locals, history
<1>17. ASSUME NEW r \in Reqs, CheckRows(r) PROVE PlainInv'
  BY <1>0, <1>17 DEF CheckRows, Refuse, Answer, Goto, Set, LookedAfter, tables, locals, history
<1>18. ASSUME NEW r \in Reqs, JoinPlain(r) PROVE PlainInv'
  BY <1>0, <1>18 DEF JoinPlain, Answer, Goto, Set, LookedAfter
<1>19. ASSUME NEW r \in Reqs, Abandon(r) PROVE PlainInv'
  BY <1>0, <1>19 DEF Abandon, Answer, Refuse, Goto, Set, tables, locals, history
<1>20. ASSUME \E i \in Invites : Expire(i) PROVE PlainInv'
  BY <1>0, <1>20 DEF Expire, tables, locals, history
<1>21. ASSUME \E q \in Roles : DeleteRole(q) PROVE PlainInv'
  BY <1>0, <1>21 DEF DeleteRole, tables, locals, history
<1>22. ASSUME DeleteOrganization PROVE PlainInv'
  BY <1>0, <1>22 DEF DeleteOrganization, tables, locals, history
<1>23. ASSUME \E u \in Users : RemoveMember(u) PROVE PlainInv'
  BY <1>0, <1>23 DEF RemoveMember, Set, tables, locals, history
<1>24. ASSUME \E u \in Users, e \in Emails : ChangeEmail(u, e) PROVE PlainInv'
  BY <1>0, <1>24 DEF ChangeEmail, Set, tables, locals, history
<1>25. QED
  BY <1>0, <1>1, <1>2, <1>3, <1>4, <1>5, <1>6, <1>7, <1>8, <1>9, <1>10, <1>11, <1>12,
     <1>13, <1>14, <1>15, <1>16, <1>17, <1>18, <1>19, <1>20, <1>21, <1>22, <1>23, <1>24
     DEF Next, InviteStep, AcceptStep, EndStep, RegisterStep, OthersStep

\* Each step makes no membership by an offer whose end was answered.
LEMMA EndedAdmitsStep ==
    TypeOK /\ HeldInv /\ LockInv /\ EndedInv /\ Next =>
        \A i \in ended, q \in Reqs : <<i, q>> \in joined' => <<i, q>> \in joined
<1>0. SUFFICES ASSUME TypeOK /\ HeldInv /\ LockInv /\ EndedInv, Next,
                NEW r \in Reqs, Joins(r)
         PROVE  \A i \in ended, q \in Reqs : <<i, q>> \in joined' => <<i, q>> \in joined
  BY WritersStep DEF Writes, SparesRows, Makes, Renews, Deletes, Ages, Drops
<1>1. target[r] \notin ended
  BY <1>0 DEF Joins, LockInv, EndedInv, Holding
<1>2. QED
  BY <1>0, <1>1 DEF Joins

\* Each step that makes a membership gives it the roles of the offer.
LEMMA OfferedStep ==
    TypeOK /\ HeldInv /\ WantedInv /\ Next =>
        \A i \in Invites, q \in Reqs :
            <<i, q>> \in joined' \ joined => holds'[who[q]] = promised[i] \cap role
<1>0. SUFFICES ASSUME TypeOK /\ HeldInv /\ WantedInv, Next,
                NEW r \in Reqs, Joins(r)
         PROVE  \A i \in Invites, q \in Reqs :
            <<i, q>> \in joined' \ joined => holds'[who[q]] = promised[i] \cap role
  BY WritersStep DEF Writes, SparesRows, Makes, Renews, Deletes, Ages, Drops
<1>1. who[r] \in Users
  BY <1>0 DEF Joins, HeldInv, Holding, Registered
<1>2. holds'[who[r]] = wanted[r] /\ joined' = joined \cup {<<target[r], r>>}
  BY <1>0, <1>1 DEF TypeOK, Joins
<1>3. wanted[r] = promised[target[r]] \cap role
  BY <1>0 DEF Joins, WantedInv
<1>4. QED
  BY <1>2, <1>3

(***************************************************************************)
(* Induction                                                               *)
(***************************************************************************)

\* The parts are all of TypeOK.
LEMMA Parts ==
    /\ LiveShape /\ AccountShape /\ HoldShape /\ RowShape /\ UniqueShape
    /\ LocalShape /\ NumberShape /\ HistoryShape
    <=> TypeOK
  BY DEF LiveShape, AccountShape, HoldShape, RowShape, UniqueShape, LocalShape,
         NumberShape, HistoryShape, TypeOK

\* Before the first request the invariant holds.
LEMMA InitIInv == Init => IInv
<1> SUFFICES ASSUME Init PROVE IInv
  OBVIOUS
<1> USE NoneAssumption, BoundAssumption
<1>1. TypeOK
  <2>1. LiveShape
    BY DEF Init, LiveShape
  <2>2. AccountShape
    BY DEF Init, AccountShape, Registered
  <2>3. HoldShape
    BY DEF Init, HoldShape
  <2>4. \A i \in Invites : invite[i].state = "unused" /\ ~Present(i)
    BY DEF Init, Present
  <2>5. RowShape
    BY <2>4 DEF Init, RowShape, Row
  <2>6. UniqueShape
    BY <2>4 DEF UniqueShape
  <2>7. LocalShape
    BY DEF Init, LocalShape, Pcs
  <2>8. NumberShape /\ HistoryShape
    BY DEF Init, NumberShape, HistoryShape
  <2>9. QED
    BY <2>1, <2>2, <2>3, <2>5, <2>6, <2>7, <2>8, Parts
<1>2. HeldInv /\ LockInv /\ WantedInv /\ PlainInv
  BY DEF Init, HeldInv, LockInv, WantedInv, PlainInv, Holding
<1>3. TokenInv /\ OfferInv
  BY DEF Init, TokenInv, OfferInv, Present
<1>4. SpentInv /\ EndedInv /\ OneMembershipPerInvitation
  BY DEF Init, SpentInv, EndedInv, OneMembershipPerInvitation
<1>5. QED
  BY <1>1, <1>2, <1>3, <1>4 DEF IInv

\* Every step keeps the invariant.
LEMMA NextIInv == IInv /\ [Next]_vars => IInv'
<1> SUFFICES ASSUME IInv, [Next]_vars PROVE IInv'
  OBVIOUS
<1>1. CASE Next
  <2>1. AccountShape' /\ HoldShape' /\ RowShape' /\ UniqueShape'
    BY <1>1, AccountStep, HoldStep, RowStep, UniqueStep DEF IInv
  <2>2. TypeOK /\ HeldInv /\ LiveShape
    BY DEF IInv, TypeOK, LiveShape
  <2>3. LiveShape'
    <3>1. live' = live \/ live' = FALSE
      BY <1>1, LiveStep
    <3>2. QED
      BY <2>2, <3>1, Zenon DEF LiveShape
  <2>4. LocalShape' /\ NumberShape' /\ HistoryShape'
    BY <1>1, <2>2, LocalStep, NumberStep, HistoryStep
  <2>5. TypeOK'
    BY <2>1, <2>3, <2>4, Parts, PTL
  <2>6. HeldInv' /\ LockInv' /\ TokenInv' /\ SpentInv' /\ EndedInv'
    BY <1>1, HeldStep, LockStep, TokenStep, SpentStep, EndedStep DEF IInv
  <2>7. OfferInv' /\ WantedInv' /\ PlainInv' /\ OneMembershipPerInvitation'
    BY <1>1, OfferStep, WantedStep, PlainStep, OnceStep DEF IInv
  <2>8. QED
    BY <2>5, <2>6, <2>7 DEF IInv
<1>2. CASE UNCHANGED vars
  <2> USE <1>2 DEF vars, tables, locals, history
  <2>1. TypeOK'
    BY DEF IInv, TypeOK, Registered, Present
  <2>2. HeldInv' /\ LockInv' /\ WantedInv'
    BY DEF IInv, HeldInv, LockInv, WantedInv, Registered
  <2>3. TokenInv' /\ OfferInv' /\ PlainInv'
    BY DEF IInv, TokenInv, OfferInv, PlainInv, OfferedTo, Present
  <2>4. SpentInv' /\ EndedInv' /\ OneMembershipPerInvitation'
    BY DEF IInv, SpentInv, EndedInv, OneMembershipPerInvitation
  <2>5. QED
    BY <2>1, <2>2, <2>3, <2>4 DEF IInv
<1>3. QED
  BY <1>1, <1>2

(***************************************************************************)
(* Theorems                                                                *)
(***************************************************************************)

\* The invariant holds in every state the operations on invitations reach.
THEOREM Inductive == Spec => []IInv
  BY InitIInv, NextIInv, PTL DEF Spec

\* No two rows have one address or one token, and no role is held or offered that
\* is deleted (Invite, ReissueInvitation, DeleteRole).
THEOREM TypeCorrect == Spec => []TypeOK
<1>1. IInv => TypeOK
  BY DEF IInv
<1>2. QED
  BY <1>1, Inductive, PTL

\* However many requests present a link at once, an invitation makes one membership,
\* and none while its row is open (AcceptInvitation).
THEOREM OneMembership == Spec => []OneMembershipPerInvitation
<1>1. IInv => OneMembershipPerInvitation
  BY DEF IInv
<1>2. QED
  BY <1>1, Inductive, PTL

\* Nobody joins by an offer whose refusal or withdrawal was answered, not even a
\* request that found it before (DeclineInvitation, RevokeInvitation).
THEOREM EndedForGood == Spec => EndedOfferAdmitsNobody
<1>1. IInv /\ [Next]_vars =>
        [\A i \in ended, r \in Reqs : <<i, r>> \in joined' => <<i, r>> \in joined]_vars
  BY EndedAdmitsStep DEF IInv
<1>2. QED
  BY <1>1, Inductive, PTL DEF Spec, EndedOfferAdmitsNobody

\* A membership starts with the roles of its offer that still exist: a role deleted
\* between the reading of the offer and the commit undoes the acceptance.
THEOREM OfferedRoles == Spec => JoinsWithWhatWasOffered
<1>1. IInv /\ [Next]_vars =>
        [\A i \in Invites, r \in Reqs :
            <<i, r>> \in joined' \ joined
                => holds'[who[r]] = promised[i] \cap role]_vars
  BY OfferedStep DEF IInv
<1>2. QED
  BY <1>1, Inductive, PTL DEF Spec, JoinsWithWhatWasOffered

\* A registration makes nobody a plain member over an offer that stood before the
\* account (JoinDefaultOrganization).
THEOREM OfferKept == Spec => OfferIsNotPreempted
<1>1. IInv =>
        \A r \in Reqs :
            JoinPlain(r) /\ who[r] \notin members
                => \A i \in OfferedTo(addr[r]) : invite[i].token > since[r]
  BY DEF IInv, PlainInv, JoinPlain
<1>2. IInv /\ [Next]_vars =>
        [\A r \in Reqs :
            JoinPlain(r) /\ who[r] \notin members
                => \A i \in OfferedTo(addr[r]) : invite[i].token > since[r]]_vars
  BY <1>1
<1>3. QED
  BY <1>2, Inductive, PTL DEF Spec, OfferIsNotPreempted

=============================================================================
