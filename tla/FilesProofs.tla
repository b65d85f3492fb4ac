----------------------------- MODULE FilesProofs -----------------------------
(***************************************************************************)
(* Proofs about Files, for any number of accounts, files and requests.     *)
(*                                                                         *)
(* The argument.  (1) From its id until it is in the table and, if it is a *)
(* photo, attached, a file is held by the request that makes it and by     *)
(* nobody else.  After that others may find it, even if the request was    *)
(* told that it failed; but only its maker takes it back without setting   *)
(* out to delete it, and that answers with an error.  (2) A photo becomes  *)
(* an account's only while nobody else holds it.  So a photo that was      *)
(* detached or replaced is nobody's for good, and may be removed however   *)
(* long its request takes.                                                 *)
(***************************************************************************)
EXTENDS Files, TLAPS

(***************************************************************************)
(* The inductive invariant                                                 *)
(***************************************************************************)

\* Where the request's file is one it is making,
Making == {"put", "insert", "attach", "point"}

\* ... one it takes back,
Undoing == {"unrow", "unput"}

\* ... and one that has replaced another, which it holds as well.
Replacing == {"removeprevious", "dropprevious"}

\* What requests hold are files that have an owner, and a photo to be replaced is of
\* the same account as the one that replaces it.
HoldInv ==
    \A r \in Reqs :
        /\ ~Busy(r) => file[r] = None /\ previous[r] = None
        /\ Busy(r) => file[r] \in FileIds /\ owner[file[r]] # None
        /\ previous[r] # None =>
              /\ pc[r] \in {"point"} \cup Undoing \cup Replacing
              /\ owner[file[r]] \in Users
              /\ owner[previous[r]] = owner[file[r]]
        /\ pc[r] \in {"attach", "point", "unrow", "clear"} => owner[file[r]] \in Users

\* A file has one maker, who has not answered yet; while it is being made nobody else
\* holds it, and it is no photo yet.
MakeInv ==
    \A r \in Reqs :
        /\ pc[r] \in Making \cup Undoing \cup Replacing =>
              /\ file[r] \notin stored
              /\ \A s \in Reqs : s # r /\ pc[s] \in Making \cup Undoing \cup Replacing
                    => file[s] # file[r]
        /\ pc[r] \in Making =>
              /\ file[r] \notin gone
              /\ \A u \in Users : avatar[u] # file[r]
              /\ \A s \in Reqs : previous[s] # file[r] /\ (s # r => file[s] # file[r])

\* How far it is.
PlaceInv ==
    \A r \in Reqs :
        /\ pc[r] \in {"put", "insert"} => file[r] \notin row
        /\ pc[r] = "insert" => file[r] \in blob
        /\ pc[r] \in {"attach", "point"} => file[r] \in blob \cap row
        /\ pc[r] = "unput" => file[r] \notin row \ stranded
        /\ pc[r] \in Replacing => file[r] \in (blob \cap row) \cup parting

\* What is about to be removed is no photo any more, and stays removed.
AwayInv ==
    \A r \in Reqs :
        /\ pc[r] \in Replacing =>
              previous[r] # None /\ \A u \in Users : avatar[u] # previous[r]
        /\ pc[r] = "dropprevious" => previous[r] \in parting
        /\ pc[r] \in {"remove", "drop"} => \A u \in Users : avatar[u] # file[r]
        /\ pc[r] = "drop" => file[r] \in parting \ blob

\* What was answered to be stored or deleted is somebody's.
OwnedInv == \A f \in stored \cup gone : owner[f] # None

\* Complete and reachable, or not there at all.
Whole(f) ==
    /\ f \in blob <=> f \in row
    /\ f \in row /\ owner[f] \in Users => avatar[owner[f]] = f

\* The rest holds while nothing fails and changes of one photo do not overlap.  One
\* request at a time is about an account's photo.
AloneInv ==
    ~disturbed => \A r, s \in Reqs :
        Busy(r) /\ Busy(s) /\ r # s /\ owner[file[r]] \in Users
            => owner[file[s]] # owner[file[r]]

\* What nobody holds is whole.
UnheldInv ==
    ~disturbed => \A f \in FileIds :
        (\A r \in Reqs : f # file[r] /\ f # previous[r]) => Whole(f)

\* What is held is as far as its request says.
HeldInv ==
    ~disturbed => \A r \in Reqs :
        /\ pc[r] = "put" => file[r] \notin blob \cup row
        /\ pc[r] = "unput" => file[r] \notin row
        /\ pc[r] = "point" => avatar[owner[file[r]]] = previous[r]
        /\ pc[r] \in Undoing =>
              owner[file[r]] \in Users /\ \A u \in Users : avatar[u] # file[r]
        /\ pc[r] \in Undoing /\ previous[r] # None
              => avatar[owner[file[r]]] = previous[r]
        /\ pc[r] \in Replacing \cup {"clear"} => avatar[owner[file[r]]] = file[r]
        /\ pc[r] = "dropprevious" => previous[r] \notin blob

\* Nothing is left in the table by an upload that failed.
StrandedInv == ~disturbed => stranded = {}

WholeInv == AloneInv /\ UnheldInv /\ HeldInv /\ StrandedInv

\* A file is made by one request.
MakingInv == HoldInv /\ MakeInv /\ PlaceInv /\ OwnedInv

\* What is removed is nobody's.
RemovingInv ==
    /\ AwayInv
    /\ AvatarIsThere /\ RowHasItsBlob /\ StoredIsThere
    /\ DeletedMeansGone /\ DeletionCanBeRepeated

IInv == TypeOK /\ MakingInv /\ RemovingInv /\ WholeInv

(***************************************************************************)
(* Its steps                                                               *)
(***************************************************************************)

\* TypeOK but for the flag.
Shape ==
    /\ blob \subseteq FileIds
    /\ row \subseteq FileIds
    /\ owner \in [FileIds -> Users \cup {Org, None}]
    /\ \A f \in row \cup blob : owner[f] # None
    /\ avatar \in [Users -> row \cup {None}]
    /\ \A u \in Users : avatar[u] # None => owner[avatar[u]] = u
    /\ retired \subseteq Users
    /\ pc \in [Reqs -> Pcs]
    /\ file \in [Reqs -> FileIds \cup {None}]
    /\ previous \in [Reqs -> FileIds \cup {None}]
    /\ stored \cup parting \cup gone \cup stranded \subseteq FileIds

\* Each step keeps both stores and the requests well-formed.
LEMMA ShapeStep == IInv /\ Next => Shape'
<1> USE NoneAssumption DEF IInv, TypeOK, Shape, Pcs, MakingInv, HoldInv, PlaceInv,
       Busy, Making, Undoing, RemovingInv, AwayInv, Replacing
<1>0. SUFFICES ASSUME IInv, Next PROVE Shape'
  OBVIOUS
<1>1. ASSUME NEW r \in Reqs, \E f \in FileIds, o \in Users \cup {Org} : Upload(r, f, o)
     PROVE  Shape'
  BY <1>0, <1>1 DEF Upload, Answer, Goto, Stay, Refuse, stores, history, Changing
<1>2. ASSUME NEW r \in Reqs, Put(r) PROVE Shape'
  BY <1>0, <1>2 DEF Put, Answer, Goto, Fail, Err, stores, history
<1>3. ASSUME NEW r \in Reqs, Insert(r) PROVE Shape'
  BY <1>0, <1>3 DEF Insert, Store, Answer, Goto, Fail, Err, stores, history
<1>4. ASSUME NEW r \in Reqs, Unput(r) PROVE Shape'
  BY <1>0, <1>4 DEF Unput, Answer, Goto
<1>5. ASSUME NEW r \in Reqs, Attach(r) PROVE Shape'
  BY <1>0, <1>5 DEF Attach, Answer, Goto, Stay, Fail, Err, stores, history
<1>6. ASSUME NEW r \in Reqs, Point(r) PROVE Shape'
  BY <1>0, <1>6 DEF Point, Store, Answer, Goto, Stay, Fail, Err, stores, history
<1>7. ASSUME NEW r \in Reqs, Unrow(r) PROVE Shape'
  BY <1>0, <1>7 DEF Unrow, Answer, Goto, Err, DropRow, stores, history
<1>8. ASSUME NEW r \in Reqs, RemovePrevious(r) PROVE Shape'
  BY <1>0, <1>8 DEF RemovePrevious, Goto
<1>9. ASSUME NEW r \in Reqs, DropPrevious(r) PROVE Shape'
  BY <1>0, <1>9 DEF DropPrevious, Store, Answer, Goto, DropRow
<1>10. ASSUME NEW r \in Reqs, \E f \in FileIds : FindFile(r, f)
     PROVE  Shape'
  BY <1>0, <1>10 DEF FindFile, Answer, Goto, Stay, Refuse, stores, history
<1>11. ASSUME NEW r \in Reqs, \E u \in Users : Detach(r, u) PROVE Shape'
  BY <1>0, <1>11 DEF Detach, Answer, Goto, Stay, Refuse, stores, history, Changing
<1>12. ASSUME NEW r \in Reqs, Clear(r) PROVE Shape'
  BY <1>0, <1>12 DEF Clear, Answer, Goto, Stay, Refuse, Fail, Err, stores, history
<1>13. ASSUME NEW r \in Reqs, Remove(r) PROVE Shape'
  BY <1>0, <1>13 DEF Remove, Answer, Goto, Fail, Err, stores, history
<1>14. ASSUME NEW r \in Reqs, Drop(r) PROVE Shape'
  BY <1>0, <1>14 DEF Drop, Answer, Goto, Stay, Refuse, Fail, Err, DropRow, stores, history
<1>15. ASSUME NEW r \in Reqs, Crash(r) PROVE Shape'
  BY <1>0, <1>15 DEF Crash, Answer, Goto, Fail, Err, stores, history
<1>16. ASSUME NEW u \in Users, DeleteUser(u) PROVE Shape'
  BY <1>0, <1>16 DEF DeleteUser, stores, history
<1>17. QED
  BY <1>0, <1>1, <1>2, <1>3, <1>4, <1>5, <1>6, <1>7, <1>8, <1>9, <1>10, <1>11,
     <1>12, <1>13, <1>14, <1>15, <1>16
     DEF Next, StoreStep, DeleteStep

\* Each step leaves the flag one.
LEMMA FlagStep == TypeOK /\ Next => disturbed' \in BOOLEAN
<1>0. SUFFICES ASSUME TypeOK, Next PROVE disturbed' \in BOOLEAN
  OBVIOUS
<1>1. ASSUME NEW r \in Reqs, \E f \in FileIds, o \in Users \cup {Org} : Upload(r, f, o)
     PROVE  disturbed' \in BOOLEAN
  BY <1>0, <1>1, Zenon DEF TypeOK, Upload, Refuse, Stay, history
<1>2. ASSUME NEW r \in Reqs, Put(r) PROVE disturbed' \in BOOLEAN
  BY <1>0, <1>2, Zenon DEF TypeOK, Put, Fail, Err, history
<1>3. ASSUME NEW r \in Reqs, Insert(r) PROVE disturbed' \in BOOLEAN
  BY <1>0, <1>3, Zenon DEF TypeOK, Insert, Store, Fail, Err, history
<1>4. ASSUME NEW r \in Reqs, Unput(r) PROVE disturbed' \in BOOLEAN
  BY <1>0, <1>4, Zenon DEF TypeOK, Unput
<1>5. ASSUME NEW r \in Reqs, Attach(r) PROVE disturbed' \in BOOLEAN
  BY <1>0, <1>5, Zenon DEF TypeOK, Attach, Fail, Err, Stay, history
<1>6. ASSUME NEW r \in Reqs, Point(r) PROVE disturbed' \in BOOLEAN
  BY <1>0, <1>6, Zenon DEF TypeOK, Point, Store, Fail, Err, Stay, history
<1>7. ASSUME NEW r \in Reqs, Unrow(r) PROVE disturbed' \in BOOLEAN
  BY <1>0, <1>7, Zenon DEF TypeOK, Unrow, Fail, Err, history
<1>8. ASSUME NEW r \in Reqs, RemovePrevious(r) PROVE disturbed' \in BOOLEAN
  BY <1>0, <1>8, Zenon DEF TypeOK, RemovePrevious
<1>9. ASSUME NEW r \in Reqs, DropPrevious(r) PROVE disturbed' \in BOOLEAN
  BY <1>0, <1>9, Zenon DEF TypeOK, DropPrevious
<1>10. ASSUME NEW r \in Reqs, \E f \in FileIds : FindFile(r, f)
     PROVE  disturbed' \in BOOLEAN
  BY <1>0, <1>10, Zenon DEF TypeOK, FindFile, Refuse, Stay, history
<1>11. ASSUME NEW r \in Reqs, \E u \in Users : Detach(r, u)
     PROVE  disturbed' \in BOOLEAN
  BY <1>0, <1>11, Zenon DEF TypeOK, Detach, Refuse, Stay, history
<1>12. ASSUME NEW r \in Reqs, Clear(r) PROVE disturbed' \in BOOLEAN
  BY <1>0, <1>12, Zenon DEF TypeOK, Clear, Fail, Err, Refuse, Stay, history
<1>13. ASSUME NEW r \in Reqs, Remove(r) PROVE disturbed' \in BOOLEAN
  BY <1>0, <1>13, Zenon DEF TypeOK, Remove, Fail, Err
<1>14. ASSUME NEW r \in Reqs, Drop(r) PROVE disturbed' \in BOOLEAN
  BY <1>0, <1>14, Zenon DEF TypeOK, Drop, Fail, Err, Refuse, Stay, history
<1>15. ASSUME NEW r \in Reqs, Crash(r) PROVE disturbed' \in BOOLEAN
  BY <1>15 DEF Crash, Fail, Err
<1>16. ASSUME NEW u \in Users, DeleteUser(u) PROVE disturbed' \in BOOLEAN
  BY <1>0, <1>16 DEF TypeOK, DeleteUser, history
<1>17. QED
  BY <1>0, <1>1, <1>2, <1>3, <1>4, <1>5, <1>6, <1>7, <1>8, <1>9, <1>10, <1>11,
     <1>12, <1>13, <1>14, <1>15, <1>16
     DEF Next, StoreStep, DeleteStep

\* Each step leaves a file that is being made to its one request.
LEMMA MakingStep == IInv /\ Next => MakingInv'
<1> USE NoneAssumption DEF IInv, TypeOK, MakingInv, HoldInv, MakeInv, PlaceInv, OwnedInv,
       Making, Undoing, Busy, RemovingInv, AwayInv, DeletedMeansGone, Replacing
<1>0. SUFFICES ASSUME IInv, Next PROVE MakingInv'
  OBVIOUS
<1>1. ASSUME NEW r \in Reqs, \E f \in FileIds, o \in Users \cup {Org} : Upload(r, f, o)
     PROVE  MakingInv'
  BY <1>0, <1>1 DEF Upload, Answer, Goto, Stay, Refuse, stores, history, Busy, Changing
<1>2. ASSUME NEW r \in Reqs, Put(r) PROVE MakingInv'
  BY <1>0, <1>2 DEF Put, Answer, Goto, Fail, Err, stores, history
<1>3. ASSUME NEW r \in Reqs, Insert(r) PROVE MakingInv'
  BY <1>0, <1>3 DEF Insert, Store, Answer, Goto, Fail, Err, stores, history
<1>4. ASSUME NEW r \in Reqs, Unput(r) PROVE MakingInv'
  BY <1>0, <1>4 DEF Unput, Answer, Goto
<1>5. ASSUME NEW r \in Reqs, Attach(r) PROVE MakingInv'
  BY <1>0, <1>5 DEF Attach, Answer, Goto, Stay, Fail, Err, stores, history
<1>6. ASSUME NEW r \in Reqs, Point(r) PROVE MakingInv'
  BY <1>0, <1>6 DEF Point, Store, Answer, Goto, Stay, Fail, Err, stores, history
<1>7. ASSUME NEW r \in Reqs, Unrow(r) PROVE MakingInv'
  BY <1>0, <1>7 DEF Unrow, Answer, Goto, Err, DropRow, stores, history
<1>8. ASSUME NEW r \in Reqs, RemovePrevious(r) PROVE MakingInv'
  BY <1>0, <1>8 DEF RemovePrevious, Goto
<1>9. ASSUME NEW r \in Reqs, DropPrevious(r) PROVE MakingInv'
  BY <1>0, <1>9 DEF DropPrevious, Store, Answer, Goto, DropRow
<1>10. ASSUME NEW r \in Reqs, \E f \in FileIds : FindFile(r, f)
     PROVE  MakingInv'
  BY <1>0, <1>10 DEF FindFile, Answer, Goto, Stay, Refuse, stores, history
<1>11. ASSUME NEW r \in Reqs, \E u \in Users : Detach(r, u) PROVE MakingInv'
  BY <1>0, <1>11 DEF Detach, Answer, Goto, Stay, Refuse, stores, history, Busy, Changing
<1>12. ASSUME NEW r \in Reqs, Clear(r) PROVE MakingInv'
  BY <1>0, <1>12 DEF Clear, Answer, Goto, Stay, Refuse, Fail, Err, stores, history
<1>13. ASSUME NEW r \in Reqs, Remove(r) PROVE MakingInv'
  BY <1>0, <1>13 DEF Remove, Answer, Goto, Fail, Err, stores, history
<1>14. ASSUME NEW r \in Reqs, Drop(r) PROVE MakingInv'
  BY <1>0, <1>14 DEF Drop, Answer, Goto, Stay, Refuse, Fail, Err, DropRow, stores, history
<1>15. ASSUME NEW r \in Reqs, Crash(r) PROVE MakingInv'
  BY <1>0, <1>15 DEF Crash, Answer, Goto, Fail, Err, stores, history, Busy
<1>16. ASSUME NEW u \in Users, DeleteUser(u) PROVE MakingInv'
  BY <1>0, <1>16 DEF DeleteUser, stores, history
<1>17. QED
  BY <1>0, <1>1, <1>2, <1>3, <1>4, <1>5, <1>6, <1>7, <1>8, <1>9, <1>10, <1>11,
     <1>12, <1>13, <1>14, <1>15, <1>16
     DEF Next, StoreStep, DeleteStep

\* Each step removes only what is nobody's photo and not being made.
LEMMA RemovingStep == IInv /\ Next => RemovingInv'
<1> USE NoneAssumption DEF IInv, TypeOK, MakingInv, HoldInv, MakeInv, PlaceInv, OwnedInv,
       Making, Undoing, Busy, Replacing, RemovingInv, AwayInv, AvatarIsThere, RowHasItsBlob,
       StoredIsThere, DeletedMeansGone, DeletionCanBeRepeated
<1>0. SUFFICES ASSUME IInv, Next PROVE RemovingInv'
  OBVIOUS
<1>1. ASSUME NEW r \in Reqs, \E f \in FileIds, o \in Users \cup {Org} : Upload(r, f, o)
     PROVE  RemovingInv'
  BY <1>0, <1>1 DEF Upload, Answer, Goto, Stay, Refuse, stores, history, Busy, Changing
<1>2. ASSUME NEW r \in Reqs, Put(r) PROVE RemovingInv'
  BY <1>0, <1>2 DEF Put, Answer, Goto, Fail, Err, stores, history
<1>3. ASSUME NEW r \in Reqs, Insert(r) PROVE RemovingInv'
  BY <1>0, <1>3 DEF Insert, Store, Answer, Goto, Fail, Err, stores, history
<1>4. ASSUME NEW r \in Reqs, Unput(r) PROVE RemovingInv'
  BY <1>0, <1>4 DEF Unput, Answer, Goto
<1>5. ASSUME NEW r \in Reqs, Attach(r) PROVE RemovingInv'
  BY <1>0, <1>5 DEF Attach, Answer, Goto, Stay, Fail, Err, stores, history
<1>6. ASSUME NEW r \in Reqs, Point(r) PROVE RemovingInv'
  BY <1>0, <1>6 DEF Point, Store, Answer, Goto, Stay, Fail, Err, stores, history
<1>7. ASSUME NEW r \in Reqs, Unrow(r) PROVE RemovingInv'
  BY <1>0, <1>7 DEF Unrow, Answer, Goto, Err, DropRow, stores, history
<1>8. ASSUME NEW r \in Reqs, RemovePrevious(r) PROVE RemovingInv'
  BY <1>0, <1>8 DEF RemovePrevious, Goto
<1>9. ASSUME NEW r \in Reqs, DropPrevious(r) PROVE RemovingInv'
  BY <1>0, <1>9 DEF DropPrevious, Store, Answer, Goto, DropRow
<1>10. ASSUME NEW r \in Reqs, \E f \in FileIds : FindFile(r, f)
     PROVE  RemovingInv'
  BY <1>0, <1>10 DEF FindFile, Answer, Goto, Stay, Refuse, stores, history
<1>11. ASSUME NEW r \in Reqs, \E u \in Users : Detach(r, u) PROVE RemovingInv'
  BY <1>0, <1>11 DEF Detach, Answer, Goto, Stay, Refuse, stores, history, Busy, Changing
<1>12. ASSUME NEW r \in Reqs, Clear(r) PROVE RemovingInv'
  BY <1>0, <1>12 DEF Clear, Answer, Goto, Stay, Refuse, Fail, Err, stores, history
<1>13. ASSUME NEW r \in Reqs, Remove(r) PROVE RemovingInv'
  BY <1>0, <1>13 DEF Remove, Answer, Goto, Fail, Err, stores, history
<1>14. ASSUME NEW r \in Reqs, Drop(r) PROVE RemovingInv'
  BY <1>0, <1>14 DEF Drop, Answer, Goto, Stay, Refuse, Fail, Err, DropRow, stores, history
<1>15. ASSUME NEW r \in Reqs, Crash(r) PROVE RemovingInv'
  BY <1>0, <1>15 DEF Crash, Answer, Goto, Fail, Err, stores, history, Busy
<1>16. ASSUME NEW u \in Users, DeleteUser(u) PROVE RemovingInv'
  BY <1>0, <1>16 DEF DeleteUser, stores, history
<1>17. QED
  BY <1>0, <1>1, <1>2, <1>3, <1>4, <1>5, <1>6, <1>7, <1>8, <1>9, <1>10, <1>11,
     <1>12, <1>13, <1>14, <1>15, <1>16
     DEF Next, StoreStep, DeleteStep

\* Each step that begins to change a photo is alone with it, or it is on record.
LEMMA AloneStep == IInv /\ Next => AloneInv'
<1> USE NoneAssumption DEF IInv, TypeOK, MakingInv, HoldInv, Busy, WholeInv, AloneInv
<1>0. SUFFICES ASSUME IInv, Next PROVE AloneInv'
  OBVIOUS
<1>1. ASSUME NEW r \in Reqs, NEW f \in FileIds, NEW o \in Users \cup {Org},
             Upload(r, f, o)
      PROVE  AloneInv'
  <2>1. CASE Refuse(r)
    BY <1>0, <2>1 DEF Refuse, Answer, Goto, Stay, stores, history
  <2>2. CASE ~Refuse(r)
    <3>1. ~disturbed' => ~disturbed /\ ~Changing(o)
      BY <1>1, <2>2, Zenon DEF Upload
    <3>2. QED
      BY <1>0, <1>1, <2>2, <3>1 DEF Upload, Goto, stores, Changing
  <2>3. QED
    BY <2>1, <2>2
<1>2. ASSUME NEW r \in Reqs, Put(r) PROVE AloneInv'
  BY <1>0, <1>2 DEF Put, Answer, Goto, Fail, Err, stores, history
<1>3. ASSUME NEW r \in Reqs, Insert(r) PROVE AloneInv'
  BY <1>0, <1>3 DEF Insert, Store, Answer, Goto, Fail, Err, stores, history
<1>4. ASSUME NEW r \in Reqs, Unput(r) PROVE AloneInv'
  BY <1>0, <1>4 DEF Unput, Answer, Goto
<1>5. ASSUME NEW r \in Reqs, Attach(r) PROVE AloneInv'
  BY <1>0, <1>5 DEF Attach, Answer, Goto, Stay, Fail, Err, stores, history
<1>6. ASSUME NEW r \in Reqs, Point(r) PROVE AloneInv'
  BY <1>0, <1>6 DEF Point, Store, Answer, Goto, Stay, Fail, Err, stores, history
<1>7. ASSUME NEW r \in Reqs, Unrow(r) PROVE AloneInv'
  BY <1>0, <1>7 DEF Unrow, Answer, Goto, Err, DropRow, stores, history
<1>8. ASSUME NEW r \in Reqs, RemovePrevious(r) PROVE AloneInv'
  BY <1>0, <1>8 DEF RemovePrevious, Goto
<1>9. ASSUME NEW r \in Reqs, DropPrevious(r) PROVE AloneInv'
  BY <1>0, <1>9 DEF DropPrevious, Store, Answer, Goto, DropRow
<1>10. ASSUME NEW r \in Reqs, \E f \in FileIds : FindFile(r, f)
     PROVE  AloneInv'
  BY <1>0, <1>10 DEF FindFile, Answer, Goto, Stay, Refuse, stores, history
<1>11. ASSUME NEW r \in Reqs, NEW u \in Users, Detach(r, u) PROVE AloneInv'
  <2>1. CASE Refuse(r)
    BY <1>0, <2>1 DEF Refuse, Answer, Goto, Stay, stores, history
  <2>2. CASE ~Refuse(r)
    <3>1. ~disturbed' => ~disturbed /\ ~Changing(u)
      BY <1>11, <2>2, Zenon DEF Detach
    <3>2. QED
      BY <1>0, <1>11, <2>2, <3>1 DEF Detach, Goto, stores, Changing
  <2>3. QED
    BY <2>1, <2>2
<1>12. ASSUME NEW r \in Reqs, Clear(r) PROVE AloneInv'
  BY <1>0, <1>12 DEF Clear, Answer, Goto, Stay, Refuse, Fail, Err, stores, history
<1>13. ASSUME NEW r \in Reqs, Remove(r) PROVE AloneInv'
  BY <1>0, <1>13 DEF Remove, Answer, Goto, Fail, Err, stores, history
<1>14. ASSUME NEW r \in Reqs, Drop(r) PROVE AloneInv'
  BY <1>0, <1>14 DEF Drop, Answer, Goto, Stay, Refuse, Fail, Err, DropRow, stores, history
<1>15. ASSUME NEW r \in Reqs, Crash(r) PROVE AloneInv'
  BY <1>0, <1>15 DEF Crash, Answer, Goto, Fail, Err, stores, history
<1>16. ASSUME NEW u \in Users, DeleteUser(u) PROVE AloneInv'
  BY <1>0, <1>16 DEF DeleteUser, stores, history
<1>17. QED
  BY <1>0, <1>1, <1>2, <1>3, <1>4, <1>5, <1>6, <1>7, <1>8, <1>9, <1>10, <1>11,
     <1>12, <1>13, <1>14, <1>15, <1>16
     DEF Next, StoreStep, DeleteStep

\* Each step leaves what it lets go of whole.
LEMMA UnheldStep == IInv /\ Next => UnheldInv'
<1> USE NoneAssumption DEF IInv, TypeOK, MakingInv, HoldInv, MakeInv, PlaceInv, OwnedInv,
       Making, Undoing, Busy, RemovingInv, AwayInv, AvatarIsThere, WholeInv, Whole, Replacing,
       AloneInv, UnheldInv, HeldInv, StrandedInv
<1>0. SUFFICES ASSUME IInv, Next PROVE UnheldInv'
  OBVIOUS
<1>1. ASSUME NEW r \in Reqs, \E f \in FileIds, o \in Users \cup {Org} : Upload(r, f, o)
     PROVE  UnheldInv'
  BY <1>0, <1>1 DEF Upload, Answer, Goto, Stay, Refuse, stores, history, Busy, Changing
<1>2. ASSUME NEW r \in Reqs, Put(r) PROVE UnheldInv'
  BY <1>0, <1>2 DEF Put, Answer, Goto, Fail, Err, stores, history
<1>3. ASSUME NEW r \in Reqs, Insert(r) PROVE UnheldInv'
  BY <1>0, <1>3 DEF Insert, Store, Answer, Goto, Fail, Err, stores, history
<1>4. ASSUME NEW r \in Reqs, Unput(r) PROVE UnheldInv'
  BY <1>0, <1>4 DEF Unput, Answer, Goto
<1>5. ASSUME NEW r \in Reqs, Attach(r) PROVE UnheldInv'
  BY <1>0, <1>5 DEF Attach, Answer, Goto, Stay, Fail, Err, stores, history
<1>6. ASSUME NEW r \in Reqs, Point(r) PROVE UnheldInv'
  BY <1>0, <1>6 DEF Point, Store, Answer, Goto, Stay, Fail, Err, stores, history
<1>7. ASSUME NEW r \in Reqs, Unrow(r) PROVE UnheldInv'
  BY <1>0, <1>7 DEF Unrow, Answer, Goto, Err, DropRow, stores, history
<1>8. ASSUME NEW r \in Reqs, RemovePrevious(r) PROVE UnheldInv'
  BY <1>0, <1>8 DEF RemovePrevious, Goto
<1>9. ASSUME NEW r \in Reqs, DropPrevious(r) PROVE UnheldInv'
  BY <1>0, <1>9 DEF DropPrevious, Store, Answer, Goto, DropRow
<1>10. ASSUME NEW r \in Reqs, \E f \in FileIds : FindFile(r, f)
     PROVE  UnheldInv'
  BY <1>0, <1>10 DEF FindFile, Answer, Goto, Stay, Refuse, stores, history
<1>11. ASSUME NEW r \in Reqs, \E u \in Users : Detach(r, u) PROVE UnheldInv'
  BY <1>0, <1>11 DEF Detach, Answer, Goto, Stay, Refuse, stores, history, Busy, Changing
<1>12. ASSUME NEW r \in Reqs, Clear(r) PROVE UnheldInv'
  BY <1>0, <1>12 DEF Clear, Answer, Goto, Stay, Refuse, Fail, Err, stores, history
<1>13. ASSUME NEW r \in Reqs, Remove(r) PROVE UnheldInv'
  BY <1>0, <1>13 DEF Remove, Answer, Goto, Fail, Err, stores, history
<1>14. ASSUME NEW r \in Reqs, Drop(r) PROVE UnheldInv'
  BY <1>0, <1>14 DEF Drop, Answer, Goto, Stay, Refuse, Fail, Err, DropRow, stores, history
<1>15. ASSUME NEW r \in Reqs, Crash(r) PROVE UnheldInv'
  BY <1>0, <1>15 DEF Crash, Answer, Goto, Fail, Err, stores, history, Busy
<1>16. ASSUME NEW u \in Users, DeleteUser(u) PROVE UnheldInv'
  BY <1>0, <1>16 DEF DeleteUser, stores, history
<1>17. QED
  BY <1>0, <1>1, <1>2, <1>3, <1>4, <1>5, <1>6, <1>7, <1>8, <1>9, <1>10, <1>11,
     <1>12, <1>13, <1>14, <1>15, <1>16
     DEF Next, StoreStep, DeleteStep

\* Each step takes what is held where its request says.
LEMMA HeldStep == IInv /\ Next => HeldInv'
<1> USE NoneAssumption DEF IInv, TypeOK, MakingInv, HoldInv, MakeInv, PlaceInv, OwnedInv,
       Making, Undoing, Busy, RemovingInv, AwayInv, AvatarIsThere, WholeInv, Whole, Replacing,
       AloneInv, UnheldInv, HeldInv, StrandedInv
<1>0. SUFFICES ASSUME IInv, Next PROVE HeldInv'
  OBVIOUS
<1>1. ASSUME NEW r \in Reqs, \E f \in FileIds, o \in Users \cup {Org} : Upload(r, f, o)
     PROVE  HeldInv'
  BY <1>0, <1>1 DEF Upload, Answer, Goto, Stay, Refuse, stores, history, Busy, Changing
<1>2. ASSUME NEW r \in Reqs, Put(r) PROVE HeldInv'
  BY <1>0, <1>2 DEF Put, Answer, Goto, Fail, Err, stores, history
<1>3. ASSUME NEW r \in Reqs, Insert(r) PROVE HeldInv'
  BY <1>0, <1>3 DEF Insert, Store, Answer, Goto, Fail, Err, stores, history
<1>4. ASSUME NEW r \in Reqs, Unput(r) PROVE HeldInv'
  BY <1>0, <1>4 DEF Unput, Answer, Goto
<1>5. ASSUME NEW r \in Reqs, Attach(r) PROVE HeldInv'
  BY <1>0, <1>5 DEF Attach, Answer, Goto, Stay, Fail, Err, stores, history
<1>6. ASSUME NEW r \in Reqs, Point(r) PROVE HeldInv'
  BY <1>0, <1>6 DEF Point, Store, Answer, Goto, Stay, Fail, Err, stores, history
<1>7. ASSUME NEW r \in Reqs, Unrow(r) PROVE HeldInv'
  BY <1>0, <1>7 DEF Unrow, Answer, Goto, Err, DropRow, stores, history
<1>8. ASSUME NEW r \in Reqs, RemovePrevious(r) PROVE HeldInv'
  BY <1>0, <1>8 DEF RemovePrevious, Goto
<1>9. ASSUME NEW r \in Reqs, DropPrevious(r) PROVE HeldInv'
  BY <1>0, <1>9 DEF DropPrevious, Store, Answer, Goto, DropRow
<1>10. ASSUME NEW r \in Reqs, \E f \in FileIds : FindFile(r, f)
     PROVE  HeldInv'
  BY <1>0, <1>10 DEF FindFile, Answer, Goto, Stay, Refuse, stores, history
<1>11. ASSUME NEW r \in Reqs, \E u \in Users : Detach(r, u) PROVE HeldInv'
  BY <1>0, <1>11 DEF Detach, Answer, Goto, Stay, Refuse, stores, history, Busy, Changing
<1>12. ASSUME NEW r \in Reqs, Clear(r) PROVE HeldInv'
  BY <1>0, <1>12 DEF Clear, Answer, Goto, Stay, Refuse, Fail, Err, stores, history
<1>13. ASSUME NEW r \in Reqs, Remove(r) PROVE HeldInv'
  BY <1>0, <1>13 DEF Remove, Answer, Goto, Fail, Err, stores, history
<1>14. ASSUME NEW r \in Reqs, Drop(r) PROVE HeldInv'
  BY <1>0, <1>14 DEF Drop, Answer, Goto, Stay, Refuse, Fail, Err, DropRow, stores, history
<1>15. ASSUME NEW r \in Reqs, Crash(r) PROVE HeldInv'
  BY <1>0, <1>15 DEF Crash, Answer, Goto, Fail, Err, stores, history, Busy
<1>16. ASSUME NEW u \in Users, DeleteUser(u) PROVE HeldInv'
  BY <1>0, <1>16 DEF DeleteUser, stores, history
<1>17. QED
  BY <1>0, <1>1, <1>2, <1>3, <1>4, <1>5, <1>6, <1>7, <1>8, <1>9, <1>10, <1>11,
     <1>12, <1>13, <1>14, <1>15, <1>16
     DEF Next, StoreStep, DeleteStep

\* Each step of an upload that leaves something in the table without saying so is on
\* record.
LEMMA StrandedStep == IInv /\ Next => StrandedInv'
<1> USE DEF IInv, TypeOK, WholeInv, StrandedInv
<1>0. SUFFICES ASSUME IInv, Next PROVE StrandedInv'
  OBVIOUS
<1>1. ASSUME NEW r \in Reqs, \E f \in FileIds, o \in Users \cup {Org} : Upload(r, f, o)
     PROVE  StrandedInv'
  BY <1>0, <1>1 DEF Upload, Refuse, Stay, history
<1>2. ASSUME NEW r \in Reqs, Put(r) PROVE StrandedInv'
  BY <1>0, <1>2, Zenon DEF Put, Fail, Err, history
<1>3. ASSUME NEW r \in Reqs, Insert(r) PROVE StrandedInv'
  BY <1>0, <1>3, Zenon DEF Insert, Fail, Err
<1>4. ASSUME NEW r \in Reqs, Unput(r) PROVE StrandedInv'
  BY <1>0, <1>4 DEF Unput
<1>5. ASSUME NEW r \in Reqs, Attach(r) PROVE StrandedInv'
  BY <1>0, <1>5, Zenon DEF Attach, Fail, Err, Stay, history
<1>6. ASSUME NEW r \in Reqs, Point(r) PROVE StrandedInv'
  BY <1>0, <1>6, Zenon DEF Point, Fail, Err, Stay, history
<1>7. ASSUME NEW r \in Reqs, Unrow(r) PROVE StrandedInv'
  BY <1>0, <1>7 DEF Unrow, Err, history
<1>8. ASSUME NEW r \in Reqs, RemovePrevious(r) PROVE StrandedInv'
  BY <1>0, <1>8 DEF RemovePrevious
<1>9. ASSUME NEW r \in Reqs, DropPrevious(r) PROVE StrandedInv'
  BY <1>0, <1>9 DEF DropPrevious
<1>10. ASSUME NEW r \in Reqs, \E f \in FileIds : FindFile(r, f)
     PROVE  StrandedInv'
  BY <1>0, <1>10 DEF FindFile, Refuse, Stay, history
<1>11. ASSUME NEW r \in Reqs, \E u \in Users : Detach(r, u) PROVE StrandedInv'
  BY <1>0, <1>11 DEF Detach, Refuse, Stay, history
<1>12. ASSUME NEW r \in Reqs, Clear(r) PROVE StrandedInv'
  BY <1>0, <1>12, Zenon DEF Clear, Fail, Err, Refuse, Stay, history
<1>13. ASSUME NEW r \in Reqs, Remove(r) PROVE StrandedInv'
  BY <1>0, <1>13, Zenon DEF Remove, Fail, Err
<1>14. ASSUME NEW r \in Reqs, Drop(r) PROVE StrandedInv'
  BY <1>0, <1>14 DEF Drop, Fail, Err, Refuse, Stay, history
<1>15. ASSUME NEW r \in Reqs, Crash(r) PROVE StrandedInv'
  BY <1>15, Zenon DEF Crash, Fail, Err
<1>16. ASSUME NEW u \in Users, DeleteUser(u) PROVE StrandedInv'
  BY <1>0, <1>16, Zenon DEF DeleteUser, history
<1>17. QED
  BY <1>0, <1>1, <1>2, <1>3, <1>4, <1>5, <1>6, <1>7, <1>8, <1>9, <1>10, <1>11,
     <1>12, <1>13, <1>14, <1>15, <1>16
     DEF Next, StoreStep, DeleteStep

(***************************************************************************)
(* The theorems                                                            *)
(***************************************************************************)

LEMMA InitIInv == Init => IInv
<1> SUFFICES ASSUME Init PROVE IInv
  OBVIOUS
<1>1. TypeOK
  BY DEF Init, TypeOK, Pcs
<1>2. MakingInv
  BY DEF Init, MakingInv, HoldInv, MakeInv, PlaceInv, OwnedInv, Making, Undoing,
     Replacing, Busy
<1>3. RemovingInv
  BY NoneAssumption DEF Init, RemovingInv, AwayInv, AvatarIsThere, RowHasItsBlob,
     StoredIsThere, DeletedMeansGone, DeletionCanBeRepeated, Replacing
<1>4. WholeInv
  BY NoneAssumption DEF Init, WholeInv, AloneInv, UnheldInv, HeldInv, StrandedInv,
     Whole, Busy, Undoing, Replacing
<1>5. QED
  BY <1>1, <1>2, <1>3, <1>4 DEF IInv

LEMMA NextIInv == IInv /\ [Next]_vars => IInv'
<1>1. IInv /\ Next => TypeOK'
  BY ShapeStep, FlagStep DEF IInv, Shape, TypeOK
<1>2. IInv /\ Next => IInv'
  BY <1>1, MakingStep, RemovingStep, AloneStep, UnheldStep, HeldStep, StrandedStep
     DEF IInv, WholeInv
<1>3. IInv /\ UNCHANGED vars => IInv'
  <2> SUFFICES ASSUME IInv, UNCHANGED vars PROVE IInv'
    OBVIOUS
  <2> USE DEF vars, stores, history
  <2>1. TypeOK'
    BY DEF IInv, TypeOK
  <2>2. MakingInv'
    BY DEF IInv, MakingInv, HoldInv, MakeInv, PlaceInv, OwnedInv, Making, Undoing,
       Replacing, Busy
  <2>3. RemovingInv'
    BY DEF IInv, RemovingInv, AwayInv, Replacing, AvatarIsThere, RowHasItsBlob,
       StoredIsThere, DeletedMeansGone, DeletionCanBeRepeated
  <2>4. WholeInv'
    BY DEF IInv, WholeInv, AloneInv, UnheldInv, HeldInv, StrandedInv, Whole, Busy,
       Undoing, Replacing
  <2>5. QED
    BY <2>1, <2>2, <2>3, <2>4 DEF IInv
<1>4. QED
  BY <1>2, <1>3

\* The inductive invariant holds throughout.
LEMMA Inductive == Spec => []IInv
  BY InitIInv, NextIInv, PTL DEF Spec

\* Rows, photos and requests are well-formed.
THEOREM TypeCorrect == Spec => []TypeOK
  BY Inductive, PTL DEF IInv

\* A photo that is pointed at can be shown, whatever overlaps, stops or fails on disk,
\* unless the database failed both when it was attached, which took effect, and when
\* its row was taken back (AttachAvatar and DeleteAccountFile in SetAvatar).
THEOREM PhotoIsThere == Spec => []AvatarIsThere
  BY Inductive, PTL DEF IInv, RemovingInv

\* Only a file that somebody set out to remove or to replace, and one of an upload that
\* the database failed, can be in the table without its blob.
THEOREM RowsHaveBlobs == Spec => []RowHasItsBlob
  BY Inductive, PTL DEF IInv, RemovingInv

\* What was answered to be stored is stored until its deletion or replacement begins:
\* the compensation of no other upload takes it away.
THEOREM StoredStays == Spec => []StoredIsThere
  BY Inductive, PTL DEF IInv, RemovingInv

\* A deletion of an organization's file that stopped half-way leaves what the next one
\* finds it by (Delete removes the blob before the row).
THEOREM DeletionRepeats == Spec => []DeletionCanBeRepeated
  BY Inductive, PTL DEF IInv, RemovingInv

\* A deletion that was answered is a deletion of both halves, for good.
THEOREM DeletedIsGone == Spec => []DeletedMeansGone
  BY Inductive, PTL DEF IInv, RemovingInv

\* Unless something fails or two changes of one photo overlap, all that is there in
\* the end is complete and reachable.
THEOREM NothingIsLeft == Spec => []NothingIsLeftBehind
<1>1. IInv => NothingIsLeftBehind
  <2> SUFFICES ASSUME IInv, ~disturbed, \A r \in Reqs : ~Busy(r)
               PROVE  /\ blob = row
                      /\ \A f \in row : owner[f] \in Users => avatar[owner[f]] = f
    BY DEF NothingIsLeftBehind
  <2>1. \A f \in FileIds : Whole(f)
    BY NoneAssumption DEF IInv, MakingInv, HoldInv, WholeInv, UnheldInv
  <2>2. QED
    BY <2>1 DEF IInv, TypeOK, Whole
<1>2. QED
  BY <1>1, Inductive, PTL

=============================================================================
