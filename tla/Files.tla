------------------------------- MODULE Files -------------------------------
(***************************************************************************)
(* Files of organizations and photos of accounts.  A file is a blob on     *)
(* disk and a row in the database, two stores with no transaction around   *)
(* them: uploading writes the blob and then the row, deleting removes the  *)
(* blob and then the row.  A photo is also pointed at by its account.      *)
(*                                                                         *)
(* Every access to either store may fail, the process may stop between any *)
(* two of them, and a statement that took effect may be answered with an   *)
(* error: the answer to a COMMIT is lost, or the client hangs up, which    *)
(* ends the context of the database but not that of the disk.  Some        *)
(* failures are compensated, others ignored.                               *)
(***************************************************************************)
EXTENDS FiniteSets

CONSTANTS
    Users,      \* accounts
    Org,        \* stands for the organization a file may belong to
    FileIds,    \* ids of files; an id is used once
    Reqs,       \* HTTP requests
    None        \* no account, file or request

ASSUME NoneAssumption ==
    /\ None \notin Users \cup FileIds \cup Reqs
    /\ Org \notin Users \cup {None}

VARIABLES
    blob,       \* files on disk
    row,        \* files in the table
    owner,      \* whom a file is for: the organization or an account
    avatar,     \* users.avatar_id
    retired,    \* accounts with deleted_at set
    pc,         \* where each request is
    file,       \* the file it stores or deletes
    previous,   \* the photo it saw its account point at
    stored,     \* history: files whose upload was answered with success
    parting,    \* history: files whose removal was begun at their blob, by a deletion
                \* or because another photo replaced them
    gone,       \* history: files whose deletion was answered with success
    stranded,   \* history: files of uploads that the database failed, with a row it
                \* had inserted without saying so or did not take back
    disturbed   \* history: something failed or stopped, or two changes of one
                \* account's photo overlapped

stores == <<blob, row, avatar>>
history == <<stored, parting, gone, stranded, disturbed>>
vars == <<stores, owner, retired, pc, file, previous, history>>

Pcs == {"idle", "put", "insert", "unput", "attach", "point", "unrow",
        "removeprevious", "dropprevious", "clear", "remove", "drop", "ok", "refused"}

\* A row belongs to somebody, and a photo is one account's (users_avatar_id_key and
\* its foreign key).
TypeOK ==
    /\ blob \subseteq FileIds
    /\ row \subseteq FileIds
    /\ owner \in [FileIds -> Users \cup {Org, None}]
    /\ \A f \in row \cup blob : owner[f] # None
    /\ avatar \in [Users -> row \cup {None}]
    /\ \A u \in Users : avatar[u] # None => owner[avatar[u]] = u
    /\ retired \subseteq Users
    /\ pc \in [Reqs -> Pcs]
    /\ file \in [Reqs -> FileIds \cup {None}]
    /\ previous \in [Reqs -> FileIds \cup {None}]
    /\ stored \cup parting \cup gone \cup stranded \subseteq FileIds
    /\ disturbed \in BOOLEAN

Init ==
    /\ blob = {}
    /\ row = {}
    /\ owner = [f \in FileIds |-> None]
    /\ avatar = [u \in Users |-> None]
    /\ retired = {}
    /\ pc = [r \in Reqs |-> "idle"]
    /\ file = [r \in Reqs |-> None]
    /\ previous = [r \in Reqs |-> None]
    /\ stored = {}
    /\ parting = {}
    /\ gone = {}
    /\ stranded = {}
    /\ disturbed = FALSE

Goto(r, next) == pc' = [pc EXCEPT ![r] = next]

Busy(r) == pc[r] \notin {"idle", "ok", "refused"}

\* Some request is changing the photo of u.
Changing(u) == \E r \in Reqs : Busy(r) /\ owner[file[r]] = u

\* The request is answered and forgets its files.
Answer(r, outcome) ==
    /\ Goto(r, outcome)
    /\ file' = [file EXCEPT ![r] = None]
    /\ previous' = [previous EXCEPT ![r] = None]

\* Nothing is different but where the request is.
Stay == UNCHANGED <<stores, owner, retired, history>>

Refuse(r) == Answer(r, "refused") /\ Stay

\* An access was answered with an error, and the request goes on at next or is
\* answered as well.
Err(r, next) ==
    /\ IF next = "refused" THEN Answer(r, next)
                           ELSE Goto(r, next) /\ UNCHANGED <<file, previous>>
    /\ disturbed' = TRUE
    /\ UNCHANGED <<owner, retired, stored, parting, gone>>

\* It failed.
Fail(r, next) == Err(r, next) /\ UNCHANGED <<stores, stranded>>

\* The upload is answered with success.
Store(r) ==
    /\ Answer(r, "ok")
    /\ stored' = stored \cup {file[r]}

(***************************************************************************)
(* Storing                                                                 *)
(***************************************************************************)

\* prepare: inspected, scanned and sealed, or refused; then it gets an id.
Upload(r, f, o) ==
    /\ pc[r] = "idle"
    /\ \/ Refuse(r)
       \/ /\ owner[f] = None
          /\ owner' = [owner EXCEPT ![f] = o]
          /\ file' = [file EXCEPT ![r] = f]
          /\ Goto(r, "put")
          /\ disturbed' = (disturbed \/ Changing(o))
          /\ UNCHANGED <<stores, retired, previous, stored, parting, gone, stranded>>

\* Mutant: an error of the disk is dropped.
PutCarelessly(r) ==
    /\ pc[r] = "put"
    /\ \/ blob' = blob \cup {file[r]}
       \/ UNCHANGED blob
    /\ Goto(r, "insert")
    /\ UNCHANGED <<row, avatar, owner, retired, file, previous, history>>

\* Put: written to a temporary file and renamed.
Put(r) ==
    /\ pc[r] = "put"
    /\ \/ Fail(r, "refused")
       \/ /\ blob' = blob \cup {file[r]}
          /\ Goto(r, "insert")
          /\ UNCHANGED <<row, avatar, owner, retired, file, previous, history>>

\* Mutant: an error of the database is dropped.
InsertCarelessly(r) ==
    /\ pc[r] = "insert"
    /\ \/ row' = row \cup {file[r]}
       \/ UNCHANGED row
    /\ IF owner[file[r]] = Org
          THEN Store(r)
          ELSE Goto(r, "attach") /\ UNCHANGED <<file, previous, stored>>
    /\ UNCHANGED <<blob, avatar, owner, retired, parting, gone, stranded, disturbed>>

\* CreateFile, CreateAccountFile.
Insert(r) ==
    /\ pc[r] = "insert"
    /\ \/ Fail(r, "unput")
       \/ /\ Err(r, "unput")
          /\ row' = row \cup {file[r]}
          /\ stranded' = stranded \cup {file[r]}
          /\ UNCHANGED <<blob, avatar>>
       \/ /\ row' = row \cup {file[r]}
          /\ IF owner[file[r]] = Org
                THEN Store(r)
                ELSE Goto(r, "attach") /\ UNCHANGED <<file, previous, stored>>
          /\ UNCHANGED <<blob, avatar, owner, retired, parting, gone, stranded, disturbed>>

\* The blob is taken back; an error of that is dropped.
Unput(r) ==
    /\ pc[r] = "unput"
    /\ \/ blob' = blob \ {file[r]} /\ UNCHANGED disturbed
       \/ disturbed' = TRUE /\ UNCHANGED blob
    /\ Answer(r, "refused")
    /\ UNCHANGED <<row, avatar, owner, retired, stored, parting, gone, stranded>>

\* AttachAvatar reads the account and the photo it has.
Attach(r) ==
    /\ pc[r] = "attach"
    /\ LET u == owner[file[r]]
       IN  \/ Fail(r, "unrow")
           \/ /\ u \in retired
              /\ Goto(r, "unrow")
              /\ Stay /\ UNCHANGED <<file, previous>>
           \/ /\ u \notin retired
              /\ previous' = [previous EXCEPT ![r] = avatar[u]]
              /\ Goto(r, "point")
              /\ Stay /\ UNCHANGED file

\* Mutant: the photo that was there goes before the new one is attached.
PointAfterRemoving(r) ==
    /\ pc[r] = "point"
    /\ blob' = blob \ {previous[r]}
    /\ parting' = parting \cup ({previous[r]} \ {None})
    /\ IF owner[file[r]] \in retired
          THEN Goto(r, "unrow") /\ UNCHANGED <<avatar, file, previous>>
          ELSE /\ \/ avatar' = [avatar EXCEPT ![owner[file[r]]] = file[r]]
                  \/ UNCHANGED avatar
               /\ Answer(r, "ok")
    /\ UNCHANGED <<row, owner, retired, stored, gone, stranded, disturbed>>

\* Its UPDATE, whatever the account points at by then, and the commit.
Point(r) ==
    /\ pc[r] = "point"
    /\ LET u == owner[file[r]]
       IN  \/ Fail(r, "unrow")
           \/ /\ u \notin retired
              /\ avatar' = [avatar EXCEPT ![u] = file[r]]
              /\ Err(r, "unrow")
              /\ UNCHANGED <<blob, row, stranded>>
           \/ /\ u \in retired
              /\ Goto(r, "unrow")
              /\ Stay /\ UNCHANGED <<file, previous>>
           \/ /\ u \notin retired
              /\ avatar' = [avatar EXCEPT ![u] = file[r]]
              /\ IF previous[r] = None
                    THEN Store(r)
                    ELSE Goto(r, "removeprevious") /\ UNCHANGED <<file, previous, stored>>
              /\ UNCHANGED <<blob, row, owner, retired, parting, gone, stranded, disturbed>>

\* ON DELETE SET NULL.
DropRow(f) ==
    /\ row' = row \ {f}
    /\ avatar' = [u \in Users |-> IF avatar[u] = f THEN None ELSE avatar[u]]

\* Mutant: only the blob of a photo that was not attached is taken back.
UnrowNothing(r) ==
    /\ pc[r] = "unrow"
    /\ Goto(r, "unput")
    /\ Stay /\ UNCHANGED <<file, previous>>

\* A photo that could not be attached, or so it was answered: its row goes, then its
\* blob; errors are dropped.
Unrow(r) ==
    /\ pc[r] = "unrow"
    /\ \/ /\ Err(r, "unput")
          /\ stranded' = stranded \cup {file[r]}
          /\ UNCHANGED stores
       \/ /\ DropRow(file[r])
          /\ Goto(r, "unput")
          /\ UNCHANGED <<blob, owner, retired, file, previous, history>>

\* The photo it replaced: its blob goes, then its row; errors are dropped.
RemovePrevious(r) ==
    /\ pc[r] = "removeprevious"
    /\ parting' = parting \cup {previous[r]}
    /\ \/ blob' = blob \ {previous[r]} /\ UNCHANGED disturbed
       \/ disturbed' = TRUE /\ UNCHANGED blob
    /\ Goto(r, "dropprevious")
    /\ UNCHANGED <<row, avatar, owner, retired, file, previous, stored, gone, stranded>>

DropPrevious(r) ==
    /\ pc[r] = "dropprevious"
    /\ \/ DropRow(previous[r]) /\ UNCHANGED disturbed
       \/ disturbed' = TRUE /\ UNCHANGED <<row, avatar>>
    /\ Store(r)
    /\ UNCHANGED <<blob, owner, retired, parting, gone, stranded>>

(***************************************************************************)
(* Deleting                                                                *)
(***************************************************************************)

\* Delete of a file of the organization: the row is looked up.
FindFile(r, f) ==
    /\ pc[r] = "idle"
    /\ \/ ~(f \in row /\ owner[f] = Org) /\ Refuse(r)
       \/ /\ f \in row /\ owner[f] = Org
          /\ file' = [file EXCEPT ![r] = f]
          /\ Goto(r, "remove")
          /\ Stay /\ UNCHANGED previous

\* DetachAvatar reads the photo of an account.
Detach(r, u) ==
    /\ pc[r] = "idle"
    /\ \/ (u \in retired \/ avatar[u] = None) /\ Refuse(r)
       \/ /\ u \notin retired
          /\ avatar[u] # None
          /\ file' = [file EXCEPT ![r] = avatar[u]]
          /\ Goto(r, "clear")
          /\ disturbed' = (disturbed \/ Changing(u))
          /\ UNCHANGED <<stores, owner, retired, previous, stored, parting, gone, stranded>>

\* Its UPDATE, in a statement of its own: whatever the account points at by then.
Clear(r) ==
    /\ pc[r] = "clear"
    /\ LET u == owner[file[r]]
       IN  \/ Fail(r, "refused")
           \/ u \in retired /\ Refuse(r)
           \/ /\ u \notin retired
              /\ avatar' = [avatar EXCEPT ![u] = None]
              /\ Err(r, "refused")
              /\ UNCHANGED <<blob, row, stranded>>
           \/ /\ u \notin retired
              /\ avatar' = [avatar EXCEPT ![u] = None]
              /\ Goto(r, "remove")
              /\ UNCHANGED <<blob, row, owner, retired, file, previous, history>>

\* Mutant: an error of the disk is dropped as it is after a replacement.
RemoveCarelessly(r) ==
    /\ pc[r] = "remove"
    /\ \/ blob' = blob \ {file[r]}
       \/ UNCHANGED blob
    /\ parting' = parting \cup {file[r]}
    /\ Goto(r, "drop")
    /\ UNCHANGED <<row, avatar, owner, retired, file, previous, stored, gone, stranded,
                   disturbed>>

\* Remove, RemoveAccount: a blob that is not there is no error.
Remove(r) ==
    /\ pc[r] = "remove"
    /\ \/ Fail(r, "refused")
       \/ /\ blob' = blob \ {file[r]}
          /\ parting' = parting \cup {file[r]}
          /\ Goto(r, "drop")
          /\ UNCHANGED <<row, avatar, owner, retired, file, previous, stored, gone,
                         stranded, disturbed>>

\* Mutant: a failure of the second step is dropped as it is after a replacement.
DropCarelessly(r) ==
    /\ pc[r] = "drop"
    /\ \/ DropRow(file[r])
       \/ UNCHANGED <<row, avatar>>
    /\ gone' = gone \cup {file[r]}
    /\ Answer(r, "ok")
    /\ UNCHANGED <<blob, owner, retired, stored, parting, stranded, disturbed>>

\* DeleteFile, DeleteAccountFile.
Drop(r) ==
    /\ pc[r] = "drop"
    /\ \/ Fail(r, "refused")
       \/ file[r] \notin row /\ Refuse(r)
       \/ /\ file[r] \in row
          /\ DropRow(file[r])
          /\ Err(r, "refused")
          /\ UNCHANGED <<blob, stranded>>
       \/ /\ file[r] \in row
          /\ DropRow(file[r])
          /\ gone' = gone \cup {file[r]}
          /\ Answer(r, "ok")
          /\ UNCHANGED <<blob, owner, retired, stored, parting, stranded, disturbed>>

(***************************************************************************)
(* What other actors do                                                    *)
(***************************************************************************)

\* An account is deleted; its photo stays.
DeleteUser(u) ==
    /\ u \notin retired
    /\ retired' = retired \cup {u}
    /\ UNCHANGED <<stores, owner, pc, file, previous, history>>

\* The process stops: nothing takes back what the request had done.
Crash(r) ==
    /\ Busy(r)
    /\ Fail(r, "refused")

(***************************************************************************)
(* The specification                                                       *)
(***************************************************************************)

StoreStep(r) ==
    \/ \E f \in FileIds, o \in Users \cup {Org} : Upload(r, f, o)
    \/ Put(r)
    \/ Insert(r)
    \/ Unput(r)
    \/ Attach(r)
    \/ Point(r)
    \/ Unrow(r)
    \/ RemovePrevious(r)
    \/ DropPrevious(r)

DeleteStep(r) ==
    \/ \E f \in FileIds : FindFile(r, f)
    \/ \E u \in Users : Detach(r, u)
    \/ Clear(r)
    \/ Remove(r)
    \/ Drop(r)

Next ==
    \/ \E r \in Reqs : StoreStep(r) \/ DeleteStep(r) \/ Crash(r)
    \/ \E u \in Users : DeleteUser(u)

Spec == Init /\ [][Next]_vars

(***************************************************************************)
(* Properties                                                              *)
(***************************************************************************)

\* An account points at a photo that cannot be shown only if the database failed twice
\* while that photo was set: attaching it was answered with an error although it took
\* effect, and its row was not taken back.  Nothing else makes it so, neither a stop,
\* nor the disk, nor other uploads and deletions (SetAvatar attaches before it removes,
\* DeleteAvatar clears before it removes).
AvatarIsThere ==
    \A u \in Users : avatar[u] # None =>
        /\ avatar[u] \in row
        /\ avatar[u] \in blob \cup stranded

\* A row without its blob is one whose deletion or replacement was begun, or one of an
\* upload that the database failed: a stop or the disk alone leave none (Upload and
\* SetAvatar write the blob first).
RowHasItsBlob == row \subseteq blob \cup parting \cup stranded

\* Who was told that a file is stored has both halves of it until somebody begins to
\* delete or replace that file, whatever fails before, after and elsewhere (Upload and
\* SetAvatar report every failure that matters, and compensate for their own file only).
StoredIsThere == stored \ parting \subseteq row \cap blob

\* A deletion of an organization's file that failed half-way can be repeated: while the
\* blob is on disk the row is there to find it by (Delete removes the blob first).
DeletionCanBeRepeated == \A f \in stored \cap blob : owner[f] = Org => f \in row

\* A deletion that was answered with success left neither half behind, and nothing
\* brings one back (Delete and DeleteAvatar report the failure of either step).
DeletedMeansGone == gone \cap (row \cup blob) = {}

\* While nothing fails and changes of one photo do not overlap, what is left when all
\* is answered is complete and reachable: no blob without a row, no row without a
\* blob, no photo that is nobody's, even when the account went during an upload.
NothingIsLeftBehind ==
    ~disturbed /\ (\A r \in Reqs : ~Busy(r)) =>
        /\ blob = row
        /\ \A f \in row : owner[f] \in Users => avatar[owner[f]] = f

=============================================================================
