------------------------------ MODULE HashSlots ------------------------------
(***************************************************************************)
(* The few slots in which bcrypt may run.  A request takes one for every   *)
(* hash it makes or compares and gives it back; its client may hang up at  *)
(* any moment.                                                             *)
(*                                                                         *)
(* The slots are a buffered channel: a send that finds it full waits in a  *)
(* queue, and a receive passes the place on to the first of the queue.     *)
(***************************************************************************)
EXTENDS Integers, SequencesExt

CONSTANTS
    Reqs,       \* HTTP requests
    Slots,      \* maxConcurrentHashes
    MaxHashes   \* the most hashes an operation takes

ASSUME SlotsAssumption == Slots \in Nat \ {0} /\ MaxHashes \in Nat \ {0}

\* A server has finitely many goroutines.
ASSUME ReqsAssumption == IsFiniteSet(Reqs)

VARIABLES
    taken,      \* places taken in Service.hashes
    queue,      \* sends that wait for a place
    pc,         \* where each request is
    left,       \* the hashes it still needs
    gone,       \* requests whose context has ended
    late        \* history: those it had ended for before they asked for a place

slots == <<taken, queue>>
vars == <<slots, pc, left, gone, late>>

Pcs == {"idle", "acquire", "select", "waiting", "hashing"}

\* Whoever waits is in the queue, once.
TypeOK ==
    /\ taken \in 0 .. Slots
    /\ queue \in SeqOf(Reqs, Cardinality(Reqs))
    /\ IsInjective(queue)
    /\ pc \in [Reqs -> Pcs]
    /\ ToSet(queue) = {r \in Reqs : pc[r] = "waiting"}
    /\ left \in [Reqs -> 0 .. MaxHashes]
    /\ late \subseteq gone
    /\ gone \subseteq {r \in Reqs : pc[r] # "idle"}

Init ==
    /\ taken = 0
    /\ queue = <<>>
    /\ pc = [r \in Reqs |-> "idle"]
    /\ left = [r \in Reqs |-> 0]
    /\ gone = {}
    /\ late = {}

Goto(r, next) == pc' = [pc EXCEPT ![r] = next]

\* r is answered and makes room for another request.
Forget(r) ==
    /\ left' = [left EXCEPT ![r] = 0]
    /\ gone' = gone \ {r}
    /\ late' = late \ {r}

End(r) == Goto(r, "idle") /\ Forget(r)

\* A request that needs some number of hashes.
Come(r, hashes) ==
    /\ pc[r] = "idle"
    /\ left' = [left EXCEPT ![r] = hashes]
    /\ Goto(r, "acquire")
    /\ UNCHANGED <<slots, gone, late>>

\* Mutant: whether the caller is still there is left to the select.
AskAnyway(r) ==
    /\ pc[r] = "acquire"
    /\ Goto(r, "select")
    /\ UNCHANGED <<slots, left, gone, late>>

\* acquire looks at ctx.Err() first.
Ask(r) ==
    /\ pc[r] = "acquire"
    /\ \/ r \in gone /\ End(r)
       \/ r \notin gone /\ Goto(r, "select") /\ UNCHANGED <<left, gone, late>>
    /\ UNCHANGED slots

\* Mutant: a free slot is looked for, not queued for.
SelectPolling(r) ==
    /\ pc[r] = "select"
    /\ \/ /\ taken < Slots
          /\ taken' = taken + 1
          /\ Goto(r, "hashing")
          /\ UNCHANGED <<queue, left, gone, late>>
       \/ /\ r \in gone
          /\ End(r)
          /\ UNCHANGED slots

\* Its select: a place if there is one, the queue if there is none, and if the
\* context has ended by now, perhaps that.
Select(r) ==
    /\ pc[r] = "select"
    /\ \/ /\ taken < Slots
          /\ taken' = taken + 1
          /\ Goto(r, "hashing")
          /\ UNCHANGED <<queue, left, gone, late>>
       \/ /\ taken = Slots
          /\ r \notin gone
          /\ queue' = Append(queue, r)
          /\ Goto(r, "waiting")
          /\ UNCHANGED <<taken, left, gone, late>>
       \/ /\ r \in gone
          /\ End(r)
          /\ UNCHANGED slots

\* Mutant: an abandoned send leaves its entry in the queue.
GiveUpSilently(r) ==
    /\ pc[r] = "waiting"
    /\ r \in gone
    /\ End(r)
    /\ UNCHANGED slots

\* The context of a request in the queue has ended.
GiveUp(r) ==
    /\ pc[r] = "waiting"
    /\ r \in gone
    /\ \E i \in DOMAIN queue : queue[i] = r /\ queue' = RemoveAt(queue, i)
    /\ End(r)
    /\ UNCHANGED taken

\* r gives its place back: to the first who waits, if anybody does.
Release(r, next) ==
    \/ /\ queue = <<>>
       /\ taken' = taken - 1
       /\ Goto(r, next)
       /\ UNCHANGED queue
    \/ /\ queue # <<>>
       /\ queue' = Tail(queue)
       /\ pc' = [pc EXCEPT ![r] = next, ![Head(queue)] = "hashing"]
       /\ UNCHANGED taken

\* Mutant: an error returns before the place is given back.
HashKeepingPlace(r) ==
    /\ pc[r] = "hashing"
    /\ \/ /\ left[r] > 1
          /\ left' = [left EXCEPT ![r] = @ - 1]
          /\ Release(r, "acquire")
          /\ late' = late \cup ({r} \cap gone)
          /\ UNCHANGED gone
       \/ Release(r, "idle") /\ Forget(r)
       \/ End(r) /\ UNCHANGED slots

\* The hash is made or compared and the deferred receive runs; an error, or a
\* password that does not match, ends the request as the last hash does.
Hash(r) ==
    /\ pc[r] = "hashing"
    /\ \/ /\ left[r] > 1
          /\ left' = [left EXCEPT ![r] = @ - 1]
          /\ Release(r, "acquire")
          /\ late' = late \cup ({r} \cap gone)
          /\ UNCHANGED gone
       \/ Release(r, "idle") /\ Forget(r)

\* The client hangs up, or the server shuts down.
HangUp(r) ==
    /\ pc[r] # "idle"
    /\ gone' = gone \cup {r}
    /\ late' = IF pc[r] = "acquire" THEN late \cup {r} ELSE late
    /\ UNCHANGED <<slots, pc, left>>

RequestStep(r) == Ask(r) \/ Select(r) \/ GiveUp(r) \/ Hash(r)

Next ==
    \E r \in Reqs :
        \/ RequestStep(r)
        \/ HangUp(r)
        \/ \E hashes \in 1 .. MaxHashes : Come(r, hashes)

Spec == Init /\ [][Next]_vars

\* A goroutine that can run does, and bcrypt ends.
FairSpec == Spec /\ \A r \in Reqs : WF_vars(RequestStep(r))

(***************************************************************************)
(* Properties                                                              *)
(***************************************************************************)

\* Every place is taken for a hash that runs, and nobody waits while one is free
\* (acquire, and the deferred receives of hashPassword and compareHash).
PlacesAreInUse ==
    /\ taken = Cardinality({r \in Reqs : pc[r] = "hashing"})
    /\ queue # <<>> => taken = Slots

\* A caller who had gone before it asked starts no hash: not the second one of two,
\* and not by the chance of a select (acquire).
NoHashForTheGone == \A r \in late : pc[r] # "hashing"

\* Whoever comes is answered, however many come after it: no place is lost and none
\* is waited for for ever (acquire).
EverybodyIsAnswered ==
    \A r \in Reqs : pc[r] = "acquire" ~> pc[r] = "idle"

=============================================================================
