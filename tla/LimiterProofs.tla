---------------------------- MODULE LimiterProofs ----------------------------
(***************************************************************************)
(* Proofs about Limiter, for every number of requests and addresses, every *)
(* size of a bucket and of the crowd, and every bound on the clock.        *)
(*                                                                         *)
(* The argument.  The tokens of a bucket less the moment it was last used, *)
(* its level, never rise: the time that fills the bucket is the time that  *)
(* is taken off, running backwards or not, and each request that passes    *)
(* takes one more.  A request at some moment leaves a level of at most     *)
(* Burst less that moment and, if it passes, of no less than zero less it. *)
(* So the requests that pass in a stretch of time are no more than Burst   *)
(* and the length of the stretch.  What remains is collection, which       *)
(* starts a bucket afresh: it must come late enough for a fresh bucket to  *)
(* be at no higher level than the one it replaces.  It does, because what  *)
(* has been idle for twice the time to fill was at a level that the lag of *)
(* the requests cannot make up for.                                        *)
(***************************************************************************)
EXTENDS Limiter, FiniteSetTheorems, TLAPS

(***************************************************************************)
(* The inductive invariant                                                 *)
(***************************************************************************)

Level(k) == bucket[k].tokens - bucket[k].last

\* Nobody waits for the mutex for longer than MaxLag.
LagInv == \A r \in Reqs : pc[r] = "limit" => time <= now[r] + MaxLag

\* A level is only as low as requests that passed have made it, and none of them came
\* later than the clock, or later than the bucket was used by more than the lag.
DebtInv ==
    \A k \in Keys : bucket[k] # None =>
        0 <= Level(k) + time /\ 0 <= bucket[k].tokens + MaxLag

Count(k, first, last) == Cardinality(Passed(k, first, last))

\* What passed in a stretch of time has lowered the level by as much, or the bucket
\* is gone, and then a fresh one will be at no higher level.
StretchInv(k, first, last) ==
    Count(k, first, last) > 0 =>
        /\ Count(k, first, last) <= Burst + last - first
        /\ bucket[k] # None => Level(k) <= Burst - first - Count(k, first, last)
        /\ bucket[k] = None => first + Count(k, first, last) + MaxLag <= time

WindowInv ==
    \A k \in Keys, first, last \in 0 .. MaxTime :
        first <= last => StretchInv(k, first, last)

IInv == TypeOK /\ LagInv /\ DebtInv /\ WindowInv

\* The constants are numbers.
LEMMA Numbers ==
    /\ Burst \in Int /\ MaxTime \in Int /\ MaxLag \in Int
    /\ 1 <= Burst /\ 0 <= MaxTime /\ 0 <= MaxLag /\ 2 * MaxLag <= Burst
  BY BurstAssumption, LagAssumption

\* A bucket that is there holds numbers, and a request that has come has an address.
LEMMA Shapes ==
    ASSUME TypeOK
    PROVE  /\ time \in Int /\ \A r \in Reqs : now[r] \in 0 .. time
           /\ \A k \in Keys : bucket[k] # None =>
                 /\ bucket[k].tokens \in Int /\ bucket[k].tokens <= Burst
                 /\ bucket[k].last \in 0 .. time
           /\ \A r \in Reqs : pc[r] # "idle" => key[r] \in Keys
  BY Numbers DEF TypeOK, Bucket

(***************************************************************************)
(* What passes                                                             *)
(***************************************************************************)

\* Requests can be counted.
LEMMA Counts ==
    ASSUME NEW k, NEW first, NEW last
    PROVE  /\ IsFiniteSet(Passed(k, first, last))
           /\ Count(k, first, last) \in Nat
  BY ReqsAssumption, FS_Subset, FS_CardinalityType DEF Passed, Count

\* Steps that let nobody pass change no count.
LEMMA SameCount ==
    ASSUME NEW k, NEW first, NEW last,
           \A r \in Reqs : /\ pc'[r] = "passed" <=> pc[r] = "passed"
                           /\ pc[r] = "passed" => key'[r] = key[r] /\ now'[r] = now[r]
    PROVE  Count(k, first, last)' = Count(k, first, last)
<1>1. Passed(k, first, last)' = Passed(k, first, last)
  BY DEF Passed
<1>2. QED
  BY <1>1 DEF Count

\* One that lets r pass counts it once, in its stretches and under its address.
LEMMA OneMore ==
    ASSUME TypeOK, NEW r \in Reqs, NEW k, NEW first \in Int, NEW last \in Int,
           pc[r] # "passed", pc' = [pc EXCEPT ![r] = "passed"], UNCHANGED <<key, now>>
    PROVE  /\ key[r] = k /\ now[r] \in first .. last
                 => Count(k, first, last)' = Count(k, first, last) + 1
           /\ key[r] # k \/ now[r] \notin first .. last
                 => Count(k, first, last)' = Count(k, first, last)
<1>1. Passed(k, first, last)' =
          IF key[r] = k /\ now[r] \in first .. last
          THEN Passed(k, first, last) \cup {r} ELSE Passed(k, first, last)
  BY DEF Passed, TypeOK
<1>2. r \notin Passed(k, first, last)
  BY DEF Passed
<1>3. Cardinality(Passed(k, first, last) \cup {r}) = Count(k, first, last) + 1
  BY <1>2, Counts, FS_AddElement DEF Count
<1>4. QED
  BY <1>1, <1>3 DEF Count

(***************************************************************************)
(* What Allow does                                                         *)
(***************************************************************************)

\* The tokens r finds once its bucket is filled up, and what it pays.
Filled(r) == Tokens(Found(r), now[r])

Paid(r) == IF Filled(r) < 1 THEN 0 ELSE 1

\* Other buckets are left alone, or collected after a long time.
LEMMA OthersKept ==
    ASSUME TypeOK, NEW r \in Reqs, Allow(r), NEW k \in Keys, k # key[r]
    PROVE  \/ bucket'[k] = bucket[k]
           \/ /\ bucket[k] # None /\ bucket'[k] = None
              /\ now[r] - bucket[k].last > 2 * Burst
<1>1. PICK others : /\ others = IF key[r] \in Kept THEN bucket ELSE Collected(now[r])
                    /\ bucket'[k] = others[k]
  <2>1. DOMAIN bucket = Keys /\ DOMAIN Collected(now[r]) = Keys
    BY DEF TypeOK, Collected
  <2>2. QED
    BY <2>1 DEF Allow
<1>2. \/ Collected(now[r])[k] = bucket[k]
      \/ /\ bucket[k] # None /\ Collected(now[r])[k] = None
         /\ now[r] - bucket[k].last > 2 * Burst
  BY DEF Collected, Kept
<1>3. QED
  BY <1>1, <1>2

\* Its own bucket is filled up to the moment of r and r pays.
LEMMA OwnBucket ==
    ASSUME TypeOK, NEW r \in Reqs, Allow(r)
    PROVE  /\ key[r] \in Keys
           /\ bucket'[key[r]] = [tokens |-> Filled(r) - Paid(r), last |-> now[r]]
           /\ pc' = [pc EXCEPT ![r] = IF Paid(r) = 1 THEN "passed" ELSE "refused"]
<1>1. key[r] \in Keys
  BY Shapes DEF Allow
<1>2. DOMAIN bucket = Keys /\ DOMAIN Collected(now[r]) = Keys
  BY DEF TypeOK, Collected
<1>3. QED
  BY <1>1, <1>2 DEF Allow, Filled, Paid

\* How full it is: not more than Burst, and no higher than it was.
LEMMA FilledBucket ==
    ASSUME TypeOK, NEW r \in Reqs, key[r] \in Keys
    PROVE  /\ Filled(r) \in Int /\ now[r] \in Int /\ Filled(r) <= Burst
           /\ Paid(r) \in {0, 1} /\ (Paid(r) = 1 => Filled(r) >= 1)
           /\ bucket[key[r]] # None =>
                 /\ Level(key[r]) \in Int
                 /\ Filled(r) - now[r] <= Level(key[r])
                 /\ Paid(r) = 0 => Filled(r) - now[r] = Level(key[r])
           /\ bucket[key[r]] = None => Filled(r) = Burst /\ Paid(r) = 1
<1>. USE Numbers
<1>1. now[r] \in Int
  BY Shapes
<1>2. CASE bucket[key[r]] # None
  <2>1. Found(r) = bucket[key[r]]
    BY <1>2 DEF Found, Kept
  <2>2. bucket[key[r]].tokens \in Int /\ bucket[key[r]].last \in Int
    BY <1>2, Shapes
  <2>3. QED
    BY <1>1, <1>2, <2>1, <2>2 DEF Filled, Paid, Tokens, Level
<1>3. CASE bucket[key[r]] = None
  <2>1. Found(r) = [tokens |-> Burst, last |-> now[r]]
    BY <1>3 DEF Found, Kept
  <2>2. Filled(r) = Burst
    BY <1>1, <2>1 DEF Filled, Tokens
  <2>3. QED
    BY <1>1, <1>3, <2>2 DEF Paid
<1>4. QED
  BY <1>2, <1>3

(***************************************************************************)
(* One lemma per part of the invariant                                     *)
(***************************************************************************)

\* The bucket of r after the step.
LEMMA AllowOwn ==
    ASSUME IInv, NEW r \in Reqs, Allow(r)
    PROVE  LET k == key[r] IN
           /\ bucket'[k].tokens = Filled(r) - Paid(r)
           /\ bucket'[k].last = now[r]
           /\ bucket'[k] \in Bucket
           /\ 0 <= bucket'[k].tokens - bucket'[k].last + time
           /\ 0 <= bucket'[k].tokens + MaxLag
<1>. USE Numbers
<1>1. /\ key[r] \in Keys
      /\ bucket'[key[r]] = [tokens |-> Filled(r) - Paid(r), last |-> now[r]]
  BY OwnBucket DEF IInv
<1>2. bucket'[key[r]].tokens = Filled(r) - Paid(r) /\ bucket'[key[r]].last = now[r]
  BY <1>1
<1>3. /\ Filled(r) \in Int /\ now[r] \in 0 .. time /\ time \in 0 .. MaxTime
      /\ Filled(r) <= Burst
      /\ Paid(r) \in {0, 1}
      /\ Paid(r) = 1 => Filled(r) >= 1
  BY <1>1, FilledBucket, Shapes DEF IInv, TypeOK
<1>4. time <= now[r] + MaxLag
  BY DEF IInv, LagInv, Allow
<1>5. Paid(r) = 0 => 0 <= Filled(r) - now[r] + time
  BY <1>1, <1>3, FilledBucket DEF IInv, DebtInv
<1>6. /\ 0 <= Filled(r) - Paid(r) - now[r] + time
      /\ 0 <= Filled(r) - Paid(r) + MaxLag
      /\ Filled(r) - Paid(r) \in -MaxTime .. Burst
  BY <1>3, <1>4, <1>5
<1>7. bucket'[key[r]] \in Bucket
  BY <1>1, <1>3, <1>6 DEF Bucket
<1>8. QED
  BY <1>2, <1>6, <1>7

\* Rows stay well-formed.
LEMMA TypeStep == IInv /\ [Next]_vars => TypeOK'
<1>. SUFFICES ASSUME IInv, [Next]_vars
             PROVE  TypeOK'
  OBVIOUS
<1>. USE Numbers
<1>1. ASSUME NEW r \in Reqs, NEW k \in Keys, Arrive(r, k)
      PROVE  TypeOK'
  BY <1>1, NoneAssumption DEF Arrive, IInv, TypeOK
<1>2. ASSUME NEW r \in Reqs, Allow(r)
      PROVE  TypeOK'
  <2>1. /\ UNCHANGED <<time, key, now>>
        /\ pc' = [pc EXCEPT ![r] = IF Paid(r) = 1 THEN "passed" ELSE "refused"]
    BY <1>2, OwnBucket DEF Allow, IInv
  <2>2. ASSUME NEW k \in Keys
        PROVE  /\ bucket'[k] \in Bucket \cup {None}
               /\ bucket'[k] # None => bucket'[k].last <= time'
    <3>1. CASE k = key[r]
      BY <1>2, <2>1, <3>1, AllowOwn, Shapes DEF IInv
    <3>2. CASE k # key[r]
      BY <1>2, <2>1, <3>2, OthersKept DEF IInv, TypeOK
    <3>3. QED
      BY <3>1, <3>2
  <2>3. bucket' \in [Keys -> Bucket \cup {None}]
    <3>1. bucket' = [k \in Keys |-> bucket'[k]]
      BY <1>2 DEF Allow, Collected, IInv, TypeOK
    <3>2. QED
      BY <2>2, <3>1
  <2>4. pc[r] = "limit"
    BY <1>2 DEF Allow
  <2>5. QED
    BY <2>1, <2>2, <2>3, <2>4 DEF IInv, TypeOK
<1>3. CASE Tick
  BY <1>3 DEF Tick, IInv, TypeOK, Bucket
<1>4. CASE UNCHANGED vars
  BY <1>4 DEF vars, IInv, TypeOK
<1>5. QED
  BY <1>1, <1>2, <1>3, <1>4 DEF Next

\* The clock waits for those who wait.
LEMMA LagStep == IInv /\ [Next]_vars => LagInv'
<1>. SUFFICES ASSUME IInv, [Next]_vars
             PROVE  LagInv'
  OBVIOUS
<1>. USE Numbers, Shapes
<1>1. ASSUME NEW r \in Reqs, NEW k \in Keys, Arrive(r, k)
      PROVE  LagInv'
  BY <1>1 DEF Arrive, IInv, LagInv, TypeOK
<1>2. ASSUME NEW r \in Reqs, Allow(r)
      PROVE  LagInv'
  BY <1>2 DEF Allow, IInv, LagInv, TypeOK
<1>3. CASE Tick
  BY <1>3 DEF Tick, IInv, LagInv
<1>4. CASE UNCHANGED vars
  BY <1>4 DEF vars, IInv, LagInv
<1>5. QED
  BY <1>1, <1>2, <1>3, <1>4 DEF Next

\* A level falls no lower than the latest request that passed.
LEMMA DebtStep == IInv /\ [Next]_vars => DebtInv'
<1>. SUFFICES ASSUME IInv, [Next]_vars, NEW k \in Keys, bucket'[k] # None
             PROVE  /\ 0 <= bucket'[k].tokens - bucket'[k].last + time'
                    /\ 0 <= bucket'[k].tokens + MaxLag
  BY DEF DebtInv, Level
<1>. USE Numbers
<1>1. CASE bucket'[k] = bucket[k] /\ time' \in {time, time + 1}
  <2>1. /\ time \in Int /\ bucket[k].tokens \in Int /\ bucket[k].last \in Int
        /\ 0 <= bucket[k].tokens - bucket[k].last + time
        /\ 0 <= bucket[k].tokens + MaxLag
    BY <1>1, Shapes DEF IInv, DebtInv, Level
  <2>2. QED
    BY <1>1, <2>1
<1>2. ASSUME NEW r \in Reqs, Allow(r), k # key[r]
      PROVE  bucket'[k] = bucket[k] /\ time' = time
  BY <1>2, OthersKept DEF Allow, IInv
<1>3. ASSUME NEW r \in Reqs, Allow(r), k = key[r]
      PROVE  /\ 0 <= bucket'[k].tokens - bucket'[k].last + time'
             /\ 0 <= bucket'[k].tokens + MaxLag
  BY <1>3, AllowOwn DEF Allow
<1>4. QED
  BY <1>1, <1>2, <1>3 DEF Next, Arrive, Tick, vars

\* What passes in a stretch lowers the level; a fresh bucket starts low enough.
LEMMA WindowStep == IInv /\ [Next]_vars => WindowInv'
<1>. SUFFICES ASSUME IInv, [Next]_vars,
                     NEW k \in Keys, NEW first \in 0 .. MaxTime, NEW last \in 0 .. MaxTime,
                     first <= last
              PROVE  StretchInv(k, first, last)'
  BY DEF WindowInv
<1>. DEFINE n == Count(k, first, last)
<1>1. StretchInv(k, first, last)
  BY DEF IInv, WindowInv
<1>2. n \in Nat
  BY Counts
<1>3. first \in Int /\ last \in Int /\ time \in Int
  BY Numbers, Shapes DEF IInv
<1>4. CASE UNCHANGED bucket /\ n' = n /\ time' \in {time, time + 1}
  BY <1>1, <1>2, <1>3, <1>4, Numbers DEF StretchInv, Level
<1>5. ASSUME NEW r \in Reqs, NEW a \in Keys, Arrive(r, a)
      PROVE  StretchInv(k, first, last)'
  <2>1. n' = n
    BY <1>5, SameCount DEF Arrive, IInv, TypeOK
  <2>2. QED
    BY <1>4, <1>5, <2>1 DEF Arrive
<1>6. CASE Tick \/ UNCHANGED vars
  <2>1. n' = n
    BY <1>6, SameCount DEF Tick, vars
  <2>2. QED
    BY <1>4, <1>6, <2>1 DEF Tick, vars
<1>7. ASSUME NEW r \in Reqs, Allow(r), k # key[r]
      PROVE  StretchInv(k, first, last)'
  <2>1. n' = n
    <3>1. pc[r] = "limit" /\ UNCHANGED <<key, now>>
          /\ pc' = [pc EXCEPT ![r] = IF Paid(r) = 1 THEN "passed" ELSE "refused"]
      BY <1>7, OwnBucket DEF Allow, IInv
    <3>2. CASE Paid(r) = 1
      BY <1>3, <1>7, <3>1, <3>2, OneMore DEF IInv
    <3>3. CASE Paid(r) # 1
      BY <3>1, <3>3, SameCount DEF IInv, TypeOK
    <3>4. QED
      BY <3>2, <3>3
  <2>2. time' = time
    BY <1>7 DEF Allow
  <2>3. CASE bucket'[k] = bucket[k]
    BY <1>1, <2>1, <2>2, <2>3 DEF StretchInv, Level
  <2>4. CASE /\ bucket[k] # None /\ bucket'[k] = None
             /\ now[r] - bucket[k].last > 2 * Burst
    <3>1. /\ now[r] \in Int /\ now[r] <= time
          /\ bucket[k].last \in Int /\ bucket[k].tokens \in Int
      BY <2>4, Shapes DEF IInv
    <3>2. 0 <= bucket[k].tokens + MaxLag
      BY <2>4 DEF IInv, DebtInv
    <3>3. n > 0 => bucket[k].tokens - bucket[k].last <= Burst - first - n
      BY <1>1, <2>4 DEF StretchInv, Level
    <3>4. n > 0 => first + n + MaxLag <= time
      BY <1>2, <1>3, <2>4, <3>1, <3>2, <3>3, Numbers
    <3>5. QED
      BY <1>1, <2>1, <2>2, <2>4, <3>4 DEF StretchInv
  <2>5. QED
    BY <1>7, <2>3, <2>4, OthersKept DEF IInv
<1>8. ASSUME NEW r \in Reqs, Allow(r), k = key[r]
      PROVE  StretchInv(k, first, last)'
  <2>1. /\ bucket'[k] # None
        /\ Level(k)' = Filled(r) - Paid(r) - now[r]
    BY <1>8, AllowOwn, NoneAssumption DEF Level
  <2>2. /\ Filled(r) \in Int /\ now[r] \in Int /\ Filled(r) <= Burst
        /\ Paid(r) \in {0, 1} /\ (Paid(r) = 1 => Filled(r) >= 1)
        /\ bucket[k] # None => Level(k) \in Int /\ Filled(r) - now[r] <= Level(k)
        /\ bucket[k] = None => Filled(r) = Burst
    BY <1>8, FilledBucket DEF IInv
  <2>3. time' = time /\ time <= now[r] + MaxLag
    BY <1>8 DEF Allow, IInv, LagInv
  <2>4. n > 0 => Filled(r) - now[r] <= Burst - first - n
    BY <1>1, <1>2, <1>3, <2>2, <2>3, Numbers DEF StretchInv
  <2>5. pc[r] = "limit" /\ UNCHANGED <<key, now>>
        /\ pc' = [pc EXCEPT ![r] = IF Paid(r) = 1 THEN "passed" ELSE "refused"]
    BY <1>8, OwnBucket DEF Allow, IInv
  <2>6. CASE Paid(r) = 1 /\ now[r] \in first .. last
    <3>1. n' = n + 1
      BY <1>3, <1>8, <2>5, <2>6, OneMore DEF IInv
    <3>2. Filled(r) - now[r] <= Burst - first - n
      BY <1>2, <1>3, <2>2, <2>4, <2>6, Numbers
    <3>3. n + 1 <= Burst + last - first
      BY <1>2, <1>3, <2>2, <2>6, <3>2, Numbers
    <3>4. Filled(r) - Paid(r) - now[r] <= Burst - first - (n + 1)
      BY <1>2, <1>3, <2>2, <2>6, <3>2, Numbers
    <3>5. QED
      BY <2>1, <3>1, <3>3, <3>4 DEF StretchInv
  <2>7. CASE Paid(r) # 1 \/ now[r] \notin first .. last
    <3>1. n' = n
      <4>1. CASE Paid(r) = 1
        <5>1. /\ now[r] \notin first .. last
              /\ pc[r] # "passed" /\ pc' = [pc EXCEPT ![r] = "passed"]
              /\ UNCHANGED <<key, now>>
          BY <2>5, <2>7, <4>1
        <5>2. TypeOK
          BY DEF IInv
        <5>3. QED
          BY <1>3, <5>1, <5>2, OneMore
      <4>2. CASE Paid(r) # 1
        BY <2>5, <4>2, SameCount DEF IInv, TypeOK
      <4>3. QED
        BY <4>1, <4>2
    <3>2. n > 0 => Filled(r) - Paid(r) - now[r] <= Burst - first - n
      BY <1>2, <1>3, <2>2, <2>4, Numbers
    <3>3. QED
      BY <1>1, <2>1, <3>1, <3>2 DEF StretchInv
  <2>8. QED
    BY <2>6, <2>7
<1>9. QED
  BY <1>5, <1>6, <1>7, <1>8 DEF Next

(***************************************************************************)
(* The theorems                                                            *)
(***************************************************************************)

\* The inductive invariant holds throughout.
LEMMA Inductive == Spec => []IInv
<1>1. Init => IInv
  <2>. SUFFICES ASSUME Init
               PROVE  IInv
    OBVIOUS
  <2>1. TypeOK /\ LagInv /\ DebtInv
    BY Numbers DEF Init, TypeOK, LagInv, DebtInv
  <2>2. ASSUME NEW k \in Keys, NEW first, NEW last
        PROVE  StretchInv(k, first, last)
    <3>1. Passed(k, first, last) = {}
      BY DEF Init, Passed
    <3>2. Count(k, first, last) = 0
      BY <3>1, FS_EmptySet DEF Count
    <3>3. QED
      BY <3>2 DEF StretchInv
  <2>3. QED
    BY <2>1, <2>2 DEF IInv, WindowInv
<1>2. IInv /\ [Next]_vars => IInv'
  BY TypeStep, LagStep, DebtStep, WindowStep DEF IInv
<1>3. QED
  BY <1>1, <1>2, PTL DEF Spec

\* Buckets hold no more than Burst and were used no later than now, however the clock
\* readings are reordered on the way to the mutex.
THEOREM TypeCorrect == Spec => []TypeOK
  BY Inductive, PTL DEF IInv

\* In every stretch of time, and for every address, no more requests pass than a full
\* bucket and what flows in, if nobody waits for the mutex for more than half the time
\* it takes to fill a bucket.
THEOREM WindowHolds == Spec => []WindowIsKept
<1>1. IInv => WindowIsKept
  <2>. SUFFICES ASSUME IInv, NEW k \in Keys,
                       NEW first \in 0 .. time, NEW last \in 0 .. time, first <= last
                PROVE  Count(k, first, last) <= Burst + last - first
    BY DEF WindowIsKept, Count
  <2>1. first \in 0 .. MaxTime /\ last \in 0 .. MaxTime
    BY Numbers DEF IInv, TypeOK
  <2>2. StretchInv(k, first, last)
    BY <2>1 DEF IInv, WindowInv
  <2>3. CASE Count(k, first, last) > 0
    BY <2>2, <2>3 DEF StretchInv
  <2>4. CASE ~(Count(k, first, last) > 0)
    BY <2>1, <2>4, Counts, Numbers
  <2>5. QED
    BY <2>3, <2>4
<1>2. QED
  BY <1>1, Inductive, PTL

=============================================================================
