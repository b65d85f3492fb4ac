--------------------------- MODULE HashSlotsProofs ---------------------------
(***************************************************************************)
(* Proofs about HashSlots, for every number of requests, slots and hashes. *)
(*                                                                         *)
(* The argument.  The queue holds those who wait, once each, so taking the *)
(* first or an abandoned entry out of it takes out exactly one request;    *)
(* and a place that is given back is counted off or passed on, never both. *)
(* TypeOK and PlacesAreInUse need each other: the place passed on must go  *)
(* to a request that waits, and one that waits must be in the queue.       *)
(***************************************************************************)
EXTENDS HashSlots, FiniteSetTheorems, SequenceTheorems, TLAPS

(***************************************************************************)
(* Sequences without repetition                                            *)
(***************************************************************************)

\* One more at the end.
LEMMA AppendOnce ==
    ASSUME NEW S, NEW s \in Seq(S), IsInjective(s), NEW e \in S, e \notin ToSet(s)
    PROVE  /\ Append(s, e) \in Seq(S)
           /\ IsInjective(Append(s, e))
           /\ ToSet(Append(s, e)) = ToSet(s) \cup {e}
<1>. DEFINE a == Append(s, e)
<1>1. /\ a \in Seq(S) /\ Len(a) = Len(s) + 1 /\ Len(s) \in Nat
      /\ DOMAIN a = 1 .. Len(s) + 1 /\ DOMAIN s = 1 .. Len(s)
      /\ \A i \in 1 .. Len(s) : a[i] = s[i]
      /\ a[Len(s) + 1] = e
  BY AppendProperties, LenProperties
<1>2. \A i \in 1 .. Len(s) : s[i] # e
  BY <1>1 DEF ToSet
<1>3. IsInjective(a)
  BY <1>1, <1>2 DEF IsInjective
<1>4. ToSet(a) = ToSet(s) \cup {e}
  BY <1>1 DEF ToSet
<1>5. QED
  BY <1>1, <1>3, <1>4

\* Without the first.
LEMMA TailOnce ==
    ASSUME NEW S, NEW s \in Seq(S), IsInjective(s), s # <<>>
    PROVE  /\ Tail(s) \in Seq(S)
           /\ IsInjective(Tail(s))
           /\ Head(s) \in ToSet(s)
           /\ ToSet(Tail(s)) = ToSet(s) \ {Head(s)}
<1>. DEFINE t == Tail(s)
<1>1. /\ t \in Seq(S) /\ Len(t) = Len(s) - 1 /\ Len(s) \in Nat \ {0}
      /\ DOMAIN t = 1 .. Len(s) - 1 /\ DOMAIN s = 1 .. Len(s)
      /\ \A i \in 1 .. Len(s) - 1 : t[i] = s[i + 1]
      /\ Head(s) = s[1]
  BY HeadTailProperties, LenProperties, EmptySeq
<1>2. IsInjective(t)
  BY <1>1 DEF IsInjective
<1>3. ToSet(t) = ToSet(s) \ {Head(s)}
  <2>1. \A x \in ToSet(t) : x \in ToSet(s) \ {Head(s)}
    BY <1>1 DEF ToSet, IsInjective
  <2>2. ASSUME NEW x \in ToSet(s) \ {Head(s)}
        PROVE  x \in ToSet(t)
    <3>1. PICK i \in 2 .. Len(s) : s[i] = x
      BY <1>1 DEF ToSet
    <3>2. i - 1 \in DOMAIN t /\ t[i - 1] = x
      BY <1>1, <3>1
    <3>3. QED
      BY <3>2 DEF ToSet
  <2>3. QED
    BY <2>1, <2>2
<1>4. Head(s) \in ToSet(s)
  <2>1. 1 \in DOMAIN s /\ Head(s) = s[1]
    BY <1>1
  <2>2. QED
    BY <2>1 DEF ToSet
<1>5. QED
  BY <1>1, <1>2, <1>3, <1>4

\* Without one that is in it.
LEMMA RemoveOnce ==
    ASSUME NEW S, NEW s \in Seq(S), IsInjective(s), NEW i \in DOMAIN s
    PROVE  /\ RemoveAt(s, i) \in Seq(S)
           /\ IsInjective(RemoveAt(s, i))
           /\ ToSet(RemoveAt(s, i)) = ToSet(s) \ {s[i]}
           /\ RemoveAt(s, i) # <<>> => s # <<>>
<1>. DEFINE a == SubSeq(s, 1, i - 1)
            b == SubSeq(s, i + 1, Len(s))
            t == RemoveAt(s, i)
<1>1. Len(s) \in Nat /\ DOMAIN s = 1 .. Len(s) /\ i \in 1 .. Len(s)
  BY LenProperties
<1>2. /\ a \in Seq(S) /\ Len(a) = i - 1
      /\ \A j \in 1 .. i - 1 : a[j] = s[j]
  <2>1. \A j \in 1 .. i - 1 : s[j] \in S
    BY <1>1, ElementOfSeq
  <2>2. QED
    BY <1>1, <2>1, SubSeqProperties
<1>3. /\ b \in Seq(S) /\ Len(b) = Len(s) - i
      /\ \A j \in 1 .. Len(s) - i : b[j] = s[i + j]
  <2>1. \A j \in i + 1 .. Len(s) : s[j] \in S
    BY <1>1, ElementOfSeq
  <2>2. /\ b \in Seq(S)
        /\ Len(b) = IF i + 1 <= Len(s) THEN Len(s) - (i + 1) + 1 ELSE 0
        /\ \A j \in 1 .. Len(s) - (i + 1) + 1 : b[j] = s[i + 1 + j - 1]
    BY <1>1, <2>1, SubSeqProperties
  <2>3. Len(b) = Len(s) - i
    BY <1>1, <2>2
  <2>4. ASSUME NEW j \in 1 .. Len(s) - i
        PROVE  b[j] = s[i + j]
    <3>1. j \in 1 .. Len(s) - (i + 1) + 1 /\ i + 1 + j - 1 = i + j
      BY <1>1
    <3>2. b[j] = s[i + 1 + j - 1]
      BY <2>2, <3>1
    <3>3. QED
      BY <3>1, <3>2
  <2>5. QED
    BY <2>2, <2>3, <2>4
<1>4. /\ t \in Seq(S) /\ Len(t) = Len(s) - 1 /\ DOMAIN t = 1 .. Len(s) - 1
      /\ \A j \in 1 .. Len(s) - 1 : t[j] = IF j < i THEN s[j] ELSE s[j + 1]
  <2>1. t = a \o b
    BY DEF RemoveAt
  <2>. HIDE DEF a, b, t
  <2>2. /\ t \in Seq(S)
        /\ Len(t) = Len(a) + Len(b)
        /\ \A j \in 1 .. Len(a) + Len(b) :
              t[j] = IF j <= Len(a) THEN a[j] ELSE b[j - Len(a)]
    BY <1>2, <1>3, <2>1, ConcatProperties
  <2>3. DOMAIN t = 1 .. Len(t)
    BY <2>2, LenProperties
  <2>4. Len(a) = i - 1 /\ Len(a) + Len(b) = Len(s) - 1
    BY <1>1, <1>2, <1>3
  <2>5. ASSUME NEW j \in 1 .. Len(s) - 1
        PROVE  t[j] = IF j < i THEN s[j] ELSE s[j + 1]
    <3>1. CASE j < i
      BY <1>1, <1>2, <2>2, <2>4, <3>1
    <3>2. CASE i <= j
      <4>1. t[j] = b[j - (i - 1)]
        <5>1. j \in 1 .. Len(a) + Len(b) /\ ~(j <= Len(a))
          BY <1>1, <2>4, <3>2
        <5>2. t[j] = b[j - Len(a)]
          BY <2>2, <5>1
        <5>3. QED
          BY <2>4, <5>2
      <4>2. j - (i - 1) \in 1 .. Len(s) - i /\ i + (j - (i - 1)) = j + 1
        BY <1>1, <3>2
      <4>3. QED
        <5>1. b[j - (i - 1)] = s[i + (j - (i - 1))]
          BY <1>3, <4>2
        <5>2. ~(j < i)
          BY <1>1, <3>2
        <5>3. QED
          BY <4>1, <4>2, <5>1, <5>2
    <3>3. QED
      BY <1>1, <3>1, <3>2
  <2>6. QED
    BY <2>2, <2>3, <2>4, <2>5
<1>. HIDE DEF t
<1>5. IsInjective(t)
  <2>1. SUFFICES ASSUME NEW j \in 1 .. Len(s) - 1, NEW k \in 1 .. Len(s) - 1, t[j] = t[k]
                 PROVE  j = k
    BY <1>4 DEF IsInjective
  <2>2. \A m, n \in 1 .. Len(s) : s[m] = s[n] => m = n
    BY <1>1 DEF IsInjective
  <2>3. CASE j < i /\ k < i
    BY <1>1, <1>4, <2>1, <2>2, <2>3
  <2>4. CASE j < i /\ i <= k
    BY <1>1, <1>4, <2>1, <2>2, <2>4
  <2>5. CASE i <= j /\ k < i
    BY <1>1, <1>4, <2>1, <2>2, <2>5
  <2>6. CASE i <= j /\ i <= k
    BY <1>1, <1>4, <2>1, <2>2, <2>6
  <2>7. QED
    BY <1>1, <2>3, <2>4, <2>5, <2>6
<1>6. ToSet(t) = ToSet(s) \ {s[i]}
  <2>1. ASSUME NEW j \in DOMAIN t
        PROVE  t[j] \in ToSet(s) \ {s[i]}
    <3>1. PICK k \in 1 .. Len(s) : t[j] = s[k] /\ k # i
      BY <1>1, <1>4
    <3>2. QED
      BY <1>1, <3>1 DEF ToSet, IsInjective
  <2>2. ASSUME NEW x \in ToSet(s) \ {s[i]}
        PROVE  x \in ToSet(t)
    <3>1. PICK j \in 1 .. Len(s) : s[j] = x /\ j # i
      BY <1>1 DEF ToSet
    <3>2. CASE j < i
      BY <1>1, <1>4, <3>1, <3>2 DEF ToSet
    <3>3. CASE j > i
      <4>1. j - 1 \in DOMAIN t /\ t[j - 1] = x
        BY <1>1, <1>4, <3>1, <3>3
      <4>2. QED
        BY <4>1 DEF ToSet
    <3>4. QED
      BY <1>1, <3>1, <3>2, <3>3
  <2>3. QED
    BY <2>1, <2>2 DEF ToSet
<1>7. s # <<>>
  BY <1>1, EmptySeq
<1>8. QED
  BY <1>4, <1>5, <1>6, <1>7 DEF t

\* It is no longer than there are elements.
LEMMA OnceIsShort ==
    ASSUME NEW S, IsFiniteSet(S), NEW s \in Seq(S), IsInjective(s)
    PROVE  s \in SeqOf(S, Cardinality(S))
<1>1. Len(s) \in Nat /\ s \in [1 .. Len(s) -> S]
  BY LenProperties
<1>2. s \in Injection(1 .. Len(s), S)
  BY <1>1 DEF Injection
<1>3. Cardinality(1 .. Len(s)) <= Cardinality(S)
  BY <1>2, FS_Injection
<1>4. Cardinality(1 .. Len(s)) = Len(s)
  <2>1. Cardinality(1 .. Len(s)) = IF 1 > Len(s) THEN 0 ELSE Len(s) - 1 + 1
    <3>1. \A n \in Int : Cardinality(1 .. n) = IF 1 > n THEN 0 ELSE n - 1 + 1
      BY FS_Interval, SMTT(30)
    <3>2. QED
      BY <1>1, <3>1
  <2>2. QED
    BY <1>1, <2>1
<1>5. Len(s) \in 0 .. Cardinality(S)
  BY <1>1, <1>3, <1>4, FS_CardinalityType
<1>6. QED
  BY <1>1, <1>5 DEF SeqOf

(***************************************************************************)
(* The inductive invariant                                                 *)
(***************************************************************************)

In(place) == {r \in Reqs : pc[r] = place}

\* The queue is those who wait, in some order.
QueueInv ==
    /\ queue \in Seq(Reqs)
    /\ IsInjective(queue)
    /\ ToSet(queue) = In("waiting")

RestInv ==
    /\ taken \in 0 .. Slots
    /\ pc \in [Reqs -> Pcs]
    /\ left \in [Reqs -> 0 .. MaxHashes]
    /\ gone \subseteq {r \in Reqs : pc[r] # "idle"}

\* Whoever was gone when it came to ask has not got beyond asking.
LateInv == late \subseteq gone \cap In("acquire")

IInv == QueueInv /\ RestInv /\ PlacesAreInUse /\ LateInv

\* The requests at a place, once one of them has come there or left it.
LEMMA Arrives ==
    ASSUME RestInv, NEW r \in Reqs, NEW place, NEW next, pc[r] # place,
           pc' = [pc EXCEPT ![r] = next]
    PROVE  /\ next = place => In(place)' = In(place) \cup {r}
           /\ next # place => In(place)' = In(place)
  BY DEF RestInv, In

\* The same for the place it leaves.
LEMMA Leaves ==
    ASSUME RestInv, NEW r \in Reqs, NEW place, NEW next, pc[r] = place, next # place,
           pc' = [pc EXCEPT ![r] = next]
    PROVE  In(place)' = In(place) \ {r}
  BY DEF RestInv, In

\* They can be counted.
LEMMA Counts ==
    /\ IsFiniteSet(In("hashing")) /\ Cardinality(In("hashing")) \in Nat
    /\ \A r : Cardinality(In("hashing") \cup {r}) =
                 IF r \in In("hashing") THEN Cardinality(In("hashing"))
                                        ELSE Cardinality(In("hashing")) + 1
    /\ \A r : Cardinality(In("hashing") \ {r}) =
                 IF r \in In("hashing") THEN Cardinality(In("hashing")) - 1
                                        ELSE Cardinality(In("hashing"))
<1>1. IsFiniteSet(In("hashing")) /\ Cardinality(In("hashing")) \in Nat
  BY ReqsAssumption, FS_Subset, FS_CardinalityType DEF In
<1>2. QED
  BY <1>1, FS_AddElement, FS_RemoveElement

\* A request moves from one place to another, neither of which matters to the slots.
LEMMA Passing ==
    ASSUME IInv, NEW r \in Reqs, NEW next \in Pcs,
           pc[r] \notin {"waiting", "hashing"}, next \notin {"waiting", "hashing"},
           pc' = [pc EXCEPT ![r] = next], UNCHANGED slots
    PROVE  QueueInv' /\ PlacesAreInUse' /\ taken' \in 0 .. Slots
<1>1. In("waiting")' = In("waiting") /\ In("hashing")' = In("hashing")
  BY Arrives DEF IInv
<1>2. QED
  BY <1>1 DEF IInv, QueueInv, RestInv, PlacesAreInUse, In, slots

\* A request is forgotten when it ends.
LEMMA Forgetting ==
    ASSUME RestInv, LateInv, NEW r \in Reqs, Forget(r), pc' \in [Reqs -> Pcs],
           taken' \in 0 .. Slots,
           \A s \in Reqs \ {r} : \/ pc'[s] = pc[s]
                                 \/ pc[s] = "waiting" /\ pc'[s] = "hashing"
    PROVE  RestInv' /\ LateInv'
<1>1. left' \in [Reqs -> 0 .. MaxHashes]
  BY SlotsAssumption DEF Forget, RestInv
<1>2. gone' \subseteq {s \in Reqs : pc'[s] # "idle"}
  BY DEF Forget, RestInv
<1>3. LateInv'
  BY DEF Forget, LateInv, In
<1>4. QED
  BY <1>1, <1>2, <1>3 DEF RestInv

\* A place that is given back is passed to one who waits, or counted off.
LEMMA Passes ==
    ASSUME IInv, NEW r \in Reqs, NEW next \in {"acquire", "idle"},
           pc[r] = "hashing", Release(r, next)
    PROVE  /\ QueueInv' /\ PlacesAreInUse' /\ taken' \in 0 .. Slots
           /\ pc' \in [Reqs -> Pcs] /\ pc'[r] = next
           /\ \A s \in Reqs \ {r} : \/ pc'[s] = pc[s]
                                    \/ pc[s] = "waiting" /\ pc'[s] = "hashing"
<1>. USE DEF IInv
<1>1. CASE queue = <<>> /\ taken' = taken - 1 /\ Goto(r, next) /\ UNCHANGED queue
  <2>1. pc' \in [Reqs -> Pcs] /\ pc'[r] = next /\ \A s \in Reqs \ {r} : pc'[s] = pc[s]
    BY <1>1 DEF Goto, RestInv, Pcs
  <2>2. In("hashing")' = In("hashing") \ {r}
    BY <1>1, Leaves DEF Goto
  <2>3. In("waiting")' = In("waiting")
    BY <1>1, Arrives DEF Goto
  <2>4. r \in In("hashing")
    BY DEF In
  <2>5. taken = Cardinality(In("hashing"))
    BY DEF PlacesAreInUse, In
  <2>6. Cardinality(In("hashing") \ {r}) = taken - 1 /\ taken - 1 \in Nat
    <3>1. IsFiniteSet(In("hashing") \ {r})
      BY Counts, FS_RemoveElement
    <3>2. Cardinality(In("hashing") \ {r}) \in Nat
      BY <3>1, FS_CardinalityType
    <3>3. QED
      BY <2>4, <2>5, <3>2, Counts
  <2>7. taken' \in 0 .. Slots
    BY <1>1, <2>6, SlotsAssumption DEF RestInv
  <2>8. PlacesAreInUse'
    <3>1. taken' = Cardinality(In("hashing")')
      BY <1>1, <2>2, <2>6
    <3>2. QED
      BY <1>1, <3>1 DEF PlacesAreInUse, In
  <2>9. QueueInv'
    BY <1>1, <2>3 DEF QueueInv
  <2>10. QED
    BY <2>1, <2>7, <2>8, <2>9
<1>2. CASE /\ queue # <<>>
           /\ queue' = Tail(queue)
           /\ pc' = [pc EXCEPT ![r] = next, ![Head(queue)] = "hashing"]
           /\ UNCHANGED taken
  <2>1. PICK h : h = Head(queue)
    OBVIOUS
  <2>2. /\ queue' \in Seq(Reqs)
        /\ IsInjective(queue')
        /\ h \in ToSet(queue)
        /\ ToSet(queue') = ToSet(queue) \ {h}
    BY <1>2, <2>1, TailOnce DEF QueueInv
  <2>3. h \in Reqs /\ pc[h] = "waiting" /\ h # r
    BY <2>2 DEF QueueInv, In
  <2>4. pc' \in [Reqs -> Pcs]
    BY <1>2, <2>1, <2>3 DEF RestInv, Pcs
  <2>5. \A s \in Reqs :
            pc'[s] = IF s = h THEN "hashing" ELSE IF s = r THEN next ELSE pc[s]
    BY <1>2, <2>1, <2>3 DEF RestInv
  <2>6. In("waiting")' = In("waiting") \ {h}
    BY <2>3, <2>5 DEF In
  <2>7. In("hashing")' = (In("hashing") \ {r}) \cup {h}
    BY <2>3, <2>5 DEF In
  <2>8. Cardinality(In("hashing")') = Cardinality(In("hashing"))
    <3>1. r \in In("hashing") /\ h \notin In("hashing") \ {r}
      BY <2>3 DEF In
    <3>2. IsFiniteSet(In("hashing") \ {r})
      BY Counts, FS_RemoveElement
    <3>3. Cardinality((In("hashing") \ {r}) \cup {h}) = Cardinality(In("hashing") \ {r}) + 1
      BY <3>1, <3>2, FS_AddElement
    <3>4. Cardinality(In("hashing") \ {r}) = Cardinality(In("hashing")) - 1
      BY <3>1, Counts
    <3>5. Cardinality(In("hashing")) \in Nat
      BY Counts
    <3>6. Cardinality((In("hashing") \ {r}) \cup {h}) = Cardinality(In("hashing"))
      BY <3>3, <3>4, <3>5
    <3>7. QED
      BY <2>7, <3>6
  <2>9. PlacesAreInUse'
    <3>1. taken' = Cardinality(In("hashing")') /\ taken' = Slots
      BY <1>2, <2>8 DEF PlacesAreInUse, In
    <3>2. QED
      BY <3>1 DEF PlacesAreInUse, In
  <2>10. QueueInv'
    BY <2>2, <2>6 DEF QueueInv
  <2>11. QED
    BY <1>2, <2>3, <2>4, <2>5, <2>9, <2>10 DEF RestInv
<1>3. QED
  BY <1>1, <1>2 DEF Release

(***************************************************************************)
(* One lemma per step                                                      *)
(***************************************************************************)

\* Whoever comes has not asked yet.
LEMMA ComeStep ==
    ASSUME IInv, NEW r \in Reqs, NEW hashes \in 1 .. MaxHashes, Come(r, hashes)
    PROVE  IInv'
<1>1. QueueInv' /\ PlacesAreInUse' /\ taken' \in 0 .. Slots
  BY Passing DEF Come, Goto, Pcs
<1>2. RestInv'
  BY <1>1 DEF Come, Goto, Pcs, IInv, RestInv
<1>3. LateInv'
  BY DEF Come, Goto, IInv, LateInv, RestInv, In
<1>4. QED
  BY <1>1, <1>2, <1>3 DEF IInv

\* Asking is where those who had gone before turn back.
LEMMA AskStep ==
    ASSUME IInv, NEW r \in Reqs, Ask(r)
    PROVE  IInv'
<1>1. CASE r \in gone /\ End(r) /\ UNCHANGED slots
  <2>1. QueueInv' /\ PlacesAreInUse' /\ taken' \in 0 .. Slots
    BY <1>1, Passing DEF Ask, End, Goto, Pcs
  <2>2. pc' \in [Reqs -> Pcs] /\ \A s \in Reqs \ {r} : pc'[s] = pc[s]
    BY <1>1 DEF End, Goto, Pcs, IInv, RestInv
  <2>3. RestInv' /\ LateInv'
    BY <1>1, <2>1, <2>2, Forgetting DEF End, IInv
  <2>4. QED
    BY <2>1, <2>3 DEF IInv
<1>2. CASE r \notin gone /\ Goto(r, "select") /\ UNCHANGED <<left, gone, late, slots>>
  <2>1. QueueInv' /\ PlacesAreInUse' /\ taken' \in 0 .. Slots
    BY <1>2, Passing DEF Ask, Goto, Pcs
  <2>2. RestInv' /\ LateInv'
    BY <1>2, <2>1 DEF Ask, Goto, Pcs, IInv, RestInv, LateInv, In
  <2>3. QED
    BY <2>1, <2>2 DEF IInv
<1>3. QED
  BY <1>1, <1>2 DEF Ask

\* A place is taken only while there is one.
LEMMA SelectStep ==
    ASSUME IInv, NEW r \in Reqs, Select(r)
    PROVE  IInv'
<1>. USE DEF IInv
<1>0. pc[r] = "select" /\ r \notin late
  BY DEF Select, LateInv, In
<1>1. CASE /\ taken < Slots
           /\ taken' = taken + 1
           /\ Goto(r, "hashing")
           /\ UNCHANGED <<queue, left, gone, late>>
  <2>1. In("hashing")' = In("hashing") \cup {r} /\ In("waiting")' = In("waiting")
    BY <1>0, <1>1, Arrives DEF Goto
  <2>2. r \notin In("hashing") /\ taken = Cardinality(In("hashing"))
    BY <1>0 DEF In, PlacesAreInUse
  <2>3. Cardinality(In("hashing") \cup {r}) = taken + 1
    BY <2>2, Counts
  <2>4. queue = <<>>
    BY <1>1, SlotsAssumption DEF PlacesAreInUse, RestInv
  <2>5. PlacesAreInUse'
    <3>1. taken' = Cardinality(In("hashing")')
      BY <1>1, <2>1, <2>3
    <3>2. QED
      BY <1>1, <2>4, <3>1 DEF PlacesAreInUse, In
  <2>6. QueueInv'
    BY <1>1, <2>1 DEF QueueInv
  <2>7. RestInv' /\ LateInv'
    BY <1>0, <1>1, SlotsAssumption DEF Goto, Pcs, RestInv, LateInv, In
  <2>8. QED
    BY <2>5, <2>6, <2>7
<1>2. CASE /\ taken = Slots
           /\ r \notin gone
           /\ queue' = Append(queue, r)
           /\ Goto(r, "waiting")
           /\ UNCHANGED <<taken, left, gone, late>>
  <2>1. In("waiting")' = In("waiting") \cup {r} /\ In("hashing")' = In("hashing")
    BY <1>0, <1>2, Arrives DEF Goto
  <2>2. r \notin ToSet(queue)
    BY <1>0 DEF QueueInv, In
  <2>3. QueueInv'
    <3>1. queue \in Seq(Reqs) /\ IsInjective(queue) /\ ToSet(queue) = In("waiting")
      BY DEF QueueInv
    <3>2. /\ queue' \in Seq(Reqs)
          /\ IsInjective(queue')
          /\ ToSet(queue') = ToSet(queue) \cup {r}
      BY <1>2, <2>2, <3>1, AppendOnce
    <3>3. QED
      BY <2>1, <3>1, <3>2 DEF QueueInv
  <2>4. PlacesAreInUse'
    BY <1>2, <2>1 DEF PlacesAreInUse, In
  <2>5. RestInv' /\ LateInv'
    BY <1>0, <1>2 DEF Goto, Pcs, RestInv, LateInv, In
  <2>6. QED
    BY <2>3, <2>4, <2>5
<1>3. CASE r \in gone /\ End(r) /\ UNCHANGED slots
  <2>1. QueueInv' /\ PlacesAreInUse' /\ taken' \in 0 .. Slots
    BY <1>0, <1>3, Passing DEF End, Goto, Pcs
  <2>2. pc' \in [Reqs -> Pcs] /\ \A s \in Reqs \ {r} : pc'[s] = pc[s]
    BY <1>3 DEF End, Goto, Pcs, RestInv
  <2>3. RestInv' /\ LateInv'
    BY <1>3, <2>1, <2>2, Forgetting DEF End
  <2>4. QED
    BY <2>1, <2>3
<1>4. QED
  BY <1>1, <1>2, <1>3 DEF Select

\* An abandoned send takes its own entry out of the queue and no other.
LEMMA GiveUpStep ==
    ASSUME IInv, NEW r \in Reqs, GiveUp(r)
    PROVE  IInv'
<1>. USE DEF IInv
<1>1. PICK i \in DOMAIN queue : queue[i] = r /\ queue' = RemoveAt(queue, i)
  BY DEF GiveUp
<1>2. /\ queue' \in Seq(Reqs)
      /\ IsInjective(queue')
      /\ ToSet(queue') = ToSet(queue) \ {r}
      /\ queue' # <<>> => queue # <<>>
  BY <1>1, RemoveOnce DEF QueueInv
<1>3. In("waiting")' = In("waiting") \ {r} /\ In("hashing")' = In("hashing")
  <2>1. pc[r] = "waiting" /\ pc' = [pc EXCEPT ![r] = "idle"]
    BY DEF GiveUp, End, Goto
  <2>2. In("waiting")' = In("waiting") \ {r}
    BY <2>1, Leaves
  <2>3. In("hashing")' = In("hashing")
    BY <2>1, Arrives
  <2>4. QED
    BY <2>2, <2>3
<1>4. QueueInv'
  BY <1>2, <1>3 DEF QueueInv
<1>5. PlacesAreInUse'
  BY <1>2, <1>3 DEF GiveUp, PlacesAreInUse, In
<1>6. pc' \in [Reqs -> Pcs] /\ \A s \in Reqs \ {r} : pc'[s] = pc[s]
  BY DEF GiveUp, End, Goto, Pcs, RestInv
<1>7. taken' \in 0 .. Slots
  BY DEF GiveUp, RestInv
<1>8. RestInv' /\ LateInv'
  BY <1>6, <1>7, Forgetting DEF GiveUp, End
<1>9. QED
  BY <1>4, <1>5, <1>8

\* The end of a hash gives its place back, once.
LEMMA HashStep ==
    ASSUME IInv, NEW r \in Reqs, Hash(r)
    PROVE  IInv'
<1>. USE DEF IInv
<1>0. pc[r] = "hashing"
  BY DEF Hash
<1>1. CASE /\ left[r] > 1
           /\ left' = [left EXCEPT ![r] = @ - 1]
           /\ Release(r, "acquire")
           /\ late' = late \cup ({r} \cap gone)
           /\ UNCHANGED gone
  <2>1. /\ QueueInv' /\ PlacesAreInUse' /\ taken' \in 0 .. Slots
        /\ pc' \in [Reqs -> Pcs] /\ pc'[r] = "acquire"
        /\ \A s \in Reqs \ {r} : \/ pc'[s] = pc[s]
                                 \/ pc[s] = "waiting" /\ pc'[s] = "hashing"
    BY <1>0, <1>1, Passes
  <2>2. left' \in [Reqs -> 0 .. MaxHashes]
    BY <1>1, SlotsAssumption DEF RestInv
  <2>3. RestInv'
    BY <1>1, <2>1, <2>2 DEF RestInv
  <2>4. LateInv'
    BY <1>1, <2>1 DEF LateInv, In, RestInv
  <2>5. QED
    BY <2>1, <2>3, <2>4
<1>2. CASE Release(r, "idle") /\ Forget(r)
  <2>1. /\ QueueInv' /\ PlacesAreInUse' /\ taken' \in 0 .. Slots
        /\ pc' \in [Reqs -> Pcs]
        /\ \A s \in Reqs \ {r} : \/ pc'[s] = pc[s]
                                 \/ pc[s] = "waiting" /\ pc'[s] = "hashing"
    BY <1>0, <1>2, Passes
  <2>2. RestInv' /\ LateInv'
    BY <1>2, <2>1, Forgetting
  <2>3. QED
    BY <2>1, <2>2
<1>3. QED
  BY <1>1, <1>2 DEF Hash

\* Hanging up is noticed by nobody until the request looks.
LEMMA HangUpStep ==
    ASSUME IInv, NEW r \in Reqs, HangUp(r)
    PROVE  IInv'
<1>1. QueueInv' /\ PlacesAreInUse'
  BY DEF HangUp, slots, IInv, QueueInv, PlacesAreInUse, In
<1>2. RestInv' /\ LateInv'
  BY DEF HangUp, slots, IInv, RestInv, LateInv, In
<1>3. QED
  BY <1>1, <1>2 DEF IInv

(***************************************************************************)
(* The theorems                                                            *)
(***************************************************************************)

\* The inductive invariant holds throughout.
LEMMA Inductive == Spec => []IInv
<1>1. Init => IInv
  <2>. SUFFICES ASSUME Init
               PROVE  IInv
    OBVIOUS
  <2>1. In("waiting") = {} /\ In("hashing") = {}
    BY DEF Init, In
  <2>2. QueueInv
    BY <2>1, EmptySeq DEF Init, QueueInv, ToSet, IsInjective
  <2>3. PlacesAreInUse
    BY <2>1, FS_EmptySet DEF Init, PlacesAreInUse, In
  <2>4. RestInv /\ LateInv
    BY SlotsAssumption DEF Init, RestInv, LateInv, Pcs
  <2>5. QED
    BY <2>2, <2>3, <2>4 DEF IInv
<1>2. IInv /\ [Next]_vars => IInv'
  <2>. SUFFICES ASSUME IInv, [Next]_vars
               PROVE  IInv'
    OBVIOUS
  <2>1. CASE UNCHANGED vars
    BY <2>1 DEF vars, slots, IInv, QueueInv, RestInv, PlacesAreInUse, LateInv, In
  <2>2. QED
    BY <2>1, ComeStep, AskStep, SelectStep, GiveUpStep, HashStep, HangUpStep
    DEF Next, RequestStep
<1>3. QED
  BY <1>1, <1>2, PTL DEF Spec

\* The queue is those who wait, once each, and nobody is remembered as gone once it
\* has its answer.
THEOREM TypeCorrect == Spec => []TypeOK
<1>1. IInv => TypeOK
  BY OnceIsShort, ReqsAssumption
  DEF IInv, QueueInv, RestInv, LateInv, In, TypeOK
<1>2. QED
  BY <1>1, Inductive, PTL

\* No place is lost and none is given twice, whoever gives up when; and nobody waits
\* while a place is free.
THEOREM PlacesCount == Spec => []PlacesAreInUse
  BY Inductive, PTL DEF IInv

\* No hash is run for a caller that had gone before it asked for a place.
THEOREM GoneAreNotServed == Spec => []NoHashForTheGone
<1>1. IInv => NoHashForTheGone
  BY DEF IInv, LateInv, In, NoHashForTheGone
<1>2. QED
  BY <1>1, Inductive, PTL

=============================================================================
