------------------------------- MODULE Limiter -------------------------------
(***************************************************************************)
(* The limiter in front of the handlers: a bucket of tokens for every      *)
(* address, refilled as time goes by and collected once it has long been   *)
(* full.                                                                   *)
(*                                                                         *)
(* Allow reads the clock before it takes the mutex, so requests reach the  *)
(* buckets in another order than they read it and the time between two of  *)
(* them may be negative.  One unit of time refills one token.              *)
(***************************************************************************)
EXTENDS Integers, FiniteSets

CONSTANTS
    Reqs,       \* HTTP requests
    Keys,       \* addresses they come from
    Burst,      \* tokens a bucket holds
    Crowd,      \* how many buckets there are before any is collected: 1024
    MaxTime,    \* bound on the clock
    MaxLag,     \* bound on the time from reading the clock to taking the mutex
    None        \* no bucket, no address

ASSUME BurstAssumption == Burst \in Nat \ {0} /\ Crowd \in Nat

\* A goroutine is not kept from the mutex for more than half as long as a bucket takes
\* to fill, which is a minute whatever the limit.
ASSUME LagAssumption == MaxTime \in Nat /\ MaxLag \in Nat /\ 2 * MaxLag <= Burst

\* A server has finitely many goroutines.
ASSUME ReqsAssumption == IsFiniteSet(Reqs)

VARIABLES
    time,       \* the clock
    bucket,     \* limiter.buckets
    pc,         \* where each request is
    key,        \* its address
    now         \* the clock as it read it

vars == <<time, bucket, pc, key, now>>

\* A bucket holds up to Burst tokens, less than none if the clock ran backwards.
Bucket == [tokens: -MaxTime .. Burst, last: 0 .. MaxTime]

ASSUME NoneAssumption == None \notin Keys \cup Bucket

\* No bucket was used later than now, and every request knows whose it uses.
TypeOK ==
    /\ time \in 0 .. MaxTime
    /\ bucket \in [Keys -> Bucket \cup {None}]
    /\ \A k \in Keys : bucket[k] # None => bucket[k].last <= time
    /\ pc \in [Reqs -> {"idle", "limit", "passed", "refused"}]
    /\ key \in [Reqs -> Keys \cup {None}]
    /\ now \in [Reqs -> 0 .. time]
    /\ \A r \in Reqs : pc[r] # "idle" => key[r] # None

Init ==
    /\ time = 0
    /\ bucket = [k \in Keys |-> None]
    /\ pc = [r \in Reqs |-> "idle"]
    /\ key = [r \in Reqs |-> None]
    /\ now = [r \in Reqs |-> 0]

\* Allow reads the clock.
Arrive(r, k) ==
    /\ pc[r] = "idle"
    /\ key' = [key EXCEPT ![r] = k]
    /\ now' = [now EXCEPT ![r] = time]
    /\ pc' = [pc EXCEPT ![r] = "limit"]
    /\ UNCHANGED <<time, bucket>>

Kept == {k \in Keys : bucket[k] # None}

\* Mutant: a bucket is collected as soon as it had the time to refill.
CollectedAtOnce(t) ==
    IF Cardinality(Kept) < Crowd THEN bucket
    ELSE [k \in Keys |-> IF k \in Kept /\ t - bucket[k].last >= Burst THEN None ELSE bucket[k]]

\* gcLocked: in a crowd, what was idle for twice the time it takes to refill goes.
Collected(t) ==
    IF Cardinality(Kept) < Crowd THEN bucket
    ELSE [k \in Keys |-> IF k \in Kept /\ t - bucket[k].last > 2 * Burst THEN None ELSE bucket[k]]

\* Mutant: nothing flows over.
TokensUncapped(b, t) == b.tokens + t - b.last

\* What is in a bucket at time t.
Tokens(b, t) ==
    LET sum == b.tokens + t - b.last IN IF sum > Burst THEN Burst ELSE sum

\* The bucket of r as it finds or makes it.
Found(r) ==
    IF key[r] \in Kept THEN bucket[key[r]] ELSE [tokens |-> Burst, last |-> now[r]]

\* Allow under the mutex: a new address has the others' buckets collected.
Allow(r) ==
    /\ pc[r] = "limit"
    /\ LET tokens == Tokens(Found(r), now[r])
           others == IF key[r] \in Kept THEN bucket ELSE Collected(now[r])
           paid == IF tokens < 1 THEN 0 ELSE 1
       IN  /\ bucket' = [others EXCEPT ![key[r]] = [tokens |-> tokens - paid, last |-> now[r]]]
           /\ pc' = [pc EXCEPT ![r] = IF paid = 1 THEN "passed" ELSE "refused"]
    /\ UNCHANGED <<time, key, now>>

\* Time passes.
Tick ==
    /\ time < MaxTime
    /\ \A r \in Reqs : pc[r] = "limit" => time < now[r] + MaxLag
    /\ time' = time + 1
    /\ UNCHANGED <<bucket, pc, key, now>>

Next ==
    \/ \E r \in Reqs : Allow(r) \/ \E k \in Keys : Arrive(r, k)
    \/ Tick

Spec == Init /\ [][Next]_vars

(***************************************************************************)
(* Properties                                                              *)
(***************************************************************************)

\* Requests of an address that came in some stretch of time and passed.
Passed(k, first, last) ==
    {r \in Reqs : key[r] = k /\ pc[r] = "passed" /\ now[r] \in first .. last}

\* No address gets more than a full bucket and what flowed in since, in any stretch of
\* time, in whatever order its requests reach the mutex and whatever is collected
\* (Allow, gcLocked).
WindowIsKept ==
    \A k \in Keys, first, last \in 0 .. time : first <= last =>
        Cardinality(Passed(k, first, last)) <= Burst + last - first

=============================================================================
