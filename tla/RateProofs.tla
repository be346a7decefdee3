----------------------------- MODULE RateProofs -----------------------------
(***************************************************************************)
(* Proofs that a bucket stays between nothing and its capacity, and that   *)
(* the limiter implements Bucket, for all keys, requests and arguments.    *)
(***************************************************************************)
EXTENDS RateHistory, WellFoundedInduction, TLAPS

Buckets == [tokens : 0..Capacity, lastRefill : Nat]

(* NewRateLimiter's arguments come out positive (ratelimit.go:29-35), and  *)
(* the ttl refills a bucket at least once (ratelimit.go:44).               *)
LEMMA Arguments ==
  /\ Limit \in Nat \ {0} /\ Interval \in Nat \ {0} /\ Capacity \in Nat /\ TTL \in Nat
  /\ Interval <= Capacity
  /\ Capacity <= TTL * Limit
<1>1. Limit \in Nat \ {0} /\ Interval \in Nat \ {0}
  BY RateAssumption DEF Limit, Interval
<1>2. \A i, l \in Nat \ {0} : i <= l * i /\ l * i \in Nat /\ l * i <= 2 * i * l
  OBVIOUS
<1> QED BY <1>1, <1>2 DEF Capacity, TTL

(* The refill of a span is that of its parts, and grows with it.           *)
LEMMA Spans ==
  ASSUME NEW l \in Nat, NEW x \in Nat, NEW y \in Nat
  PROVE  /\ x * l \in Nat
         /\ (x + y) * l = x * l + y * l
         /\ x <= y => x * l <= y * l
<1>1. x * l \in Nat /\ (x + y) * l = x * l + y * l
  OBVIOUS
<1>2. ASSUME x <= y PROVE x * l <= y * l
  <2>1. (y - x) \in Nat /\ y * l = (y - x) * l + x * l
    BY <1>2
  <2>2. (y - x) * l \in Nat
    BY <2>1
  <2> QED BY <1>1, <2>1, <2>2
<1> QED BY <1>1, <1>2

(* A refill stays within the capacity (ratelimit.go:86-91).                *)
LEMMA RefillType ==
  ASSUME NEW b \in Buckets, NEW t \in Nat
  PROVE  Refilled(b, t) \in 0..Capacity
<1>1. CASE t > b.lastRefill
  <2>1. (t - b.lastRefill) * Limit \in Nat
    BY <1>1, Arguments, Spans DEF Buckets
  <2> QED BY <1>1, <2>1, Arguments DEF Buckets, Refilled
<1>2. CASE ~(t > b.lastRefill)
  BY <1>2 DEF Buckets, Refilled
<1> QED BY <1>1, <1>2

(* Between two times a bucket gains at most the refill of that span, and   *)
(* loses nothing, whenever it was refilled last (ratelimit.go:85-91).      *)
LEMMA RefillGap ==
  ASSUME NEW b \in Buckets, NEW t \in Nat, NEW c \in Nat, t <= c, b.lastRefill <= c
  PROVE  /\ Refilled(b, t) <= Refilled(b, c)
         /\ Refilled(b, c) <= Refilled(b, t) + (c - t) * Limit
<1> DEFINE l == b.lastRefill
<1>1. l \in Nat /\ b.tokens \in 0..Capacity /\ Limit \in Nat /\ Capacity \in Nat
  BY Arguments DEF Buckets
<1>2. (c - t) * Limit \in Nat /\ (c - l) * Limit \in Nat
  BY <1>1, Spans
<1>3. CASE t > l
  <2>1. (t - l) * Limit \in Nat /\ (c - l) * Limit = (c - t) * Limit + (t - l) * Limit
    BY <1>1, <1>3
  <2> QED BY <1>1, <1>2, <1>3, <2>1 DEF Refilled
<1>4. CASE ~(t > l)
  <2>1. (c - l) * Limit <= (c - t) * Limit
    <3>1. c - l \in Nat /\ c - t \in Nat /\ c - l <= c - t
      BY <1>1, <1>4
    <3> QED BY <1>1, <3>1, Spans
  <2> QED BY <1>1, <1>2, <1>4, <2>1 DEF Refilled
<1> QED BY <1>3, <1>4

---------------------------------------------------------------------------
(* Types of the parts of a state, for the steps below. *)
LEMMA Typed ==
  ASSUME LimTypeOK
  PROVE  /\ clock \in Nat
         /\ \A k \in Keys : buckets[k] # NoBucket =>
              buckets[k] \in Buckets /\ buckets[k].lastRefill <= clock
         /\ \A q \in Requests :
              /\ req[q].now \in Nat /\ req[q].now <= clock
              /\ req[q] # NoRequest => req[q].key \in Keys
BY RateAssumption DEF LimTypeOK, Buckets, NoRequest

(* What a request finds is a level of its bucket (ratelimit.go:75-91).     *)
LEMMA FoundType ==
  ASSUME LimTypeOK, NEW k \in Keys, NEW t \in Nat
  PROVE  Found(k, t) \in 0..Capacity
BY Typed, RefillType, Arguments DEF Found

(* Spec => []LimTypeOK: tokens stay between nothing and the capacity, and  *)
(* no bucket was refilled in the future (ratelimit.go:84-99).              *)
THEOREM RateTypeCorrect == LimSpec => []LimTypeOK
<1>1. LimInit => LimTypeOK
  BY RateAssumption DEF LimInit, LimTypeOK, NoRequest
<1>2. LimTypeOK /\ [LimNext]_limVars => LimTypeOK'
  <2> SUFFICES ASSUME LimTypeOK, [LimNext]_limVars PROVE LimTypeOK'
    OBVIOUS
  <2>1. CASE Tick
    BY <2>1, RateAssumption DEF Tick, LimTypeOK, NoRequest
  <2>2. CASE Cleanup
    BY <2>2, RateAssumption DEF Cleanup, LimTypeOK, NoRequest
  <2>3. ASSUME NEW q \in Requests, Allow(q) PROVE LimTypeOK'
    <3> DEFINE k == req[q].key
               n == Found(k, req[q].now)
               rest == IF Admits(n) THEN n - Interval ELSE n
    <3>1. k \in Keys /\ req[q].now \in Nat
      BY <2>3, Typed DEF Allow
    <3>2. rest \in 0..Capacity
      BY <3>1, FoundType, Arguments DEF Admits
    <3>3. buckets' = [buckets EXCEPT ![k] = Bucket(rest, req[q].now)]
      BY <2>3 DEF Allow
    <3>4. Bucket(rest, req[q].now) \in [tokens : 0..Capacity, lastRefill : 0..MaxClock]
      BY <3>2 DEF Bucket, LimTypeOK
    <3> HIDE DEF rest, n, k
    <3> QED BY <2>3, <3>1, <3>2, <3>3, <3>4, RateAssumption DEF Allow, Bucket, LimTypeOK, NoRequest
  <2>4. ASSUME NEW q \in Requests, NEW k \in Keys, Arrive(q, k) PROVE LimTypeOK'
    BY <2>4, RateAssumption DEF Arrive, LimTypeOK, NoRequest
  <2>5. CASE UNCHANGED limVars
    BY <2>5 DEF limVars, LimTypeOK, NoRequest
  <2> QED BY <2>1, <2>2, <2>3, <2>4, <2>5 DEF LimNext
<1> QED BY <1>1, <1>2, PTL DEF LimSpec

---------------------------------------------------------------------------
(* With time a bucket fills up and loses nothing: a tick of the limiter is *)
(* a tick of Bucket (ratelimit.go:85-91).                                  *)
LEMMA TickPasses ==
  ASSUME LimTypeOK, Tick
  PROVE  B!Pass
<1>1. ASSUME NEW k \in Keys PROVE Found(k, clock)' = B!Capped(Found(k, clock) + Limit)
  <2>1. clock \in Nat /\ clock' = clock + 1 /\ buckets' = buckets
    BY Typed DEF Tick
  <2>2. CASE buckets[k] = NoBucket
    BY <2>1, <2>2, Arguments DEF Found, B!Capped, Capacity
  <2>3. CASE buckets[k] # NoBucket
    <3> DEFINE b == buckets[k]
               l == b.lastRefill
    <3>1. b \in Buckets /\ l \in Nat /\ l <= clock /\ b.tokens \in 0..Capacity
      BY <2>3, Typed DEF Buckets
    <3>2. /\ (clock - l) * Limit \in Nat
          /\ (clock + 1 - l) * Limit = (clock - l) * Limit + Limit
      <4>1. clock - l \in Nat /\ 1 * Limit = Limit /\ clock + 1 - l = (clock - l) + 1
        BY <2>1, <3>1, Arguments
      <4> QED BY <4>1, Spans, Arguments
    <3>3. Found(k, clock)' = Refilled(b, clock + 1) /\ Found(k, clock) = Refilled(b, clock)
      BY <2>1, <2>3 DEF Found, Refilled
    <3>4. (clock - l) * Limit = 0 \/ clock > l
      BY <2>1, <3>1, Arguments
    <3>5. Refilled(b, clock + 1) = B!Capped(Refilled(b, clock) + Limit)
      <4>1. /\ clock > l => Refilled(b, clock) = B!Capped(b.tokens + (clock - l) * Limit)
            /\ ~(clock > l) => Refilled(b, clock) = b.tokens
            /\ Refilled(b, clock + 1) = B!Capped(b.tokens + (clock + 1 - l) * Limit)
        BY <2>1, <3>1 DEF Refilled, B!Capped, Capacity
      <4>2. \A x \in Nat : B!Capped(B!Capped(x) + Limit) = B!Capped(x + Limit)
        BY Arguments DEF B!Capped, Capacity
      <4>3. /\ b.tokens \in Nat /\ b.tokens + (clock - l) * Limit \in Nat
            /\ b.tokens + (clock + 1 - l) * Limit = (b.tokens + (clock - l) * Limit) + Limit
        BY <3>1, <3>2, Arguments
      <4>4. CASE clock > l
        BY <4>1, <4>2, <4>3, <4>4
      <4>5. CASE ~(clock > l)
        <5>1. (clock - l) * Limit = 0
          BY <3>4, <4>5
        <5> QED BY <4>1, <4>3, <4>5, <5>1
      <4> QED BY <4>4, <4>5
    <3> QED BY <3>3, <3>5
  <2> QED BY <2>2, <2>3
<1>2. clock' = clock + 1 /\ req' = req
  BY DEF Tick
<1> QED BY <1>1, <1>2 DEF B!Pass

(* Only a bucket that is full again is forgotten (ratelimit.go:59): the    *)
(* cleanup changes no level.                                               *)
LEMMA CleanupForgetsNothing ==
  ASSUME LimTypeOK, Cleanup
  PROVE  UNCHANGED B!bucketVars
<1>1. ASSUME NEW k \in Keys PROVE Found(k, clock)' = Found(k, clock)
  <2>1. clock \in Nat /\ clock' = clock
    BY Typed DEF Cleanup
  <2>2. CASE buckets[k] # NoBucket /\ clock - buckets[k].lastRefill > TTL
    <3> DEFINE b == buckets[k]
               l == b.lastRefill
    <3>1. b \in Buckets /\ l \in Nat /\ l <= clock /\ b.tokens \in 0..Capacity
      BY <2>2, Typed DEF Buckets
    <3>2. TTL * Limit <= (clock - l) * Limit /\ (clock - l) * Limit \in Nat
      <4>1. clock - l \in Nat /\ TTL \in Nat /\ TTL <= clock - l
        BY <2>1, <2>2, <3>1, Arguments
      <4> QED BY <4>1, Spans, Arguments
    <3>3. Refilled(b, clock) = Capacity
      <4>1. clock > l
        BY <2>1, <2>2, <3>1, Arguments
      <4>2. TTL * Limit \in Nat /\ Capacity <= TTL * Limit
        BY Arguments, Spans
      <4> QED BY <3>1, <3>2, <4>1, <4>2, Arguments DEF Refilled
    <3>4. buckets'[k] = NoBucket
      BY <2>2 DEF Cleanup
    <3> QED BY <2>1, <2>2, <3>3, <3>4 DEF Found
  <2>3. CASE ~(buckets[k] # NoBucket /\ clock - buckets[k].lastRefill > TTL)
    <3>1. buckets'[k] = buckets[k]
      BY <2>3 DEF Cleanup
    <3> QED BY <2>1, <3>1 DEF Found, Refilled
  <2> QED BY <2>2, <2>3
<1> QED BY <1>1 DEF B!bucketVars, Cleanup

(* A decision of the limiter is one of Bucket: what it finds is at most    *)
(* the lag below the level, and what it leaves catches up with it          *)
(* (ratelimit.go:70, 75-100).                                              *)
LEMMA AllowDecides ==
  ASSUME LimTypeOK, NEW q \in Requests, Allow(q)
  PROVE  B!Decide(q)
<1>1. PICK k \in Keys, t \in Nat :
        req[q].key = k /\ req[q].now = t /\ clock \in Nat /\ t <= clock
  BY Typed DEF Allow
<1> DEFINE n == Found(k, t)
           level == Found(k, clock)
           cost == IF Admits(n) THEN Interval ELSE 0
           lag == (clock - t) * Limit
           b == Bucket(n - cost, t)
<1>2. lag \in Nat /\ lag = (clock - t) * Limit
  BY <1>1, Arguments, Spans
<1>3. n \in 0..Capacity /\ level \in 0..Capacity
  BY <1>1, FoundType
<1>4. n <= level /\ level <= n + lag
  <2>1. CASE buckets[k] = NoBucket
    BY <1>2, <2>1, Arguments DEF Found
  <2>2. CASE buckets[k] # NoBucket
    BY <1>1, <2>2, Typed, RefillGap DEF Found
  <2> QED BY <2>1, <2>2
<1>5. n - cost \in 0..Capacity /\ cost \in {0, Interval} /\ (Admits(n) <=> n >= Interval)
  BY <1>3, Arguments DEF Admits
<1>6. /\ buckets' = [buckets EXCEPT ![k] = b]
      /\ req' = [req EXCEPT ![q] = NoRequest]
      /\ clock' = clock
  <2>1. (IF Admits(n) THEN n - Interval ELSE n) = n - cost
    BY <1>3, Arguments
  <2> QED BY <1>1, <2>1 DEF Allow
<1>7. /\ \A j \in Keys \ {k} : Found(j, clock)' = Found(j, clock)
      /\ Found(k, clock)' = Refilled(b, clock)
  <2>1. buckets \in [Keys -> [tokens : 0..Capacity, lastRefill : 0..MaxClock] \cup {NoBucket}]
    BY DEF LimTypeOK
  <2>2. buckets'[k] = b /\ \A j \in Keys \ {k} : buckets'[j] = buckets[j]
    BY <1>1, <1>6, <2>1
  <2>3. b # NoBucket
    BY <1>1, <1>5, RateAssumption, Arguments DEF Bucket
  <2> QED BY <1>6, <2>2, <2>3 DEF Found, Refilled
<1>8. Refilled(b, clock) = B!Capped(n - cost + lag)
  <2>1. clock = t => lag = 0
    BY <1>1, Arguments
  <2> QED BY <1>1, <1>2, <1>5, <2>1, Arguments DEF Bucket, Refilled, B!Capped, Capacity
<1>9. B!Settle(k, cost, lag)
  <2>1. /\ level - cost <= B!Capped(n - cost + lag)
        /\ B!Capped(n - cost + lag) <= B!Capped(level - cost + lag)
    BY <1>2, <1>3, <1>4, <1>5, Arguments DEF B!Capped, Capacity
  <2> HIDE DEF n, cost, lag, b
  <2> QED BY <1>7, <1>8, <2>1 DEF B!Settle
<1>10. \/ cost = Interval /\ level >= Interval
       \/ cost = 0 /\ level < Interval + lag
  BY <1>2, <1>3, <1>4, <1>5, Arguments
<1>11. k # NoKey
  BY <1>1, RateAssumption
<1> HIDE DEF cost, b
<1> QED BY <1>1, <1>6, <1>9, <1>10, <1>11 DEF B!Decide, NoRequest

(* LimSpec => KeepsBucket: whatever the order in which requests get the    *)
(* lock, and however often idle buckets are forgotten, every key has its   *)
(* token bucket, up to the lag of each request (ratelimit.go:51-101).      *)
THEOREM LimiterKeepsBucket == LimSpec => KeepsBucket
<1>1. LimInit => B!BucketInit
  BY DEF LimInit, B!BucketInit, NoRequest, Found, Capacity
<1>2. LimTypeOK /\ [LimNext]_limVars => [B!BucketNext]_(B!bucketVars)
  <2> SUFFICES ASSUME LimTypeOK, [LimNext]_limVars
               PROVE  B!BucketNext \/ UNCHANGED B!bucketVars
    OBVIOUS
  <2>1. CASE Tick
    BY <2>1, TickPasses DEF B!BucketNext
  <2>2. CASE Cleanup
    BY <2>2, CleanupForgetsNothing
  <2>3. ASSUME NEW q \in Requests, Allow(q) PROVE B!BucketNext
    BY <2>3, AllowDecides DEF B!BucketNext
  <2>4. ASSUME NEW q \in Requests, NEW k \in Keys, Arrive(q, k) PROVE B!BucketNext
    <3>1. B!ComeIn(q, k)
      BY <2>4 DEF Arrive, B!ComeIn, NoRequest, Found, Refilled
    <3> QED BY <3>1 DEF B!BucketNext
  <2>5. CASE UNCHANGED limVars
    BY <2>5 DEF limVars, B!bucketVars, Found, Refilled
  <2> QED BY <2>1, <2>2, <2>3, <2>4, <2>5 DEF LimNext
<1> QED BY <1>1, <1>2, RateTypeCorrect, PTL DEF LimSpec, KeepsBucket, B!BucketSpec

---------------------------------------------------------------------------
(* The sums of RateHistory, by induction: a set of naturals that is not    *)
(* empty has a least one, so a counterexample to a claim about Total has   *)
(* one at an earliest time.                                                *)
LEMMA LeastNat ==
  ASSUME NEW T, T \subseteq Nat, T # {}
  PROVE  \E n \in T : \A m \in T : n <= m
<1>1. PICK n \in T : \A m \in T : <<m, n>> \notin OpToRel(<, Nat)
  BY WFMin, NatLessThanWellFounded, Zenon
<1>2. \A m \in T : ~(m < n)
  BY <1>1, Zenon DEF OpToRel
<1> QED BY <1>2, n \in Nat, \A m \in T : m \in Nat, SMT

LEMMA ByInduction ==
  ASSUME NEW S, 0 \in S, \A n \in Nat : n \in S => n + 1 \in S
  PROVE  Nat \subseteq S
<1> SUFFICES ASSUME Nat \ S # {} PROVE FALSE
  OBVIOUS
<1>1. PICK n \in Nat \ S : \A m \in Nat \ S : n <= m
  BY LeastNat
<1>2. n - 1 \in Nat /\ n - 1 \in S
  BY <1>1
<1> QED BY <1>2

Times == 0..MaxClock
Counts == [Times -> Nat]

\* g is the sum of counts from "from" on, up to each time before n
SumUpTo(g, counts, from, n) ==
  g = [t \in -1..n |-> IF t < from THEN 0 ELSE counts[t] + g[t - 1]]

LEMMA SumExists ==
  ASSUME NEW counts \in Counts, NEW from \in Nat
  PROVE  \E g \in [-1..MaxClock -> Nat] : SumUpTo(g, counts, from, MaxClock)
<1> DEFINE S == {n \in Nat : n <= MaxClock + 1 => \E g \in [-1..n-1 -> Nat] : SumUpTo(g, counts, from, n - 1)}
<1>1. 0 \in S
  <2> DEFINE g == [t \in -1..0-1 |-> 0]
  <2>1. g \in [-1..0-1 -> Nat] /\ SumUpTo(g, counts, from, 0 - 1)
    BY DEF SumUpTo
  <2> QED BY <2>1
<1>2. ASSUME NEW n \in Nat, n \in S PROVE n + 1 \in S
  <2> SUFFICES ASSUME n + 1 <= MaxClock + 1
               PROVE  \E g \in [-1..n -> Nat] : SumUpTo(g, counts, from, n)
    OBVIOUS
  <2>1. PICK g \in [-1..n-1 -> Nat] : SumUpTo(g, counts, from, n - 1)
    BY <1>2, RateAssumption
  <2>2. n \in Times /\ counts[n] \in Nat
    BY RateAssumption DEF Times, Counts
  <2> DEFINE h == [t \in -1..n |-> IF t = n THEN IF n < from THEN 0 ELSE counts[n] + g[n - 1] ELSE g[t]]
  <2>3. h \in [-1..n -> Nat]
    <3>1. ASSUME NEW t \in -1..n PROVE h[t] \in Nat
      BY <2>1, <2>2
    <3> QED BY <3>1
  <2>4. ASSUME NEW t \in -1..n PROVE h[t] = IF t < from THEN 0 ELSE counts[t] + h[t - 1]
    <3>1. CASE t = n
      BY <3>1, <2>2
    <3>2. CASE t # n
      <4>1. t \in -1..n-1 /\ g[t] = IF t < from THEN 0 ELSE counts[t] + g[t - 1]
        BY <2>1, <3>2 DEF SumUpTo
      <4> QED BY <3>2, <4>1
    <3> QED BY <3>1, <3>2
  <2>5. SumUpTo(h, counts, from, n)
    BY <2>4 DEF SumUpTo
  <2> QED BY <2>3, <2>5
<1>3. MaxClock + 1 \in S
  <2> HIDE DEF S
  <2>1. Nat \subseteq S
    BY <1>1, <1>2, ByInduction
  <2> QED BY <2>1, RateAssumption
<1> QED BY <1>3, RateAssumption

(* What the recursion of Total says, for every time.                       *)
LEMMA TotalUnfolds ==
  ASSUME NEW counts \in Counts, NEW from \in Nat
  PROVE  /\ \A t \in -1..MaxClock : Total(counts, from, t) \in Int
         /\ \A t \in -1..MaxClock : t < from => Total(counts, from, t) = 0
         /\ \A t \in Times : from <= t =>
              Total(counts, from, t) = counts[t] + Total(counts, from, t - 1)
<1> DEFINE sum == CHOOSE g : g = [t \in -1..MaxClock |-> IF t < from THEN 0 ELSE counts[t] + g[t - 1]]
<1>1. \A t : Total(counts, from, t) = sum[t]
  BY DEF Total
<1>2. sum = [t \in -1..MaxClock |-> IF t < from THEN 0 ELSE counts[t] + sum[t - 1]]
  <2>1. \E g : g = [t \in -1..MaxClock |-> IF t < from THEN 0 ELSE counts[t] + g[t - 1]]
    BY SumExists DEF SumUpTo
  <2> QED BY <2>1
<1> HIDE DEF sum
<1> DEFINE S == {n \in Nat : n - 1 <= MaxClock => sum[n - 1] \in Int}
<1>3. 0 \in S
  BY <1>2, RateAssumption
<1>4. ASSUME NEW n \in Nat, n \in S PROVE n + 1 \in S
  <2>1. n <= MaxClock => n \in -1..MaxClock /\ n \in Times /\ counts[n] \in Nat /\ sum[n - 1] \in Int
    BY <1>4, RateAssumption DEF Times, Counts
  <2>2. n <= MaxClock => sum[n] = IF n < from THEN 0 ELSE counts[n] + sum[n - 1]
    BY <2>1, <1>2
  <2> QED BY <2>1, <2>2, RateAssumption
<1>5. Nat \subseteq S
  <2> HIDE DEF S
  <2> QED BY <1>3, <1>4, ByInduction
<1>6. ASSUME NEW t \in -1..MaxClock
      PROVE  /\ sum[t] \in Int
             /\ t < from => sum[t] = 0
             /\ t >= from => sum[t] = counts[t] + sum[t - 1]
  <2>1. t + 1 \in Nat /\ t + 1 \in S
    BY <1>5
  <2>2. sum[t] \in Int
    BY <2>1, RateAssumption
  <2>3. sum[t] = IF t < from THEN 0 ELSE counts[t] + sum[t - 1]
    BY <1>2
  <2> QED BY <2>2, <2>3, RateAssumption
<1> QED BY <1>1, <1>6, RateAssumption DEF Times

LEMMA TimeInduction ==
  ASSUME NEW S, -1 \in S, \A t \in Times : t - 1 \in S => t \in S
  PROVE  -1..MaxClock \subseteq S
<1> DEFINE N == {n \in Nat : n - 1 <= MaxClock => n - 1 \in S}
<1>1. 0 \in N
  OBVIOUS
<1>2. ASSUME NEW n \in Nat, n \in N PROVE n + 1 \in N
  <2>1. n <= MaxClock => n \in Times /\ n - 1 \in S
    BY <1>2, RateAssumption DEF Times
  <2>2. n <= MaxClock => n \in S
    BY <2>1
  <2>3. (n + 1) - 1 = n
    OBVIOUS
  <2> QED BY <2>2, <2>3
<1>3. Nat \subseteq N
  <2> HIDE DEF N
  <2> QED BY <1>1, <1>2, ByInduction
<1>4. ASSUME NEW t \in -1..MaxClock PROVE t \in S
  <2>1. t + 1 \in Nat /\ (t + 1) - 1 = t /\ t <= MaxClock
    BY RateAssumption
  <2>2. t + 1 \in N
    BY <1>3, <2>1
  <2> QED BY <2>1, <2>2
<1> QED BY <1>4

LEMMA TotalType ==
  ASSUME NEW counts \in Counts, NEW from \in Nat
  PROVE  \A t \in -1..MaxClock : Total(counts, from, t) \in Nat
<1> DEFINE S == {t \in -1..MaxClock : Total(counts, from, t) \in Nat}
<1>1. -1 \in S
  BY TotalUnfolds, RateAssumption
<1>2. ASSUME NEW t \in Times, t - 1 \in S PROVE t \in S
  <2>1. t \in -1..MaxClock /\ counts[t] \in Nat /\ Total(counts, from, t - 1) \in Nat
    BY <1>2, RateAssumption DEF Times, Counts
  <2>2. t < from => Total(counts, from, t) = 0
    BY <2>1, TotalUnfolds
  <2>3. from <= t => Total(counts, from, t) = counts[t] + Total(counts, from, t - 1)
    BY TotalUnfolds
  <2>4. t \in Int
    BY DEF Times
  <2> QED BY <2>1, <2>2, <2>3, <2>4
<1> HIDE DEF S
<1>3. -1..MaxClock \subseteq S
  BY <1>1, <1>2, TimeInduction
<1> QED BY <1>3 DEF S

(* One more at a time counts in every sum that spans it, and in no other.  *)
LEMMA TotalAdds ==
  ASSUME NEW counts \in Counts, NEW from \in Nat, NEW c \in Times
  PROVE  /\ [counts EXCEPT ![c] = @ + 1] \in Counts
         /\ \A t \in -1..MaxClock :
              Total([counts EXCEPT ![c] = @ + 1], from, t)
                = Total(counts, from, t) + (IF from <= c /\ c <= t THEN 1 ELSE 0)
<1> DEFINE more == [counts EXCEPT ![c] = @ + 1]
           extra(t) == IF from <= c /\ c <= t THEN 1 ELSE 0
           S == {t \in -1..MaxClock : Total(more, from, t) = Total(counts, from, t) + extra(t)}
<1>1. more \in Counts /\ \A t \in Times : more[t] = IF t = c THEN counts[t] + 1 ELSE counts[t]
  BY DEF Counts, Times
<1> HIDE DEF more
<1>2. -1 \in S
  <2>1. -1 \in -1..MaxClock /\ -1 < from /\ extra(-1) = 0
    BY RateAssumption DEF Times
  <2> QED BY <1>1, <2>1, TotalUnfolds
<1>3. ASSUME NEW t \in Times, t - 1 \in S PROVE t \in S
  <2>1. t \in -1..MaxClock /\ t \in Int /\ c \in Int /\ counts[t] \in Nat /\ Total(counts, from, t - 1) \in Nat
    <3>1. t - 1 \in -1..MaxClock /\ Total(counts, from, t - 1) \in Nat
      BY <1>3, TotalType
    <3>2. counts[t] \in Nat
      BY DEF Counts
    <3> QED BY <3>1, <3>2, RateAssumption DEF Times
  <2>2. CASE t < from
    <3>1. Total(counts, from, t) = 0 /\ Total(more, from, t) = 0
      BY <1>1, <2>1, <2>2, TotalUnfolds
    <3> QED BY <2>1, <2>2, <3>1
  <2>3. CASE from <= t
    <3>1. /\ Total(counts, from, t) = counts[t] + Total(counts, from, t - 1)
          /\ Total(more, from, t) = more[t] + Total(more, from, t - 1)
      BY <1>1, <2>3, TotalUnfolds
    <3>2. Total(more, from, t - 1) = Total(counts, from, t - 1) + extra(t - 1)
      BY <1>3
    <3>3. more[t] + extra(t - 1) = counts[t] + extra(t)
      BY <1>1, <2>1, <2>3
    <3> QED BY <1>1, <2>1, <3>1, <3>2, <3>3
  <2> QED BY <2>1, <2>2, <2>3
<1>4. -1..MaxClock \subseteq S
  <2> HIDE DEF S
  <2> QED BY <1>2, <1>3, TimeInduction
<1> QED BY <1>1, <1>4 DEF more

(* Times without admissions add nothing.                                   *)
LEMMA TotalRests ==
  ASSUME NEW counts \in Counts, NEW from \in Nat, NEW m \in Times,
         \A t \in Times : t > m => counts[t] = 0
  PROVE  \A t \in Times : t >= m => Total(counts, from, t) = Total(counts, from, m)
<1> DEFINE S == {t \in -1..MaxClock : t >= m => Total(counts, from, t) = Total(counts, from, m)}
<1>1. -1 \in S
  BY RateAssumption DEF Times
<1>2. ASSUME NEW t \in Times, t - 1 \in S PROVE t \in S
  <2>1. t \in -1..MaxClock /\ t \in Int /\ m \in Int /\ m \in -1..MaxClock
    BY RateAssumption DEF Times
  <2>2. CASE t <= m
    BY <2>1, <2>2
  <2>3. CASE t > m
    <3>1. Total(counts, from, t - 1) = Total(counts, from, m) /\ counts[t] = 0
      BY <1>2, <2>1, <2>3
    <3>2. Total(counts, from, m) \in Nat
      BY <2>1, TotalType
    <3>3. CASE t < from
      <4>1. Total(counts, from, t) = 0 /\ Total(counts, from, m) = 0
        BY <2>1, <2>3, <3>3, TotalUnfolds
      <4> QED BY <2>1, <4>1
    <3>4. CASE from <= t
      BY <2>1, <3>1, <3>2, <3>4, TotalUnfolds
    <3> QED BY <2>1, <3>3, <3>4
  <2> QED BY <2>1, <2>2, <2>3
<1>3. -1..MaxClock \subseteq S
  <2> HIDE DEF S
  <2> QED BY <1>1, <1>2, TimeInduction
<1> QED BY <1>3, RateAssumption DEF Times

---------------------------------------------------------------------------
(* The refill of a span, with spans of no length and less.                 *)
LEMMA Refills ==
  ASSUME NEW x \in Int, NEW y \in Int
  PROVE  /\ x * Limit \in Int
         /\ (x + y) * Limit = x * Limit + y * Limit
         /\ x <= y => x * Limit <= y * Limit
         /\ 0 <= x => 0 <= x * Limit
         /\ x < 0 => x * Limit < 0
<1>1. Limit \in Nat \ {0}
  BY Arguments
<1>2. \A l \in Nat \ {0} : /\ x * l \in Int
                           /\ (x + y) * l = x * l + y * l
                           /\ x <= y => x * l <= y * l
                           /\ 0 <= x => 0 <= x * l
                           /\ x < 0 => x * l < 0
  OBVIOUS
<1> QED BY <1>1, <1>2

LEMMA Costs ==
  ASSUME NEW x \in Nat
  PROVE  /\ Interval * x \in Nat
         /\ Interval * (x + 1) = Interval * x + Interval
         /\ \A y \in Nat : Interval * x < Interval * y => x < y
<1>1. Interval \in Nat \ {0}
  BY Arguments
<1>2. \A i \in Nat \ {0} : /\ i * x \in Nat
                           /\ i * (x + 1) = i * x + i
                           /\ \A y \in Nat : i * x < i * y => x < y
  OBVIOUS
<1> QED BY <1>1, <1>2

(* The books of a key, by the times its requests had read: since any time  *)
(* it has spent no more than a full bucket and the refill up to the last   *)
(* time, and what is left of that is at least the level.                   *)
Balanced(counts, last, lev) ==
  /\ \A t \in Times : t > last => counts[t] = 0
  /\ \A a \in 0..last : Interval * Total(counts, a, last) + lev <= Capacity + (last - a) * Limit
  /\ \A t \in Times : \A a \in 0..t : Interval * Total(counts, a, t) <= Capacity + (t - a) * Limit

(* Time passes, and the level rises by what it brings at most, and never   *)
(* beyond the capacity (ratelimit.go:84-93).                               *)
LEMMA BalanceRefills ==
  ASSUME NEW counts \in Counts, NEW last \in Times, NEW lev \in 0..Capacity,
         NEW now \in Times, NEW n \in 0..Capacity,
         last <= now, n <= lev + (now - last) * Limit,
         Balanced(counts, last, lev)
  PROVE  Balanced(counts, now, n)
<1>1. last \in Int /\ now \in Int /\ last \in Nat /\ now \in Nat /\ Capacity \in Nat
  BY Arguments DEF Times
<1>2. \A t \in Times : t > now => counts[t] = 0
  BY <1>1 DEF Balanced, Times
<1>3. ASSUME NEW a \in 0..now
      PROVE  Interval * Total(counts, a, now) + n <= Capacity + (now - a) * Limit
  <2>1. a \in Nat /\ a <= now /\ (now - a) * Limit \in Nat
    <3>1. a \in Nat /\ a <= now /\ now - a \in Int /\ 0 <= now - a
      BY <1>1
    <3> QED BY <3>1, Refills
  <2>2. Total(counts, a, now) = Total(counts, a, last)
    BY <2>1, TotalRests DEF Balanced
  <2>3. CASE a <= last
    <3>1. Interval * Total(counts, a, last) + lev <= Capacity + (last - a) * Limit
      BY <1>1, <2>1, <2>3 DEF Balanced
    <3>2. (now - a) * Limit = (now - last) * Limit + (last - a) * Limit
      <4>1. now - a = (now - last) + (last - a) /\ now - last \in Int /\ last - a \in Int
        BY <1>1, <2>1
      <4> QED BY <4>1, Refills
    <3>3. Interval * Total(counts, a, last) \in Nat
      <4>1. last \in -1..MaxClock
        BY RateAssumption DEF Times
      <4> QED BY <2>1, <4>1, TotalType, Costs
    <3>4. (now - last) * Limit \in Int /\ (last - a) * Limit \in Int
      BY <1>1, <2>1, Refills
    <3> QED BY <1>1, <2>2, <3>1, <3>2, <3>3, <3>4
  <2>4. CASE last < a
    <3>1. Total(counts, a, last) = 0
      <4>1. last \in -1..MaxClock
        BY RateAssumption DEF Times
      <4> QED BY <2>1, <2>4, <4>1, TotalUnfolds
    <3>2. Interval * 0 = 0
      BY Arguments
    <3> QED BY <1>1, <2>1, <2>2, <3>1, <3>2
  <2> QED BY <1>1, <2>1, <2>3, <2>4
<1> QED BY <1>2, <1>3 DEF Balanced

(* An admission is paid from the level (ratelimit.go:95-100).              *)
LEMMA BalanceSpends ==
  ASSUME NEW counts \in Counts, NEW now \in Times, NEW n \in 0..Capacity,
         Interval <= n, Balanced(counts, now, n)
  PROVE  Balanced([counts EXCEPT ![now] = @ + 1], now, n - Interval)
<1> DEFINE more == [counts EXCEPT ![now] = @ + 1]
<1>1. now \in Nat /\ n \in Nat /\ Capacity \in Nat /\ Interval \in Nat \ {0} /\ now \in -1..MaxClock
  BY Arguments, RateAssumption DEF Times
<1>2. more \in Counts /\ \A a \in Nat : \A t \in -1..MaxClock :
        Total(more, a, t) = Total(counts, a, t) + (IF a <= now /\ now <= t THEN 1 ELSE 0)
  BY TotalAdds
<1>3. \A t \in Times : t > now => more[t] = 0
  BY <1>1 DEF Balanced, Counts, Times
<1> HIDE DEF more
<1>4. ASSUME NEW a \in 0..now
      PROVE  Interval * Total(more, a, now) + (n - Interval) <= Capacity + (now - a) * Limit
  <2>1. a \in Nat /\ a <= now
    BY <1>1
  <2>2. Total(more, a, now) = Total(counts, a, now) + 1
    BY <1>1, <1>2, <2>1
  <2>3. Total(counts, a, now) \in Nat
    BY <1>1, <2>1, TotalType
  <2>4. Interval * Total(counts, a, now) + n <= Capacity + (now - a) * Limit
    BY DEF Balanced
  <2>5. /\ Interval * (Total(counts, a, now) + 1) = Interval * Total(counts, a, now) + Interval
        /\ Interval * Total(counts, a, now) \in Nat
    BY <2>3, Costs
  <2>6. (now - a) * Limit \in Int
    BY <1>1, <2>1, Refills
  <2> QED BY <1>1, <2>2, <2>4, <2>5, <2>6
<1>5. ASSUME NEW t \in Times, NEW a \in 0..t
      PROVE  Interval * Total(more, a, t) <= Capacity + (t - a) * Limit
  <2>1. t \in Nat /\ t \in -1..MaxClock /\ a \in Nat /\ a <= t
    BY RateAssumption DEF Times
  <2>2. CASE a <= now /\ now <= t
    <3>1. Total(more, a, t) = Total(more, a, now)
      BY <1>2, <1>3, <2>1, <2>2, TotalRests
    <3>2. Interval * Total(more, a, now) + (n - Interval) <= Capacity + (now - a) * Limit
      BY <1>1, <1>4, <2>1, <2>2
    <3>3. (now - a) * Limit <= (t - a) * Limit /\ (now - a) * Limit \in Int /\ (t - a) * Limit \in Int
      <4>1. now - a \in Int /\ t - a \in Int /\ now - a <= t - a
        BY <1>1, <2>1, <2>2
      <4> QED BY <4>1, Refills
    <3>4. Interval * Total(more, a, now) \in Nat
      BY <1>1, <1>2, <2>1, TotalType, Costs
    <3> QED BY <1>1, <3>1, <3>2, <3>3, <3>4
  <2>3. CASE ~(a <= now /\ now <= t)
    <3>1. Total(counts, a, t) \in Nat
      BY <2>1, TotalType
    <3>2. Total(more, a, t) = Total(counts, a, t)
      BY <1>2, <2>1, <2>3, <3>1
    <3> QED BY <3>2 DEF Balanced
  <2> QED BY <2>2, <2>3
<1> QED BY <1>3, <1>4, <1>5 DEF Balanced, more

(* What a key is due, by the time that passed: since time a it has been    *)
(* given back the refill up to its last time, or all of its capacity; what *)
(* its bucket lacks of that, it has been granted since (ratelimit.go:      *)
(* 75-100).                                                                *)
Due(a, last) ==
  IF a = 0 \/ Capacity < (last - a + 1) * Limit THEN Capacity ELSE (last - a + 1) * Limit

Earned(counts, last, lev, c) ==
  \A a \in 0..c : Due(a, last) <= lev + Interval * Total(counts, a, c)

LEMMA DueType ==
  ASSUME NEW a \in Nat, NEW last \in Int
  PROVE  Due(a, last) \in Int /\ Due(a, last) <= Capacity /\ (last - a + 1) * Limit \in Int
<1>1. last - a + 1 \in Int
  OBVIOUS
<1> QED BY <1>1, Refills, Arguments DEF Due

LEMMA SumCosts ==
  ASSUME NEW counts \in Counts, NEW a \in Nat, NEW c \in Times
  PROVE  Total(counts, a, c) \in Nat /\ Interval * Total(counts, a, c) \in Nat
<1>1. c \in -1..MaxClock
  BY RateAssumption DEF Times
<1> QED BY <1>1, TotalType, Costs

(* A request brings the bucket to the time it had read, be it later than   *)
(* the last refill or before it (ratelimit.go:84-93).                      *)
LEMMA EarnedRefills ==
  ASSUME NEW counts \in Counts, NEW c \in Times, NEW last \in Times, NEW lev \in 0..Capacity,
         NEW now \in Times, NEW n \in 0..Capacity,
         \/ n = Capacity
         \/ last <= now /\ n = lev + (now - last) * Limit
         \/ now <= last /\ n = lev,
         Earned(counts, last, lev, c)
  PROVE  Earned(counts, now, n, c)
<1> SUFFICES ASSUME NEW a \in 0..c
             PROVE  Due(a, now) <= n + Interval * Total(counts, a, c)
  BY DEF Earned
<1>1. /\ a \in Nat /\ last \in Int /\ now \in Int /\ lev \in Nat /\ n \in Nat /\ Capacity \in Nat
      /\ Interval * Total(counts, a, c) \in Nat
  <2>1. a \in Nat /\ last \in Int /\ now \in Int
    BY DEF Times
  <2> QED BY <2>1, Arguments, SumCosts
<1>2. Due(a, last) <= lev + Interval * Total(counts, a, c)
  BY DEF Earned
<1>3. /\ Due(a, now) \in Int /\ Due(a, now) <= Capacity /\ (now - a + 1) * Limit \in Int
      /\ Due(a, last) \in Int /\ Due(a, last) <= Capacity /\ (last - a + 1) * Limit \in Int
  BY <1>1, DueType
<1>4. CASE n = Capacity
  BY <1>1, <1>3, <1>4
<1>5. CASE last <= now /\ n = lev + (now - last) * Limit
  <2>1. /\ (now - a + 1) * Limit = (now - last) * Limit + (last - a + 1) * Limit
        /\ (now - last) * Limit \in Int /\ 0 <= (now - last) * Limit
    <3>1. /\ now - last \in Int /\ last - a + 1 \in Int /\ 0 <= now - last
          /\ now - a + 1 = (now - last) + (last - a + 1)
      BY <1>1, <1>5
    <3> QED BY <3>1, Refills
  <2>2. Due(a, now) <= Due(a, last) + (now - last) * Limit
    BY <1>1, <1>3, <2>1 DEF Due
  <2> QED BY <1>1, <1>2, <1>3, <1>5, <2>1, <2>2
<1>6. CASE now <= last /\ n = lev
  <2>1. (now - a + 1) * Limit <= (last - a + 1) * Limit
    <3>1. now - a + 1 \in Int /\ last - a + 1 \in Int /\ now - a + 1 <= last - a + 1
      BY <1>1, <1>6
    <3> QED BY <3>1, Refills
  <2>2. Due(a, now) <= Due(a, last)
    BY <1>1, <1>3, <2>1 DEF Due
  <2> QED BY <1>1, <1>2, <1>3, <1>6, <2>2
<1> QED BY <1>4, <1>5, <1>6

(* What an admission takes, it has granted (ratelimit.go:95-100).          *)
LEMMA EarnedSpends ==
  ASSUME NEW counts \in Counts, NEW c \in Times, NEW last \in Times, NEW n \in 0..Capacity,
         Interval <= n, Earned(counts, last, n, c)
  PROVE  Earned([counts EXCEPT ![c] = @ + 1], last, n - Interval, c)
<1> DEFINE more == [counts EXCEPT ![c] = @ + 1]
<1> SUFFICES ASSUME NEW a \in 0..c
             PROVE  Due(a, last) <= (n - Interval) + Interval * Total(more, a, c)
  BY DEF Earned
<1>1. c \in -1..MaxClock /\ c \in Nat /\ a \in Nat /\ a <= c /\ last \in Int
  BY RateAssumption DEF Times
<1>2. Total(more, a, c) = Total(counts, a, c) + 1
  BY <1>1, TotalAdds
<1>3. Total(counts, a, c) \in Nat /\ Interval * Total(counts, a, c) \in Nat
  BY <1>1, SumCosts
<1>4. Interval * (Total(counts, a, c) + 1) = Interval * Total(counts, a, c) + Interval
  BY <1>3, Costs
<1>5. Due(a, last) <= n + Interval * Total(counts, a, c)
  BY DEF Earned
<1> HIDE DEF more
<1> QED BY <1>1, <1>2, <1>3, <1>4, <1>5, DueType, Arguments

LEMMA EarnedWaits ==
  ASSUME NEW counts \in Counts, NEW c \in Times, c + 1 \in Times,
         NEW last \in Times, NEW lev \in 0..Capacity,
         last <= c, Earned(counts, last, lev, c)
  PROVE  Earned(counts, last, lev, c + 1)
<1> SUFFICES ASSUME NEW a \in 0..(c + 1)
             PROVE  Due(a, last) <= lev + Interval * Total(counts, a, c + 1)
  BY DEF Earned
<1>1. /\ c \in Nat /\ a \in Nat /\ a <= c + 1 /\ last \in Int /\ lev \in Nat /\ Capacity \in Nat
      /\ Interval * Total(counts, a, c + 1) \in Nat
  <2>1. c \in Nat /\ a \in Nat /\ a <= c + 1 /\ last \in Int
    BY DEF Times
  <2> QED BY <2>1, SumCosts, Arguments
<1>2. CASE a <= c
  <2>1. Total(counts, a, c + 1) = counts[c + 1] + Total(counts, a, c)
    <3>1. (c + 1) - 1 = c /\ a <= c + 1
      BY <1>1, <1>2
    <3> QED BY <1>1, <3>1, TotalUnfolds
  <2>2. counts[c + 1] \in Nat /\ Total(counts, a, c) \in Nat /\ Total(counts, a, c + 1) \in Nat
    BY <1>1, SumCosts DEF Counts
  <2>3. Interval * Total(counts, a, c) <= Interval * Total(counts, a, c + 1)
    <3>1. Total(counts, a, c) <= Total(counts, a, c + 1) /\ Interval \in Nat
      BY <2>1, <2>2, Arguments
    <3>2. \A x, y, i \in Nat : x <= y => i * x <= i * y
      OBVIOUS
    <3> QED BY <2>2, <3>1, <3>2
  <2>4. Due(a, last) <= lev + Interval * Total(counts, a, c)
    BY <1>1, <1>2 DEF Earned
  <2>5. Interval * Total(counts, a, c) \in Nat /\ Due(a, last) \in Int
    BY <1>1, SumCosts, DueType
  <2> QED BY <1>1, <2>3, <2>4, <2>5
<1>3. CASE ~(a <= c)
  <2>1. a # 0 /\ last - a + 1 \in Int /\ last - a + 1 <= 0
    BY <1>1, <1>3
  <2>2. (last - a + 1) * Limit <= 0 * Limit /\ 0 * Limit = 0 /\ (last - a + 1) * Limit \in Int
    BY <2>1, Refills, Arguments
  <2>3. Due(a, last) <= 0 /\ Due(a, last) \in Int
    BY <1>1, <2>1, <2>2 DEF Due
  <2> QED BY <1>1, <2>3
<1> QED BY <1>2, <1>3

---------------------------------------------------------------------------
(* The inductive invariant: both books of every key.                       *)
Seen(k)  == IF buckets[k] = NoBucket THEN clock ELSE buckets[k].lastRefill
Level(k) == IF buckets[k] = NoBucket THEN Capacity ELSE buckets[k].tokens

HistTypeOK == granted \in [Keys -> Counts] /\ asOf \in [Keys -> Counts]
Spending(k) == k \notin overtaken => Balanced(asOf[k], Seen(k), Level(k))
Earning(k) ==
  buckets[k] # NoBucket => Earned(granted[k], buckets[k].lastRefill, buckets[k].tokens, clock)

HistInv == HistTypeOK /\ \A k \in Keys : Spending(k) /\ Earning(k)

LEMMA HistTyped ==
  ASSUME LimTypeOK, HistTypeOK, NEW k \in Keys
  PROVE  /\ clock \in Times /\ Seen(k) \in Times /\ Seen(k) <= clock /\ Level(k) \in 0..Capacity
         /\ granted[k] \in Counts /\ asOf[k] \in Counts
         /\ buckets[k] # NoBucket => /\ buckets[k].lastRefill \in Times
                                     /\ buckets[k].lastRefill <= clock
                                     /\ buckets[k].tokens \in 0..Capacity
<1>1. clock \in Times /\ clock \in Nat
  BY DEF LimTypeOK, Times
<1>2. buckets[k] # NoBucket => /\ buckets[k].lastRefill \in Times
                               /\ buckets[k].lastRefill <= clock
                               /\ buckets[k].tokens \in 0..Capacity
  BY DEF LimTypeOK, Times
<1> QED BY <1>1, <1>2, Arguments DEF Seen, Level, HistTypeOK

LEMMA HistStarts == HistInit => HistInv
<1> SUFFICES ASSUME HistInit PROVE HistInv
  OBVIOUS
<1>1. NoneYet \in Counts /\ 0 \in Times /\ 0 \in -1..MaxClock
  BY RateAssumption DEF NoneYet, Counts, Times
<1>2. HistTypeOK
  BY <1>1 DEF HistInit, HistTypeOK
<1>3. ASSUME NEW k \in Keys PROVE Spending(k) /\ Earning(k)
  <2>1. buckets[k] = NoBucket /\ asOf[k] = NoneYet /\ clock = 0
    BY DEF HistInit, LimInit
  <2>2. \A t \in Times : NoneYet[t] = 0
    BY DEF NoneYet, Times
  <2>3. ASSUME NEW t \in Times, NEW a \in 0..t PROVE Total(NoneYet, a, t) = 0
    <3>1. t >= 0 /\ a \in Nat /\ a <= t /\ t \in Nat
      BY DEF Times
    <3>2. Total(NoneYet, a, t) = Total(NoneYet, a, 0)
      BY <1>1, <2>2, <3>1, TotalRests
    <3>3. a # 0 => Total(NoneYet, a, 0) = 0
      BY <1>1, <3>1, TotalUnfolds
    <3>4. a = 0 => Total(NoneYet, a, 0) = NoneYet[0] + Total(NoneYet, a, 0 - 1)
      BY <1>1, <3>1, TotalUnfolds
    <3>5. Total(NoneYet, a, 0 - 1) = 0
      <4>1. 0 - 1 \in -1..MaxClock /\ 0 - 1 < a
        BY <3>1, RateAssumption
      <4> QED BY <1>1, <3>1, <4>1, TotalUnfolds
    <3> QED BY <1>1, <2>2, <3>2, <3>3, <3>4, <3>5
  <2>4. Balanced(NoneYet, 0, Capacity)
    <3>1. Interval * 0 = 0 /\ Capacity \in Nat
      BY Arguments
    <3>2. ASSUME NEW t \in Times, NEW a \in 0..t
          PROVE  Interval * Total(NoneYet, a, t) <= Capacity + (t - a) * Limit
      <4>1. t - a \in Int /\ 0 <= t - a
        BY DEF Times
      <4>2. (t - a) * Limit \in Int /\ 0 <= (t - a) * Limit
        BY <4>1, Refills
      <4> QED BY <2>3, <3>1, <4>2
    <3>3. ASSUME NEW a \in 0..0
          PROVE  Interval * Total(NoneYet, a, 0) + Capacity <= Capacity + (0 - a) * Limit
      <4>1. a = 0 /\ 0 - 0 = 0 /\ 0 * Limit = 0
        BY Arguments
      <4> QED BY <1>1, <2>3, <3>1, <4>1
    <3> QED BY <2>2, <3>2, <3>3 DEF Balanced
  <2> QED BY <2>1, <2>4 DEF Spending, Earning, Seen, Level
<1> QED BY <1>2, <1>3 DEF HistInv

(* A tick: a forgotten bucket stays full (ratelimit.go:75-82).             *)
LEMMA HistTicks ==
  ASSUME LimTypeOK, HistInv, Tick, UNCHANGED <<granted, asOf, overtaken>>
  PROVE  HistInv'
<1>1. HistTypeOK'
  BY DEF HistInv, HistTypeOK
<1>2. clock \in Times /\ clock + 1 \in Times /\ clock \in Nat /\ clock' = clock + 1 /\ buckets' = buckets
  BY RateAssumption DEF Tick, LimTypeOK, Times
<1>3. ASSUME NEW k \in Keys PROVE Spending(k)' /\ Earning(k)'
  <2>1. /\ Seen(k) \in Times /\ Level(k) \in 0..Capacity /\ granted[k] \in Counts /\ asOf[k] \in Counts
        /\ buckets[k] # NoBucket => /\ buckets[k].lastRefill \in Times /\ buckets[k].lastRefill <= clock
                                    /\ buckets[k].tokens \in 0..Capacity
    BY HistTyped DEF HistInv
  <2>2. Earning(k)'
    BY <1>2, <2>1, EarnedWaits DEF HistInv, Earning
  <2>3. ASSUME k \notin overtaken PROVE Balanced(asOf[k], Seen(k)', Level(k)')
    <3>1. Balanced(asOf[k], Seen(k), Level(k))
      BY <2>3 DEF HistInv, Spending
    <3>2. CASE buckets[k] = NoBucket
      <4>1. Seen(k) = clock /\ Seen(k)' = clock + 1 /\ Level(k) = Capacity /\ Level(k)' = Capacity
        BY <1>2, <3>2 DEF Seen, Level
      <4>2. (clock + 1) - clock \in Int /\ 0 <= (clock + 1) - clock /\ clock <= clock + 1
        BY <1>2
      <4>3. Capacity <= Capacity + ((clock + 1) - clock) * Limit
        BY <4>2, Refills, Arguments
      <4> QED BY <1>2, <2>1, <3>1, <4>1, <4>2, <4>3, BalanceRefills
    <3>3. CASE buckets[k] # NoBucket
      BY <1>2, <3>1, <3>3 DEF Seen, Level
    <3> QED BY <3>2, <3>3
  <2> QED BY <2>2, <2>3 DEF Spending
<1> QED BY <1>1, <1>3 DEF HistInv

(* The cleanup: the ttl has filled the bucket again (ratelimit.go:44, 59). *)
LEMMA HistForgets ==
  ASSUME LimTypeOK, HistInv, Cleanup, UNCHANGED <<granted, asOf, overtaken>>
  PROVE  HistInv'
<1>1. HistTypeOK'
  BY DEF HistInv, HistTypeOK
<1>2. clock \in Times /\ clock \in Nat /\ clock' = clock
  BY DEF Cleanup, LimTypeOK, Times
<1>3. ASSUME NEW k \in Keys PROVE Spending(k)' /\ Earning(k)'
  <2> DEFINE b == buckets[k]
             Old == b # NoBucket /\ clock - b.lastRefill > TTL
  <2>1. /\ Seen(k) \in Times /\ Level(k) \in 0..Capacity /\ granted[k] \in Counts /\ asOf[k] \in Counts
        /\ Seen(k) <= clock
    BY HistTyped DEF HistInv
  <2>2. buckets'[k] = IF Old THEN NoBucket ELSE b
    BY DEF Cleanup
  <2>3. Earning(k)'
    BY <1>2, <2>2 DEF HistInv, Earning
  <2>4. ASSUME k \notin overtaken PROVE Balanced(asOf[k], Seen(k)', Level(k)')
    <3>1. Balanced(asOf[k], Seen(k), Level(k))
      BY <2>4 DEF HistInv, Spending
    <3>2. CASE Old
      <4>1. Seen(k) = b.lastRefill /\ Seen(k)' = clock /\ Level(k)' = Capacity
        BY <1>2, <2>2, <3>2 DEF Seen, Level
      <4>2. clock - Seen(k) \in Nat /\ TTL \in Nat /\ TTL <= clock - Seen(k)
        BY <1>2, <2>1, <3>2, <4>1, Arguments DEF Times
      <4>3. TTL * Limit <= (clock - Seen(k)) * Limit /\ (clock - Seen(k)) * Limit \in Nat /\ TTL * Limit \in Nat
        BY <4>2, Spans, Arguments
      <4>4. Capacity <= Level(k) + (clock - Seen(k)) * Limit /\ Capacity \in 0..Capacity
        BY <2>1, <4>3, Arguments
      <4> QED BY <1>2, <2>1, <3>1, <4>1, <4>4, BalanceRefills
    <3>3. CASE ~Old
      <4>1. Seen(k)' = Seen(k) /\ Level(k)' = Level(k)
        BY <1>2, <2>2, <3>3 DEF Seen, Level
      <4> QED BY <3>1, <4>1
    <3> QED BY <3>2, <3>3
  <2> QED BY <2>3, <2>4 DEF Spending
<1> QED BY <1>1, <1>3 DEF HistInv

(* What a request finds, from what the last one left (ratelimit.go:75-93). *)
LEMMA FoundFrom ==
  ASSUME LimTypeOK, NEW k \in Keys, NEW t \in Times, buckets[k] # NoBucket
  PROVE  \/ /\ t > buckets[k].lastRefill
            /\ \/ Found(k, t) = Capacity
               \/ Found(k, t) = buckets[k].tokens + (t - buckets[k].lastRefill) * Limit
            /\ Found(k, t) <= buckets[k].tokens + (t - buckets[k].lastRefill) * Limit
         \/ t <= buckets[k].lastRefill /\ Found(k, t) = buckets[k].tokens
<1> DEFINE l == buckets[k].lastRefill
           n == buckets[k].tokens + (t - l) * Limit
<1>1. t \in Nat /\ l \in Nat /\ buckets[k].tokens \in Nat /\ Capacity \in Nat
  BY Typed, Arguments DEF Buckets, Times
<1>2. (t - l) * Limit \in Int
  <2>1. t - l \in Int
    BY <1>1
  <2> HIDE DEF l
  <2> QED BY <2>1, Refills
<1>3. Found(k, t) = IF t > l THEN IF n > Capacity THEN Capacity ELSE n ELSE buckets[k].tokens
  BY DEF Found, Refilled
<1> HIDE DEF l
<1>4. n \in Int
  BY <1>1, <1>2
<1> HIDE DEF n
<1>5. CASE t > l
  BY <1>1, <1>3, <1>4, <1>5 DEF n, l
<1>6. CASE ~(t > l)
  BY <1>1, <1>3, <1>6 DEF l
<1> QED BY <1>5, <1>6

(* A decision: whoever reads the clock and gets the lock in order keeps    *)
(* both books, whoever is overtaken keeps that of the grants               *)
(* (ratelimit.go:70-100).                                                  *)
LEMMA HistDecides ==
  ASSUME LimTypeOK, HistInv, NEW q \in Requests, HistAllow(q)
  PROVE  HistInv'
<1>1. PICK k \in Keys, t \in Times :
        req[q].key = k /\ req[q].now = t /\ t <= clock /\ clock \in Times
  BY Typed DEF HistAllow, Allow, LimTypeOK, Times
<1> DEFINE n == Found(k, t)
           ok == Admits(n)
           left == IF ok THEN n - Interval ELSE n
           spent == IF ok THEN [asOf[k] EXCEPT ![t] = @ + 1] ELSE asOf[k]
           given == IF ok THEN [granted[k] EXCEPT ![clock] = @ + 1] ELSE granted[k]
<1>2. /\ Seen(k) \in Times /\ Seen(k) <= clock /\ Level(k) \in 0..Capacity
      /\ granted[k] \in Counts /\ asOf[k] \in Counts /\ NoneYet \in Counts
      /\ buckets[k] # NoBucket => /\ buckets[k].lastRefill \in Times
                                  /\ buckets[k].lastRefill <= clock
                                  /\ buckets[k].tokens \in 0..Capacity
  BY HistTyped DEF HistInv, NoneYet, Counts, Times
<1>3. n \in 0..Capacity /\ (ok <=> Interval <= n) /\ left \in 0..Capacity
  <2>1. n \in 0..Capacity
    BY FoundType DEF Times
  <2> QED BY <2>1, Arguments DEF Admits
<1>4. /\ clock' = clock
      /\ buckets' = [buckets EXCEPT ![k] = Bucket(left, t)]
      /\ granted' = IF ok THEN [granted EXCEPT ![k][clock] = @ + 1] ELSE granted
      /\ overtaken' = IF Late(q) THEN overtaken \cup {k} ELSE overtaken
      /\ asOf' = IF k \in overtaken' THEN [asOf EXCEPT ![k] = NoneYet]
                 ELSE IF ok THEN [asOf EXCEPT ![k][t] = @ + 1] ELSE asOf
  BY <1>1 DEF HistAllow, Allow, Admitted
<1>5. /\ Bucket(left, t) # NoBucket
      /\ Bucket(left, t).lastRefill = t /\ Bucket(left, t).tokens = left
  BY <1>3, RateAssumption, Arguments DEF Bucket, Times
<1>6. /\ buckets'[k] = Bucket(left, t) /\ \A j \in Keys \ {k} : buckets'[j] = buckets[j]
      /\ granted'[k] = given /\ \A j \in Keys \ {k} : granted'[j] = granted[j]
      /\ k \notin overtaken' => asOf'[k] = spent
      /\ \A j \in Keys \ {k} : asOf'[j] = asOf[j] /\ (j \in overtaken' <=> j \in overtaken)
      /\ overtaken \subseteq overtaken'
  BY <1>4 DEF LimTypeOK, HistInv, HistTypeOK
<1>7. given \in Counts /\ spent \in Counts
  BY <1>1, <1>2, TotalAdds
<1>8. HistTypeOK'
  <2>1. granted' \in [Keys -> Counts]
    <3>1. granted' = [granted EXCEPT ![k] = given]
      BY <1>4 DEF HistInv, HistTypeOK
    <3> QED BY <1>7, <3>1 DEF HistInv, HistTypeOK
  <2>2. asOf' \in [Keys -> Counts]
    <3>1. asOf' = [asOf EXCEPT ![k] = IF k \in overtaken' THEN NoneYet ELSE spent]
      BY <1>4 DEF HistInv, HistTypeOK
    <3> QED BY <1>2, <1>7, <3>1 DEF HistInv, HistTypeOK
  <2> QED BY <2>1, <2>2 DEF HistTypeOK
<1> HIDE DEF left, given, spent, ok, n
<1>9. Earning(k)'
  <2>1. Earned(granted[k], t, n, clock)
    <3>1. CASE buckets[k] = NoBucket
      <4>1. n = Capacity
        BY <3>1 DEF n, Found
      <4> QED
        <5> SUFFICES ASSUME NEW a \in 0..clock
                     PROVE  Due(a, t) <= n + Interval * Total(granted[k], a, clock)
          BY DEF Earned
        <5>1. a \in Nat /\ t \in Int
          BY <1>1 DEF Times
        <5>2. Due(a, t) \in Int /\ Due(a, t) <= Capacity
          BY <5>1, DueType
        <5>3. Interval * Total(granted[k], a, clock) \in Nat
          BY <1>1, <1>2, <5>1, SumCosts
        <5> QED BY <4>1, <5>2, <5>3, Arguments
    <3>2. CASE buckets[k] # NoBucket
      <4>1. Earned(granted[k], buckets[k].lastRefill, buckets[k].tokens, clock)
        BY <3>2 DEF HistInv, Earning
      <4>2. \/ n = Capacity
            \/ /\ buckets[k].lastRefill <= t
               /\ n = buckets[k].tokens + (t - buckets[k].lastRefill) * Limit
            \/ t <= buckets[k].lastRefill /\ n = buckets[k].tokens
        <5>1. t > buckets[k].lastRefill => buckets[k].lastRefill <= t
          BY <1>2, <3>2 DEF Times
        <5> QED BY <3>2, <5>1, FoundFrom DEF n
      <4> QED BY <1>1, <1>2, <1>3, <3>2, <4>1, <4>2, EarnedRefills
    <3> QED BY <3>1, <3>2
  <2>2. Earned(given, t, left, clock)
    <3>1. CASE ok
      BY <1>1, <1>2, <1>3, <2>1, <3>1, EarnedSpends DEF given, left
    <3>2. CASE ~ok
      BY <2>1, <3>2 DEF given, left
    <3> QED BY <3>1, <3>2
  <2> QED BY <1>4, <1>5, <1>6, <2>2 DEF Earning
<1>10. Spending(k)'
  <2> SUFFICES ASSUME k \notin overtaken' PROVE Balanced(spent, t, left)
    BY <1>5, <1>6 DEF Spending, Seen, Level
  <2>1. ~Late(q) /\ k \notin overtaken
    BY <1>4, <1>6
  <2>2. Balanced(asOf[k], Seen(k), Level(k))
    BY <2>1 DEF HistInv, Spending
  <2>3. Balanced(asOf[k], t, n)
    <3>1. CASE buckets[k] = NoBucket
      <4>1. t = clock
        BY <1>1, <2>1, <3>1 DEF Late, Times
      <4> QED BY <2>2, <3>1, <4>1 DEF Seen, Level, n, Found
    <3>2. CASE buckets[k] # NoBucket
      <4>1. Seen(k) <= t /\ Seen(k) = buckets[k].lastRefill /\ Level(k) = buckets[k].tokens
        BY <1>1, <1>2, <2>1, <3>2 DEF Late, Seen, Level, Times
      <4>2. n <= Level(k) + (t - Seen(k)) * Limit
        <5>1. t > Seen(k) => n <= Level(k) + (t - Seen(k)) * Limit
          BY <1>1, <1>2, <3>2, <4>1, FoundFrom DEF n, Times
        <5>2. CASE t = Seen(k)
          <6>1. n = Level(k)
            BY <1>1, <1>2, <3>2, <4>1, <5>2, FoundFrom DEF n, Times
          <6>2. t - Seen(k) \in Int /\ 0 <= t - Seen(k)
            BY <1>2, <5>2 DEF Times
          <6>3. (t - Seen(k)) * Limit \in Int /\ 0 <= (t - Seen(k)) * Limit
            BY <6>2, Refills
          <6> QED BY <1>3, <6>1, <6>3, Arguments
        <5> QED BY <1>2, <4>1, <5>1, <5>2 DEF Times
      <4> QED BY <1>2, <1>3, <2>2, <4>1, <4>2, BalanceRefills
    <3> QED BY <3>1, <3>2
  <2>4. CASE ok
    BY <1>2, <1>3, <2>3, <2>4, BalanceSpends DEF spent, left
  <2>5. CASE ~ok
    BY <2>3, <2>5 DEF spent, left
  <2> QED BY <2>4, <2>5
<1>11. ASSUME NEW j \in Keys \ {k} PROVE Spending(j)' /\ Earning(j)'
  BY <1>4, <1>6, <1>11 DEF HistInv, Spending, Earning, Seen, Level
<1> QED BY <1>8, <1>9, <1>10, <1>11 DEF HistInv

(* HistSpec => []HistInv: the record changes nothing of the limiter.       *)
LEMMA BooksAreKept == HistSpec => LimSpec /\ []LimTypeOK /\ []HistInv
<1>1. HistInit => LimInit
  BY DEF HistInit
<1>2. [HistNext]_histVars => [LimNext]_limVars
  BY DEF HistNext, LimNext, HistAllow, histVars
<1>3. HistSpec => LimSpec
  BY <1>1, <1>2, PTL DEF HistSpec, LimSpec
<1>4. LimTypeOK /\ HistInv /\ [HistNext]_histVars => HistInv'
  <2> SUFFICES ASSUME LimTypeOK, HistInv, [HistNext]_histVars PROVE HistInv'
    OBVIOUS
  <2>1. CASE Tick /\ UNCHANGED <<granted, asOf, overtaken>>
    BY <2>1, HistTicks
  <2>2. CASE Cleanup /\ UNCHANGED <<granted, asOf, overtaken>>
    BY <2>2, HistForgets
  <2>3. ASSUME NEW q \in Requests, HistAllow(q) PROVE HistInv'
    BY <2>3, HistDecides
  <2>4. ASSUME NEW q \in Requests, NEW k \in Keys,
               Arrive(q, k), UNCHANGED <<granted, asOf, overtaken>>
        PROVE  HistInv'
    BY <2>4 DEF Arrive, HistInv, HistTypeOK, Spending, Earning, Seen, Level
  <2>5. CASE UNCHANGED histVars
    BY <2>5 DEF histVars, limVars, HistInv, HistTypeOK, Spending, Earning, Seen, Level
  <2> QED BY <2>1, <2>2, <2>3, <2>4, <2>5 DEF HistNext
<1> QED BY <1>3, <1>4, RateTypeCorrect, HistStarts, PTL DEF HistSpec

(* HistSpec => []BurstIsBounded: while requests reach the lock in the      *)
(* order in which they read the clock, no interval admits twice the limit, *)
(* whatever is forgotten in between (ratelimit.go:26, 70-99).              *)
THEOREM BurstsAreBounded == HistSpec => []BurstIsBounded
<1>1. LimTypeOK /\ HistInv => BurstIsBounded
  <2> SUFFICES ASSUME LimTypeOK, HistInv, NEW k \in Keys \ overtaken, NEW t \in 0..clock
               PROVE  Total(asOf[k], Later(0, t - Interval + 1), t) < 2 * Limit
    BY DEF BurstIsBounded
  <2> DEFINE a == Later(0, t - Interval + 1)
             sum == Total(asOf[k], a, t)
  <2>1. t \in Times /\ t \in Nat /\ asOf[k] \in Counts
    <3>1. asOf[k] \in Counts
      BY DEF HistInv, HistTypeOK
    <3>2. clock \in 0..MaxClock
      BY DEF LimTypeOK
    <3>3. t \in 0..MaxClock /\ t \in Nat
      BY <3>2, RateAssumption
    <3> QED BY <3>1, <3>3 DEF Times
  <2>2. a \in 0..t /\ a \in Nat /\ t - a \in Int /\ t - a <= Interval - 1 /\ Interval - 1 \in Int
    BY <2>1, Arguments DEF Later
  <2>3. Interval * sum <= Capacity + (t - a) * Limit
    BY <2>1, <2>2 DEF HistInv, Spending, Balanced
  <2>4. sum \in Nat /\ Interval * sum \in Nat
    BY <2>1, <2>2, SumCosts
  <2> HIDE DEF sum, a
  <2>5. (t - a) * Limit <= (Interval - 1) * Limit /\ (t - a) * Limit \in Int
    BY <2>2, Refills
  <2>6. Capacity + (Interval - 1) * Limit < Interval * (2 * Limit) /\ (Interval - 1) * Limit \in Int
    <3>1. \A i, l \in Nat \ {0} : l * i + (i - 1) * l < i * (2 * l) /\ (i - 1) * l \in Int
      OBVIOUS
    <3> QED BY <3>1, Arguments DEF Capacity
  <2>7. 2 * Limit \in Nat /\ Interval * (2 * Limit) \in Nat
    BY Arguments, Costs
  <2>8. Interval * sum < Interval * (2 * Limit)
    BY <2>3, <2>4, <2>5, <2>6, <2>7, Arguments
  <2>9. sum < 2 * Limit
    BY <2>4, <2>7, <2>8, Costs
  <2> QED BY <2>9 DEF sum, a
<1> QED BY <1>1, BooksAreKept, PTL

(* HistSpec => RefusalIsEarned: whatever the order of the requests, one is *)
(* refused only when the interval before it came in, and what passed       *)
(* since, has seen the limit admitted (ratelimit.go:84-97).                *)
THEOREM RefusalsAreEarned == HistSpec => RefusalIsEarned
<1> DEFINE Refusal(q) ==
      (req[q] # NoRequest /\ req'[q] = NoRequest /\ ~Admitted(q))
        => Total(granted[req[q].key], Later(0, req[q].now - Interval + 1), clock) >= Limit
<1>1. LimTypeOK /\ HistInv => \A q \in Requests : Refusal(q)
  <2> SUFFICES ASSUME LimTypeOK, HistInv, NEW q \in Requests, req[q] # NoRequest, ~Admitted(q)
               PROVE  Total(granted[req[q].key], Later(0, req[q].now - Interval + 1), clock) >= Limit
    OBVIOUS
  <2>1. PICK k \in Keys, t \in Times :
          req[q].key = k /\ req[q].now = t /\ t <= clock /\ clock \in Times
    BY Typed DEF LimTypeOK, Times
  <2> DEFINE n == Found(k, t)
             a == Later(0, t - Interval + 1)
             sum == Total(granted[k], a, clock)
  <2>2. /\ granted[k] \in Counts
        /\ buckets[k] # NoBucket => /\ buckets[k].lastRefill \in Times
                                    /\ buckets[k].tokens \in 0..Capacity
    BY HistTyped DEF HistInv
  <2>3. n \in 0..Capacity /\ n < Interval
    <3>1. n \in 0..Capacity
      BY FoundType DEF Times
    <3> QED BY <2>1, <3>1, Arguments DEF Admitted, Admits
  <2>4. buckets[k] # NoBucket
    BY <2>3, Arguments DEF Found
  <2>5. Earned(granted[k], t, n, clock)
    <3>1. Earned(granted[k], buckets[k].lastRefill, buckets[k].tokens, clock)
      BY <2>4 DEF HistInv, Earning
    <3>2. \/ n = Capacity
          \/ /\ buckets[k].lastRefill <= t
             /\ n = buckets[k].tokens + (t - buckets[k].lastRefill) * Limit
          \/ t <= buckets[k].lastRefill /\ n = buckets[k].tokens
      <4>1. t > buckets[k].lastRefill => buckets[k].lastRefill <= t
        BY <2>2, <2>4 DEF Times
      <4> QED BY <2>4, <4>1, FoundFrom
    <3> HIDE DEF n
    <3> QED BY <2>1, <2>2, <2>3, <2>4, <3>1, <3>2, EarnedRefills
  <2>6. a \in 0..clock /\ a \in Nat /\ (a = 0 \/ t - a + 1 = Interval)
    BY <2>1, Arguments DEF Later, Times
  <2>7. sum \in Nat /\ Interval * sum \in Nat
    BY <2>1, <2>2, <2>6, SumCosts
  <2> HIDE DEF n, a, sum
  <2>8. Due(a, t) = Capacity
    <3>1. Interval * Limit = Capacity
      BY Arguments DEF Capacity
    <3> QED BY <2>6, <3>1, Arguments DEF Due
  <2>9. Capacity <= n + Interval * sum
    BY <2>5, <2>6, <2>8 DEF Earned, sum
  <2>10. Interval * Limit < Interval * (sum + 1)
    <3>1. Interval * (sum + 1) = Interval * sum + Interval /\ Interval * Limit = Capacity
      BY <2>7, Costs, Arguments DEF Capacity
    <3> QED BY <2>3, <2>7, <2>9, <3>1, Arguments
  <2>11. Limit < sum + 1
    BY <2>7, <2>10, Costs, Arguments
  <2> QED BY <2>1, <2>7, <2>11, Arguments DEF sum, a
<1>2. LimTypeOK /\ HistInv /\ [HistNext]_histVars => [\A q \in Requests : Refusal(q)]_histVars
  BY <1>1
<1> QED BY <1>2, BooksAreKept, PTL DEF HistSpec, RefusalIsEarned
=============================================================================
