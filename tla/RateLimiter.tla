----------------------------- MODULE RateLimiter -----------------------------
(***************************************************************************)
(* backend/internal/middleware/ratelimit.go: one token bucket per key, a   *)
(* request that reads the clock before it takes the lock, and the cleanup  *)
(* goroutine.  Time is a count of ticks.  Tokens are counted in            *)
(* Interval-ths of a token, so that the code's elapsed * refillRate is the *)
(* integer elapsed * Limit; the rounding of float64 is left out.           *)
(***************************************************************************)
EXTENDS Integers

CONSTANTS
  Keys,          \* client addresses
  Requests,      \* request goroutines; each serves one request after another
  MaxRequests,   \* arguments of NewRateLimiter, in requests ...
  Per,           \* ... and in ticks
  Minute,        \* ticks of a minute
  MaxClock,      \* bound: the clock stops there
  NoKey, NoBucket

ASSUME RateAssumption ==
  /\ MaxRequests \in Int /\ Per \in Int
  /\ Minute \in Nat \ {0}
  /\ MaxClock \in Nat
  /\ NoKey \notin Keys
  /\ NoBucket \notin [tokens : Int, lastRefill : Int]

VARIABLES
  clock,
  buckets,       \* key -> bucket; NoBucket when the map has no entry
  req            \* a request's key and its time.Now(), or no request

limVars == <<clock, buckets, req>>

(* The arguments as NewRateLimiter mends them, the capacity and the ttl. *)
Limit    == IF MaxRequests <= 0 THEN 1 ELSE MaxRequests
Interval == IF Per <= 0 THEN Minute ELSE Per
Capacity == Limit * Interval
\* Mutant: the ttl is never set.
TTLUnset == 0
TTL      == 2 * Interval

Bucket(tokens, last) == [tokens |-> tokens, lastRefill |-> last]
NoRequest == [key |-> NoKey, now |-> 0]

LimInit ==
  /\ clock = 0
  /\ buckets = [k \in Keys |-> NoBucket]
  /\ req = [q \in Requests |-> NoRequest]

Tick ==
  /\ clock < MaxClock
  /\ clock' = clock + 1
  /\ UNCHANGED <<buckets, req>>

(* allow up to the lock: now := time.Now(). *)
Arrive(q, k) ==
  /\ req[q] = NoRequest
  /\ req' = [req EXCEPT ![q] = [key |-> k, now |-> clock]]
  /\ UNCHANGED <<clock, buckets>>

(* The tokens of bucket b at time t: time only adds, and never beyond the  *)
(* capacity; a time before the last refill adds nothing.                   *)
\* Mutant: tokens beyond the capacity are kept.
RefilledUncapped(b, t) ==
  IF t > b.lastRefill THEN b.tokens + (t - b.lastRefill) * Limit ELSE b.tokens

Refilled(b, t) ==
  IF t > b.lastRefill
  THEN LET n == b.tokens + (t - b.lastRefill) * Limit
       IN IF n > Capacity THEN Capacity ELSE n
  ELSE b.tokens

(* What the request finds in its bucket; a new one is full. *)
Found(k, t) == IF buckets[k] = NoBucket THEN Capacity ELSE Refilled(buckets[k], t)

(* A request is admitted when a whole token is there. *)
\* Mutant: the last token is never given.
AdmitsMore(n) == n > Interval
Admits(n) == n >= Interval

(* The rest of allow, under the lock. *)
Allow(q) ==
  LET k == req[q].key
      t == req[q].now
      n == Found(k, t)
  IN /\ req[q] # NoRequest
     /\ buckets' = [buckets EXCEPT ![k] = Bucket(IF Admits(n) THEN n - Interval ELSE n, t)]
     /\ req' = [req EXCEPT ![q] = NoRequest]
     /\ UNCHANGED clock

(* One round of startCleanup. *)
Cleanup ==
  /\ buckets' = [k \in Keys |-> IF buckets[k] # NoBucket /\ clock - buckets[k].lastRefill > TTL
                                THEN NoBucket ELSE buckets[k]]
  /\ UNCHANGED <<clock, req>>

LimNext ==
  \/ Tick \/ Cleanup
  \/ \E q \in Requests : Allow(q) \/ \E k \in Keys : Arrive(q, k)

LimSpec == LimInit /\ [][LimNext]_limVars

---------------------------------------------------------------------------
(* A bucket holds between nothing and its capacity, and was refilled last  *)
(* at a time that has been (ratelimit.go:84-99).                           *)
LimTypeOK ==
  /\ clock \in 0..MaxClock
  /\ buckets \in [Keys -> [tokens : 0..Capacity, lastRefill : 0..MaxClock] \cup {NoBucket}]
  /\ req \in [Requests -> [key : Keys \cup {NoKey}, now : 0..MaxClock]]
  /\ \A k \in Keys : buckets[k] # NoBucket => buckets[k].lastRefill <= clock
  /\ \A q \in Requests : req[q].now <= clock /\ (req[q].key = NoKey => req[q] = NoRequest)

(* The limiter implements Bucket: forgetting an idle bucket changes nothing*)
(* (ratelimit.go:59), and out-of-order requests gain or lose no more than  *)
(* their own lag (ratelimit.go:70, 84-93).                                 *)
B == INSTANCE Bucket WITH level <- [k \in Keys |-> Found(k, clock)]

KeepsBucket == B!BucketSpec
==============================================================================
