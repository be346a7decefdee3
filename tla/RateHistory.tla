----------------------------- MODULE RateHistory -----------------------------
(***************************************************************************)
(* RateLimiter with a record of its admissions, for the properties that    *)
(* count them.                                                             *)
(***************************************************************************)
EXTENDS RateLimiter

VARIABLES
  granted,      \* granted[k][t]: requests of key k admitted at time t
  asOf,         \* the same by the time that the request had read, while none was late
  overtaken     \* the keys that have served a late request

histVars == <<limVars, granted, asOf, overtaken>>

Admitted(q) == Admits(Found(req[q].key, req[q].now))

NoneYet == [t \in 0..MaxClock |-> 0]

HistInit ==
  /\ LimInit
  /\ granted = [k \in Keys |-> NoneYet]
  /\ asOf = granted
  /\ overtaken = {}

(* Time has passed since the request read the clock that its bucket does   *)
(* not know of: another has refilled it since, or it was forgotten.        *)
Late(q) ==
  LET b == buckets[req[q].key] IN
  IF b = NoBucket THEN req[q].now < clock ELSE req[q].now < b.lastRefill

HistAllow(q) ==
  LET k == req[q].key IN
  /\ Allow(q)
  /\ granted' = IF Admitted(q) THEN [granted EXCEPT ![k][clock] = @ + 1] ELSE granted
  /\ overtaken' = IF Late(q) THEN overtaken \cup {k} ELSE overtaken
  /\ asOf' = IF k \in overtaken' THEN [asOf EXCEPT ![k] = NoneYet]
             ELSE IF Admitted(q) THEN [asOf EXCEPT ![k][req[q].now] = @ + 1] ELSE asOf

HistNext ==
  \/ (Tick \/ Cleanup) /\ UNCHANGED <<granted, asOf, overtaken>>
  \/ \E q \in Requests : HistAllow(q)
  \/ \E q \in Requests, k \in Keys : Arrive(q, k) /\ UNCHANGED <<granted, asOf, overtaken>>

HistSpec == HistInit /\ [][HistNext]_histVars

(* Admissions at the times from..to. *)
Total(counts, from, to) ==
  LET sum[t \in -1..MaxClock] == IF t < from THEN 0 ELSE counts[t] + sum[t - 1]
  IN  sum[to]

Later(a, b) == IF a > b THEN a ELSE b

(* A request is refused only when the interval before it came in, and what *)
(* passed since, saw as many admissions as the limit: nobody who keeps     *)
(* below the limit is ever refused (ratelimit.go:95-97).                   *)
RefusalIsEarned ==
  [][\A q \in Requests :
       (req[q] # NoRequest /\ req'[q] = NoRequest /\ ~Admitted(q))
         => Total(granted[req[q].key], Later(0, req[q].now - Interval + 1), clock) >= Limit]_histVars

(* ratelimit.go:26 speaks of the "maximum number of requests allowed in    *)
(* the given interval"; a bucket that starts full and is refilled while it *)
(* is used admits almost twice as many, and no more, unless requests       *)
(* overtake each other before the lock: then the time between them is      *)
(* refilled twice (ratelimit.go:70-99).                                    *)
BurstIsBounded ==
  \A k \in Keys \ overtaken : \A t \in 0..clock :
    Total(asOf[k], Later(0, t - Interval + 1), t) < 2 * Limit
==============================================================================
