------------------------------- MODULE Bucket -------------------------------
(***************************************************************************)
(* The token bucket a key is promised, with no memory to spare: a level    *)
(* that rises with the time and falls by one request's worth at each       *)
(* admission.  A request carries the time it came in; when it is decided   *)
(* later, its lag may be refilled a second time, or held against it, and   *)
(* nothing else may differ.  Levels count Interval-ths of a request, so    *)
(* that a tick refills Limit of them and a request costs Interval.         *)
(***************************************************************************)
EXTENDS Integers

CONSTANTS Keys, Requests, Limit, Interval, NoKey

VARIABLES clock, req, level

bucketVars == <<clock, req, level>>

Capped(n) == IF n > Limit * Interval THEN Limit * Interval ELSE n

BucketInit ==
  /\ clock = 0
  /\ req = [q \in Requests |-> [key |-> NoKey, now |-> 0]]
  /\ level = [k \in Keys |-> Limit * Interval]

Pass ==
  /\ clock' = clock + 1
  /\ level' = [k \in Keys |-> Capped(level[k] + Limit)]
  /\ UNCHANGED req

ComeIn(q, k) ==
  /\ req[q].key = NoKey
  /\ req' = [req EXCEPT ![q] = [key |-> k, now |-> clock]]
  /\ UNCHANGED <<clock, level>>

(* Level of key k becomes its present one minus cost, or up to lag more. *)
Settle(k, cost, lag) ==
  /\ \A j \in Keys \ {k} : level'[j] = level[j]
  /\ level[k] - cost <= level'[k]
  /\ level'[k] <= Capped(level[k] - cost + lag)

Decide(q) ==
  LET k == req[q].key
      lag == (clock - req[q].now) * Limit
  IN /\ k # NoKey
     /\ req' = [req EXCEPT ![q] = [key |-> NoKey, now |-> 0]]
     /\ \/ level[k] >= Interval /\ Settle(k, Interval, lag)
        \/ level[k] < Interval + lag /\ Settle(k, 0, lag)
     /\ UNCHANGED clock

BucketNext ==
  \/ Pass
  \/ \E q \in Requests, k \in Keys : ComeIn(q, k)
  \/ \E q \in Requests : Decide(q)

BucketSpec == BucketInit /\ [][BucketNext]_bucketVars
=============================================================================
