---------------------------- MODULE TokenBuckets ----------------------------
(***************************************************************************)
(* What a token-bucket limiter promises: one bucket per key, full at first, *)
(* refilled at Limit / Window tokens per unit of time up to Limit, and one *)
(* token for each request that is granted.  A token is Window units of the *)
(* level, so that the refill of one unit of time is Limit units.           *)
(***************************************************************************)
EXTENDS Integers

CONSTANTS
  Keys,
  Limit,  \* tokens of a full bucket, by key
  Window  \* time in which an empty bucket fills, by key

VARIABLE level

Cap(k) == Limit[k] * Window[k]
Init == level = [k \in Keys |-> Cap(k)]

Refill(k) == IF level[k] + Limit[k] <= Cap(k) THEN level[k] + Limit[k] ELSE Cap(k)
Tick == level' = [k \in Keys |-> Refill(k)]

Grant(k) ==
  /\ level[k] >= Window[k]
  /\ level' = [level EXCEPT ![k] = @ - Window[k]]

Next == Tick \/ \E k \in Keys : Grant(k)
Spec == Init /\ [][Next]_level
=============================================================================
