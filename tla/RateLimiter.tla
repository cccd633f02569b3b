----------------------------- MODULE RateLimiter -----------------------------
(***************************************************************************)
(* MemoryRateLimiter of security/ratelimit.py and its two callers: the      *)
(* global limit of RateLimitMiddleware and the quota on run creation of     *)
(* enforce_run_quota.  They share the buckets and the sweep, which measures *)
(* every bucket by the window of the caller that happens to trigger it.     *)
(* The lock is never held across an await: check is one step.  Tokens are   *)
(* exact: a token of key k is Window[k] units, a tick refills Limit[k].     *)
(***************************************************************************)
EXTENDS Integers

CONSTANTS
  Users,      \* identities, one user each
  Limit,      \* requests of a full bucket: rate_limit_requests, rate_limit_run_creation
  Window,     \* rate_limit_window_seconds, rate_limit_run_window_seconds
  SweepEvery, \* time between sweeps (300 s)
  MaxTime     \* bound: clock of a behaviour

Kinds == {"global", "runs"}
Keys == Kinds \X Users

ASSUME QuotaAssumption ==
  /\ Limit \in [Kinds -> Nat \ {0}]
  /\ Window \in [Kinds -> Nat \ {0}]
ASSUME ClockAssumption == SweepEvery \in Nat /\ MaxTime \in Nat

VARIABLES
  now,      \* time.monotonic()
  swept,    \* _last_sweep
  held,     \* keys of _buckets
  tokens,   \* _Bucket.tokens
  updated,  \* _Bucket.updated
  admitted, \* users whose run creation has passed the middleware
  used      \* history: requests granted, by key

buckets == <<swept, held, tokens, updated>>
vars == <<now, buckets, admitted, used>>

L(k) == Limit[k[1]]
W(k) == Window[k[1]]
Full(k) == L(k) * W(k)

Init ==
  /\ now = 0 /\ swept = 0
  /\ held = {}
  /\ tokens = [k \in Keys |-> 0]
  /\ updated = [k \in Keys |-> 0]
  /\ admitted = {}
  /\ used = [k \in Keys |-> 0]

-----------------------------------------------------------------------------
(* min(limit, tokens + (now - updated) * rate).  Fault: no ceiling.         *)
Accrued(k) == tokens[k] + (now - updated[k]) * L(k)
RefilledUncapped(k) == Accrued(k)
Refilled(k) == IF Accrued(k) <= Full(k) THEN Accrued(k) ELSE Full(k)

(* _sweep: a bucket is stale by the window of the caller.  Fault: every      *)
(* bucket is.                                                              *)
StaleAlways(k, caller) == TRUE
Stale(k, caller) == now - updated[k] > W(caller) * 4

(* check sweeps once per period.  Fault: on every call.                     *)
SweepAlways == TRUE
SweepDue == now - swept > SweepEvery
Kept(caller) == IF SweepDue THEN {k \in held : ~Stale(k, caller)} ELSE held

(* The tokens check finds, with a new bucket when there is none.            *)
Available(k) == IF k \in Kept(k) THEN Refilled(k) ELSE Full(k)

(* One whole token is needed, and taken.  Fault: any fraction will do.      *)
AllowedFraction(k) == Available(k) > 0
Allowed(k) == Available(k) >= W(k)

(* MemoryRateLimiter.check.                                                *)
CheckKey(k) ==
  /\ held' = Kept(k) \cup {k}
  /\ swept' = IF SweepDue THEN now ELSE swept
  /\ updated' = [updated EXCEPT ![k] = now]
  /\ tokens' = [tokens EXCEPT ![k] = IF Allowed(k) THEN Available(k) - W(k)
                                                    ELSE Available(k)]
  /\ used' = [used EXCEPT ![k] = IF Allowed(k) THEN @ + 1 ELSE @]
  /\ UNCHANGED now

(* RateLimitMiddleware.dispatch: a request that is allowed goes on, and may *)
(* be the creation of a run.                                               *)
Dispatch(u) ==
  /\ CheckKey(<<"global", u>>)
  /\ \/ UNCHANGED admitted
     \/ Allowed(<<"global", u>>) /\ admitted' = admitted \cup {u}

(* enforce_run_quota, after the user has been loaded.                      *)
EnforceQuota(u) ==
  /\ u \in admitted
  /\ CheckKey(<<"runs", u>>)
  /\ admitted' = admitted \ {u}

Tick ==
  /\ now < MaxTime
  /\ now' = now + 1
  /\ UNCHANGED <<buckets, admitted, used>>

Next == Tick \/ \E u \in Users : Dispatch(u) \/ EnforceQuota(u)
Spec == Init /\ [][Next]_vars

-----------------------------------------------------------------------------
(* Properties.                                                             *)

(* Every variable keeps its type; a bucket never holds more than its limit. *)
TypeOK ==
  /\ now \in 0 .. MaxTime
  /\ swept \in 0 .. now
  /\ held \subseteq Keys
  /\ tokens \in [Keys -> Int] /\ \A k \in Keys : tokens[k] \in 0 .. Full(k)
  /\ updated \in [Keys -> Nat] /\ \A k \in Keys : updated[k] <= now
  /\ admitted \subseteq Users
  /\ used \in [Keys -> Nat]

(* The promise without a word of the sweep: since the start, no key was     *)
(* granted more than one full bucket and what the elapsed time refills.    *)
GrantsBounded == \A k \in Keys : used[k] * W(k) <= Full(k) + now * L(k)

(* The keys whose buckets have filled up again before any caller's sweep    *)
(* may forget them: their window is at most four times every window.  With *)
(* 60 s and 3600 s these are the keys of the global limit.                 *)
Lasting == {k \in Keys : \A i \in Kinds : W(k) <= Window[i] * 4}

(* A lasting key was granted no more than that, sweeps included.            *)
LastingGrantsBounded == \A k \in Lasting : used[k] * W(k) <= Full(k) + now * L(k)

(* Any key, whatever the windows: a sweep gives away at most one more full  *)
(* bucket, so that the grants exceed the promise by at most one bucket for *)
(* each period of sweeping that has passed.                                *)
Period == SweepEvery + 1
GrantsUnderSweeps == \A k \in Keys :
  used[k] * W(k) * Period <= (Full(k) + now * L(k)) * Period + Full(k) * now

(* The lasting keys of the limiter are token buckets that are never         *)
(* forgotten: the docstring of MemoryRateLimiter, for check and _sweep.    *)
Level(k) == IF k \in held THEN Refilled(k) ELSE Full(k)
Ideal == INSTANCE TokenBuckets WITH
  Keys <- Lasting,
  Limit <- [k \in Lasting |-> L(k)], Window <- [k \in Lasting |-> W(k)],
  level <- [k \in Lasting |-> Level(k)]
ImplementsTokenBuckets == Ideal!Spec
=============================================================================
