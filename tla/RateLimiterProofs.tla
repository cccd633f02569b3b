-------------------------- MODULE RateLimiterProofs --------------------------
(***************************************************************************)
(* Theorems of RateLimiter, for any users, limits, windows and period of    *)
(* sweeping: the types, the bound on the grants of the lasting keys, their  *)
(* implementation of TokenBuckets, and the weaker bound on the other keys.  *)
(***************************************************************************)
EXTENDS RateLimiter, TLAPS

LEMMA KeyTypes ==
  ASSUME NEW k \in Keys
  PROVE  L(k) \in Nat \ {0} /\ W(k) \in Nat \ {0} /\ Full(k) \in Nat
<1>1. k[1] \in Kinds
  BY DEF Keys
<1>2. L(k) \in Nat \ {0} /\ W(k) \in Nat \ {0}
  BY <1>1, QuotaAssumption DEF L, W
<1>3. \A l, w \in Nat : l * w \in Nat
  OBVIOUS
<1> QED
  BY <1>2, <1>3 DEF Full

LEMMA Scaled ==
  ASSUME NEW a \in Nat, NEW b \in Nat, NEW l \in Nat, a <= b
  PROVE  a * l \in Nat /\ b * l \in Nat /\ a * l <= b * l
OBVIOUS

LEMMA RefilledType ==
  ASSUME TypeOK, NEW k \in Keys
  PROVE  Refilled(k) \in 0 .. Full(k)
<1>1. L(k) \in Nat /\ Full(k) \in Nat
  BY KeyTypes
<1>2. tokens[k] \in Nat /\ now - updated[k] \in Nat
  BY <1>1, ClockAssumption DEF TypeOK
<1>3. (now - updated[k]) * L(k) \in Nat
  BY <1>1, <1>2, Scaled
<1> QED
  BY <1>1, <1>2, <1>3 DEF Refilled, Accrued

LEMMA AvailableType ==
  ASSUME TypeOK, NEW k \in Keys
  PROVE  Available(k) \in 0 .. Full(k)
BY RefilledType, KeyTypes DEF Available

LEMMA LastingKey ==
  ASSUME NEW k \in Lasting
  PROVE  k \in Keys
BY DEF Lasting

(* The one step that changes the buckets.                                  *)
LEMMA NextCases ==
  ASSUME [Next]_vars
  PROVE  \/ UNCHANGED vars
         \/ Tick
         \/ \E c \in Keys : CheckKey(c) /\ admitted' \in {admitted}
                              \cup {admitted \cup {u} : u \in Users}
                              \cup {admitted \ {u} : u \in Users}
<1>1. ASSUME NEW u \in Users, Dispatch(u)
      PROVE  \E c \in Keys : CheckKey(c) /\ admitted' \in {admitted}
                              \cup {admitted \cup {v} : v \in Users}
                              \cup {admitted \ {v} : v \in Users}
  <2>1. <<"global", u>> \in Keys
    BY DEF Keys, Kinds
  <2> QED
    BY <1>1, <2>1 DEF Dispatch
<1>2. ASSUME NEW u \in Users, EnforceQuota(u)
      PROVE  \E c \in Keys : CheckKey(c) /\ admitted' \in {admitted}
                              \cup {admitted \cup {v} : v \in Users}
                              \cup {admitted \ {v} : v \in Users}
  <2>1. <<"runs", u>> \in Keys
    BY DEF Keys, Kinds
  <2> QED
    BY <1>2, <2>1 DEF EnforceQuota
<1> QED
  BY <1>1, <1>2 DEF Next

-----------------------------------------------------------------------------
LEMMA InitTypes == Init => TypeOK
<1> SUFFICES ASSUME Init PROVE TypeOK
  OBVIOUS
<1>1. \A k \in Keys : 0 \in 0 .. Full(k)
  BY KeyTypes
<1> QED
  BY <1>1, ClockAssumption DEF Init, TypeOK

LEMMA StepTypes == TypeOK /\ [Next]_vars => TypeOK'
<1> SUFFICES ASSUME TypeOK, [Next]_vars PROVE TypeOK'
  OBVIOUS
<1>1. CASE UNCHANGED vars
  BY <1>1 DEF TypeOK, vars, buckets, Full, L, W
<1>2. CASE Tick
  BY <1>2, ClockAssumption DEF Tick, TypeOK, buckets, Full, L, W
<1>3. ASSUME NEW c \in Keys, CheckKey(c), admitted' \in {admitted}
                              \cup {admitted \cup {v} : v \in Users}
                              \cup {admitted \ {v} : v \in Users}
      PROVE  TypeOK'
  <2>1. now \in Nat /\ now' = now
    BY <1>3, ClockAssumption DEF TypeOK, CheckKey
  <2>2. held' \subseteq Keys
    BY <1>3 DEF CheckKey, Kept, TypeOK
  <2>3. swept' \in 0 .. now'
    BY <1>3, <2>1 DEF CheckKey, TypeOK
  <2>4. Available(c) \in 0 .. Full(c) /\ W(c) \in Nat /\ Full(c) \in Nat
    BY AvailableType, KeyTypes
  <2>5. /\ tokens' \in [Keys -> Int]
        /\ \A k \in Keys : tokens'[k] \in 0 .. Full(k)
    BY <1>3, <2>4 DEF CheckKey, TypeOK, Allowed
  <2>6. /\ updated' \in [Keys -> Nat]
        /\ \A k \in Keys : updated'[k] <= now'
    BY <1>3, <2>1 DEF CheckKey, TypeOK
  <2>7. used' \in [Keys -> Nat]
    BY <1>3 DEF CheckKey, TypeOK
  <2>8. admitted' \subseteq Users
    BY <1>3 DEF TypeOK
  <2> QED
    BY <1>3, <2>1, <2>2, <2>3, <2>5, <2>6, <2>7, <2>8 DEF TypeOK, CheckKey, Full, L, W
<1> QED
  BY <1>1, <1>2, <1>3, NextCases

(* Every variable keeps its type and no bucket exceeds its limit, for any   *)
(* users and limits (MemoryRateLimiter.check).                             *)
THEOREM LimiterTypeCorrect == Spec => []TypeOK
BY InitTypes, StepTypes, PTL DEF Spec

-----------------------------------------------------------------------------
(* A lasting bucket that a sweep forgets has been full again.               *)
LEMMA ForgottenIsFull ==
  ASSUME TypeOK, NEW c \in Keys, NEW k \in Lasting, k \in held, k \notin Kept(c)
  PROVE  /\ Full(k) + updated[k] * L(k) <= now * L(k)
         /\ Refilled(k) = Full(k)
<1>1. k \in Keys /\ k[1] \in Kinds /\ c[1] \in Kinds
  BY LastingKey DEF Keys
<1>2. L(k) \in Nat /\ W(k) \in Nat /\ W(c) \in Nat /\ Full(k) \in Nat
  BY <1>1, KeyTypes
<1>3. now \in Nat /\ updated[k] \in Nat /\ updated[k] <= now
  BY <1>1, ClockAssumption DEF TypeOK
<1>4. W(k) <= W(c) * 4
  BY <1>1 DEF Lasting, W
<1>5. now - updated[k] > W(c) * 4
  BY DEF Kept, Stale
<1>6. W(k) <= now - updated[k] /\ now - updated[k] \in Nat
  BY <1>2, <1>3, <1>4, <1>5
<1>7. W(k) * L(k) <= (now - updated[k]) * L(k) /\ (now - updated[k]) * L(k) \in Nat
  BY <1>2, <1>6, Scaled
<1>8. /\ Full(k) = W(k) * L(k)
      /\ (now - updated[k]) * L(k) = now * L(k) - updated[k] * L(k)
      /\ now * L(k) \in Nat /\ updated[k] * L(k) \in Nat
  BY <1>2, <1>3 DEF Full
<1>9. tokens[k] \in Nat
  BY <1>1, <1>2 DEF TypeOK
<1>10. Full(k) + updated[k] * L(k) <= now * L(k)
  BY <1>2, <1>7, <1>8
<1>11. Refilled(k) = Full(k)
  BY <1>2, <1>7, <1>8, <1>9 DEF Refilled, Accrued
<1> QED
  BY <1>10, <1>11

-----------------------------------------------------------------------------
(* Grants and tokens of a lasting key: what was granted and what is left came     *)
(* from the first full bucket and the refills up to the last update, or up *)
(* to now when the bucket was forgotten.                                    *)
Balanced(k) ==
  IF k \in held THEN tokens[k] + used[k] * W(k) <= Full(k) + updated[k] * L(k)
                ELSE used[k] * W(k) <= now * L(k)
Ledger == \A k \in Lasting : Balanced(k)

(* The products of the arithmetic below are numbers.                       *)
LEMMA Products ==
  ASSUME TypeOK, NEW k \in Keys
  PROVE  /\ used[k] * W(k) \in Nat
         /\ now * L(k) \in Nat
         /\ updated[k] * L(k) \in Nat
         /\ updated[k] * L(k) <= now * L(k)
         /\ (now - updated[k]) * L(k) = now * L(k) - updated[k] * L(k)
         /\ (used[k] + 1) * W(k) = used[k] * W(k) + W(k)
<1>1. L(k) \in Nat /\ W(k) \in Nat
  BY KeyTypes
<1>2. used[k] \in Nat /\ now \in Nat /\ updated[k] \in Nat /\ updated[k] <= now
  BY ClockAssumption DEF TypeOK
<1> QED
  BY <1>1, <1>2, Scaled

(* What check finds in a bucket is still balanced at the current time.      *)
LEMMA AvailableBalanced ==
  ASSUME TypeOK, Ledger, NEW k \in Lasting
  PROVE  Available(k) + used[k] * W(k) <= Full(k) + now * L(k)
<1> k \in Keys
  BY LastingKey
<1>1. Full(k) \in Nat /\ tokens[k] \in Nat
  BY KeyTypes DEF TypeOK
<1>2. Balanced(k)
  BY DEF Ledger
<1>3. CASE k \in Kept(k)
  <2>1. k \in held
    BY <1>3 DEF Kept
  <2>2. Refilled(k) <= tokens[k] + (now - updated[k]) * L(k)
    BY <1>1, Products DEF Refilled, Accrued
  <2>3. Refilled(k) \in Nat
    BY RefilledType, <1>1
  <2> QED
    BY <1>1, <1>2, <1>3, <2>1, <2>2, <2>3, Products DEF Balanced, Available
<1>4. CASE k \notin Kept(k) /\ k \in held
  BY <1>1, <1>2, <1>4, ForgottenIsFull, Products DEF Balanced, Available
<1>5. CASE k \notin held
  <2>1. k \notin Kept(k)
    BY <1>5 DEF Kept
  <2> QED
    BY <1>1, <1>2, <1>5, <2>1, Products DEF Balanced, Available
<1> QED
  BY <1>3, <1>4, <1>5

LEMMA InitLedger == Init => Ledger
<1> SUFFICES ASSUME Init, NEW k \in Lasting PROVE Balanced(k)
  BY DEF Ledger
<1> k \in Keys
  BY LastingKey
<1>1. W(k) \in Nat /\ L(k) \in Nat
  BY KeyTypes
<1> QED
  BY <1>1 DEF Init, Balanced

LEMMA StepLedger ==
  ASSUME TypeOK, Ledger, [Next]_vars
  PROVE  Ledger'
<1>1. CASE UNCHANGED vars
  BY <1>1 DEF Ledger, Balanced, Lasting, vars, buckets, Full, L, W
<1>2. CASE Tick
  <2> SUFFICES ASSUME NEW k \in Lasting PROVE Balanced(k)'
    BY DEF Ledger, Lasting, W
  <2> k \in Keys
    BY LastingKey
  <2>1. L(k) \in Nat /\ W(k) \in Nat /\ now \in Nat
    BY KeyTypes, ClockAssumption DEF TypeOK
  <2>2. (now + 1) * L(k) = now * L(k) + L(k)
    BY <2>1
  <2>3. Balanced(k)
    BY DEF Ledger
  <2> QED
    BY <1>2, <2>1, <2>2, <2>3, Products DEF Tick, Balanced, buckets, Full, L, W
<1>3. ASSUME NEW c \in Keys, CheckKey(c)
      PROVE  Ledger'
  <2> SUFFICES ASSUME NEW k \in Lasting PROVE Balanced(k)'
    BY DEF Ledger, Lasting, W
  <2> k \in Keys
    BY LastingKey
  <2>1. held' = Kept(c) \cup {c} /\ now' = now
    BY <1>3 DEF CheckKey
  <2>2. Full(k) \in Nat /\ W(k) \in Nat /\ L(k) \in Nat /\ tokens[k] \in Nat
    BY KeyTypes DEF TypeOK
  <2>3. Full(k)' = Full(k) /\ W(k)' = W(k) /\ L(k)' = L(k)
    BY DEF Full, W, L
  <2>4. CASE k = c
    <3>1. Available(k) \in Nat
      BY <2>2, AvailableType
    <3>2. updated'[k] = now
      BY <1>3, <2>4 DEF CheckKey, TypeOK
    <3>3. \/ tokens'[k] = Available(k) - W(k) /\ used'[k] = used[k] + 1
          \/ tokens'[k] = Available(k) /\ used'[k] = used[k]
      BY <1>3, <2>4 DEF CheckKey, TypeOK
    <3>4. tokens'[k] + used'[k] * W(k) = Available(k) + used[k] * W(k)
      BY <2>2, <3>1, <3>3, Products
    <3>5. tokens'[k] + used'[k] * W(k) <= Full(k) + updated'[k] * L(k)
      BY <3>2, <3>4, AvailableBalanced
    <3> QED
      BY <2>1, <2>3, <2>4, <3>5 DEF Balanced
  <2>5. CASE k # c
    <3>1. tokens'[k] = tokens[k] /\ updated'[k] = updated[k] /\ used'[k] = used[k]
      BY <1>3, <2>5 DEF CheckKey, TypeOK
    <3>2. Balanced(k)
      BY DEF Ledger
    <3>3. CASE k \in Kept(c)
      <4>1. k \in held /\ k \in held'
        BY <2>1, <3>3 DEF Kept
      <4> QED
        BY <2>3, <3>1, <3>2, <4>1 DEF Balanced
    <3>4. CASE k \notin Kept(c) /\ k \in held
      <4>1. k \notin held'
        BY <2>1, <2>5, <3>4
      <4>2. Full(k) + updated[k] * L(k) <= now * L(k)
        BY <3>4, ForgottenIsFull
      <4>3. used[k] * W(k) <= now * L(k)
        BY <2>2, <3>2, <3>4, <4>2, Products DEF Balanced
      <4> QED
        BY <2>1, <2>3, <3>1, <4>1, <4>3 DEF Balanced
    <3>5. CASE k \notin held
      <4>1. k \notin held'
        BY <2>1, <2>5, <3>5 DEF Kept
      <4> QED
        BY <2>1, <2>3, <3>1, <3>2, <3>5, <4>1 DEF Balanced
    <3> QED
      BY <3>3, <3>4, <3>5
  <2> QED
    BY <2>4, <2>5
<1> QED
  BY <1>1, <1>2, <1>3, NextCases

LEMMA LedgerBounds ==
  ASSUME TypeOK, Ledger
  PROVE  LastingGrantsBounded
<1> SUFFICES ASSUME NEW k \in Lasting
             PROVE  used[k] * W(k) <= Full(k) + now * L(k)
  BY DEF LastingGrantsBounded
<1> k \in Keys
  BY LastingKey
<1>1. Balanced(k)
  BY DEF Ledger
<1>2. tokens[k] \in Nat /\ Full(k) \in Nat
  BY KeyTypes DEF TypeOK
<1> QED
  BY <1>1, <1>2, Products DEF Balanced

(* No sweep and no order of requests grants a lasting key more than a full  *)
(* bucket and its refills (check and _sweep): with the shipped windows, no *)
(* caller passes the global limit more often than its setting says.        *)
THEOREM GrantsConform == Spec => []LastingGrantsBounded
<1>1. Init => TypeOK /\ Ledger
  BY InitTypes, InitLedger
<1>2. TypeOK /\ Ledger /\ [Next]_vars => (TypeOK /\ Ledger)'
  BY StepTypes, StepLedger
<1>3. TypeOK /\ Ledger => LastingGrantsBounded
  BY LedgerBounds
<1> QED
  BY <1>1, <1>2, <1>3, PTL DEF Spec

-----------------------------------------------------------------------------
(* What holds of every key: the sweeps so far, at most one in each period,  *)
(* have given it at most as many full buckets.                              *)
Granted(k) == IF k \in held THEN tokens[k] + used[k] * W(k) ELSE used[k] * W(k)
Earned(k) == IF k \in held THEN Full(k) + updated[k] * L(k) ELSE now * L(k)
Owed(k) == Granted(k) * Period <= Earned(k) * Period + Full(k) * swept
Debts == \A k \in Keys : Owed(k)

LEMMA PeriodType == Period \in Nat
BY ClockAssumption DEF Period

LEMMA Distributed ==
  ASSUME NEW a \in Nat, NEW b \in Nat, NEW c \in Nat
  PROVE  /\ a * c \in Nat /\ b * c \in Nat /\ c * a \in Nat /\ c * b \in Nat
         /\ (a + b) * c = a * c + b * c
         /\ c * (a + b) = c * a + c * b
         /\ a <= b => a * c <= b * c /\ c * a <= c * b
<1>1. /\ a * c \in Nat /\ b * c \in Nat /\ c * a \in Nat /\ c * b \in Nat
      /\ (a + b) * c = a * c + b * c
      /\ c * (a + b) = c * a + c * b
  OBVIOUS
<1>2. ASSUME a <= b PROVE a * c <= b * c
  BY <1>2
<1>3. a * c = c * a /\ b * c = c * b
  OBVIOUS
<1> QED
  BY <1>1, <1>2, <1>3

(* A refill of d is earned; a later time of the last sweep only helps.      *)
LEMMA RefillOwed ==
  ASSUME NEW a \in Nat, NEW g \in Nat, NEW e \in Nat, NEW d \in Nat, NEW f \in Nat,
         NEW s \in Nat, NEW s2 \in Nat, NEW p \in Nat,
         g * p <= e * p + f * s, a <= g + d, s <= s2
  PROVE  a * p <= (e + d) * p + f * s2
<1>1. a * p <= (g + d) * p /\ (g + d) * p = g * p + d * p
  BY Distributed
<1>2. (e + d) * p = e * p + d * p
  BY Distributed
<1>3. f * s <= f * s2
  BY Distributed
<1>4. /\ a * p \in Nat /\ g * p \in Nat /\ d * p \in Nat /\ e * p \in Nat
      /\ f * s \in Nat /\ f * s2 \in Nat
  BY Distributed
<1> QED
  BY <1>1, <1>2, <1>3, <1>4

(* A bucket given away by a sweep is paid for by the period since the last. *)
LEMMA SweepOwed ==
  ASSUME NEW g0 \in Nat, NEW g \in Nat, NEW e \in Nat, NEW n \in Nat, NEW f \in Nat,
         NEW s \in Nat, NEW s2 \in Nat, NEW p \in Nat,
         g * p <= (f + e) * p + f * s, g0 <= g, e <= n, s + p <= s2
  PROVE  g0 * p <= n * p + f * s2
<1>1. g0 * p <= g * p /\ e * p <= n * p
  BY Distributed
<1>2. (f + e) * p = f * p + e * p
  BY Distributed
<1>3. s + p \in Nat /\ f * (s + p) <= f * s2
  BY Distributed
<1>4. f * (s + p) = f * s + f * p
  BY Distributed
<1>5. /\ g0 * p \in Nat /\ g * p \in Nat /\ e * p \in Nat /\ n * p \in Nat
      /\ f * p \in Nat /\ f * s \in Nat /\ f * s2 \in Nat
  BY Distributed
<1> QED
  BY <1>1, <1>2, <1>3, <1>4, <1>5

(* What the keys of a state need of the types.                             *)
LEMMA OwedTypes ==
  ASSUME TypeOK, NEW k \in Keys
  PROVE  /\ Full(k) \in Nat /\ swept \in Nat /\ now \in Nat /\ swept <= now
         /\ Granted(k) \in Nat /\ Earned(k) \in Nat
         /\ tokens[k] \in Nat
<1>1. Full(k) \in Nat /\ tokens[k] \in Nat
  BY KeyTypes DEF TypeOK
<1>2. swept \in Nat /\ now \in Nat /\ swept <= now
  BY ClockAssumption DEF TypeOK
<1> QED
  BY <1>1, <1>2, Products DEF Granted, Earned

LEMMA DueType ==
  ASSUME TypeOK, SweepDue
  PROVE  swept + Period <= now
BY ClockAssumption DEF TypeOK, SweepDue, Period

(* A key that a sweep forgets owes nothing beyond the sweep.                *)
LEMMA ForgottenOwed ==
  ASSUME TypeOK, Debts, NEW c \in Keys, NEW k \in Keys, k \in held, k \notin Kept(c)
  PROVE  SweepDue /\ used[k] * W(k) * Period <= now * L(k) * Period + Full(k) * now
<1>1. SweepDue
  BY DEF Kept
<1>2. Granted(k) * Period <= (Full(k) + updated[k] * L(k)) * Period + Full(k) * swept
  BY DEF Debts, Owed, Earned
<1>3. used[k] * W(k) \in Nat /\ used[k] * W(k) <= Granted(k)
  BY OwedTypes, Products DEF Granted
<1>4. swept + Period <= now
  BY <1>1, DueType
<1> QED
  BY <1>1, <1>2, <1>3, <1>4, SweepOwed, OwedTypes, Products, PeriodType

LEMMA AvailableOwed ==
  ASSUME TypeOK, Debts, NEW k \in Keys
  PROVE  (Available(k) + used[k] * W(k)) * Period
           <= (Full(k) + now * L(k)) * Period
                + Full(k) * (IF SweepDue THEN now ELSE swept)
<1> DEFINE later == IF SweepDue THEN now ELSE swept
           u == used[k] * W(k)
           n == now * L(k)
<1>1. later \in Nat /\ swept <= later
  BY OwedTypes
<1>2. u \in Nat /\ n \in Nat /\ Full(k) \in Nat /\ Period \in Nat
  BY OwedTypes, Products, PeriodType
<1>3. Owed(k)
  BY DEF Debts
<1>4. CASE k \in Kept(k)
  <2>1. k \in held /\ Available(k) = Refilled(k)
    BY <1>4 DEF Kept, Available
  <2>2. Granted(k) = tokens[k] + u /\ Earned(k) = Full(k) + updated[k] * L(k)
    BY <2>1 DEF Granted, Earned
  <2>3. Refilled(k) \in Nat
    BY <1>2, RefilledType
  <2>4. Refilled(k) <= tokens[k] + (now - updated[k]) * L(k)
    BY OwedTypes, Products DEF Refilled, Accrued
  <2>5. (now - updated[k]) * L(k) \in Nat
    BY Products
  <2>6. Refilled(k) + u <= Granted(k) + (now - updated[k]) * L(k)
    BY <1>2, <2>2, <2>3, <2>4, <2>5, OwedTypes
  <2>7. Refilled(k) + u \in Nat
    BY <1>2, <2>3
  <2>8. (Refilled(k) + u) * Period
          <= (Earned(k) + (now - updated[k]) * L(k)) * Period + Full(k) * later
    <3>1. Granted(k) * Period <= Earned(k) * Period + Full(k) * swept
      BY <1>3 DEF Owed
    <3> HIDE DEF later, u
    <3> QED
      BY <1>1, <1>2, <2>5, <2>6, <2>7, <3>1, RefillOwed, OwedTypes
  <2>9. Earned(k) + (now - updated[k]) * L(k) = Full(k) + n
    BY <1>2, <2>2, Products
  <2> QED
    BY <2>1, <2>8, <2>9
<1>5. CASE k \notin Kept(k)
  <2>1. Available(k) = Full(k)
    BY <1>5 DEF Available
  <2>2. u * Period <= n * Period + Full(k) * later
    <3>1. CASE k \in held
      BY <1>5, <3>1, ForgottenOwed
    <3>2. CASE k \notin held
      <4>1. u * Period <= n * Period + Full(k) * swept
        BY <1>3, <3>2 DEF Owed, Granted, Earned
      <4>2. Full(k) * swept <= Full(k) * later
        BY <1>1, <1>2, OwedTypes, Distributed
      <4>3. /\ u * Period \in Nat /\ n * Period \in Nat
            /\ Full(k) * swept \in Nat /\ Full(k) * later \in Nat
        BY <1>1, <1>2, OwedTypes, Distributed
      <4> QED
        BY <4>1, <4>2, <4>3
    <3> QED
      BY <3>1, <3>2
  <2>3. /\ (Full(k) + u) * Period = Full(k) * Period + u * Period
        /\ (Full(k) + n) * Period = Full(k) * Period + n * Period
        /\ Full(k) * Period \in Nat /\ u * Period \in Nat /\ n * Period \in Nat
        /\ Full(k) * later \in Nat
    BY <1>1, <1>2, Distributed
  <2> QED
    BY <2>1, <2>2, <2>3
<1> QED
  BY <1>4, <1>5

LEMMA InitDebts == Init => Debts
<1> SUFFICES ASSUME Init, NEW k \in Keys PROVE Owed(k)
  BY DEF Debts
<1>1. W(k) \in Nat /\ L(k) \in Nat /\ Full(k) \in Nat
  BY KeyTypes
<1>2. Granted(k) = 0 /\ Earned(k) = 0 /\ swept = 0
  BY <1>1 DEF Init, Granted, Earned
<1> QED
  BY <1>1, <1>2, PeriodType DEF Owed

LEMMA StepDebts ==
  ASSUME TypeOK, Debts, [Next]_vars
  PROVE  Debts'
<1> Period' = Period
  BY DEF Period
<1>1. CASE UNCHANGED vars
  BY <1>1 DEF Debts, Owed, Granted, Earned, vars, buckets, Full, L, W
<1>2. CASE Tick
  <2> SUFFICES ASSUME NEW k \in Keys PROVE Owed(k)'
    BY DEF Debts
  <2>1. Full(k)' = Full(k) /\ W(k)' = W(k) /\ L(k)' = L(k)
    BY DEF Full, W, L
  <2>2. held' = held /\ tokens' = tokens /\ updated' = updated /\ used' = used
        /\ swept' = swept /\ now' = now + 1
    BY <1>2 DEF Tick, buckets
  <2>3. L(k) \in Nat /\ now \in Nat
    BY KeyTypes, OwedTypes
  <2>4. (now + 1) * L(k) = now * L(k) + L(k)
    BY <2>3
  <2>5. Granted(k)' = Granted(k)
    BY <2>1, <2>2 DEF Granted
  <2>6. Earned(k)' \in Nat /\ Earned(k) <= Earned(k)'
    BY <2>1, <2>2, <2>3, <2>4, OwedTypes, Products DEF Earned
  <2>7. /\ Earned(k) * Period <= Earned(k)' * Period
        /\ Earned(k) * Period \in Nat /\ Earned(k)' * Period \in Nat
    BY <2>6, OwedTypes, PeriodType, Distributed
  <2>8. Granted(k) * Period \in Nat /\ Full(k) * swept \in Nat
    BY OwedTypes, PeriodType, Distributed
  <2>9. Granted(k) * Period <= Earned(k) * Period + Full(k) * swept
    BY DEF Debts, Owed
  <2> QED
    BY <2>1, <2>2, <2>5, <2>7, <2>8, <2>9 DEF Owed
<1>3. ASSUME NEW c \in Keys, CheckKey(c)
      PROVE  Debts'
  <2> SUFFICES ASSUME NEW k \in Keys PROVE Owed(k)'
    BY DEF Debts
  <2>1. /\ held' = Kept(c) \cup {c} /\ now' = now
        /\ swept' = IF SweepDue THEN now ELSE swept
    BY <1>3 DEF CheckKey
  <2>2. Full(k)' = Full(k) /\ W(k)' = W(k) /\ L(k)' = L(k)
    BY DEF Full, W, L
  <2>3. CASE k = c
    <3>1. Available(k) \in Nat /\ W(k) \in Nat /\ Full(k) \in Nat
      BY AvailableType, KeyTypes
    <3>2. updated'[k] = now
      BY <1>3, <2>3 DEF CheckKey, TypeOK
    <3>3. \/ tokens'[k] = Available(k) - W(k) /\ used'[k] = used[k] + 1
          \/ tokens'[k] = Available(k) /\ used'[k] = used[k]
      BY <1>3, <2>3 DEF CheckKey, TypeOK
    <3>4. tokens'[k] + used'[k] * W(k) = Available(k) + used[k] * W(k)
      BY <3>1, <3>3, Products
    <3>5. /\ Granted(k)' = Available(k) + used[k] * W(k)
          /\ Earned(k)' = Full(k) + now * L(k)
      BY <2>1, <2>2, <2>3, <3>2, <3>4 DEF Granted, Earned
    <3> QED
      BY <2>1, <2>2, <3>5, AvailableOwed DEF Owed
  <2>4. CASE k # c
    <3>1. tokens'[k] = tokens[k] /\ updated'[k] = updated[k] /\ used'[k] = used[k]
      BY <1>3, <2>4 DEF CheckKey, TypeOK
    <3>2. Granted(k) * Period <= Earned(k) * Period + Full(k) * swept
      BY DEF Debts, Owed
    <3>3. CASE k \in held /\ k \notin Kept(c)
      <4>1. k \notin held'
        BY <2>1, <2>4, <3>3
      <4>2. SweepDue /\ used[k] * W(k) * Period <= now * L(k) * Period + Full(k) * now
        BY <3>3, ForgottenOwed
      <4>3. Granted(k)' = used[k] * W(k) /\ Earned(k)' = now * L(k) /\ swept' = now
        BY <2>1, <2>2, <3>1, <4>1, <4>2 DEF Granted, Earned
      <4> QED
        BY <2>2, <4>2, <4>3 DEF Owed
    <3>4. CASE k \in Kept(c) \/ k \notin held
      <4>1. (k \in held') <=> (k \in held)
        BY <2>1, <2>4, <3>4 DEF Kept
      <4>2. Granted(k)' = Granted(k) /\ Earned(k)' = Earned(k)
        BY <2>1, <2>2, <3>1, <4>1 DEF Granted, Earned
      <4>3. swept' \in Nat /\ swept <= swept'
        BY <2>1, OwedTypes
      <4>4. /\ Full(k) * swept <= Full(k) * swept'
            /\ Full(k) * swept \in Nat /\ Full(k) * swept' \in Nat
        BY <4>3, OwedTypes, Distributed
      <4>5. Granted(k) * Period \in Nat /\ Earned(k) * Period \in Nat
        BY OwedTypes, PeriodType, Distributed
      <4> QED
        BY <2>2, <3>2, <4>2, <4>4, <4>5 DEF Owed
    <3> QED
      BY <3>3, <3>4
  <2> QED
    BY <2>3, <2>4
<1> QED
  BY <1>1, <1>2, <1>3, NextCases

LEMMA DebtsBound ==
  ASSUME TypeOK, Debts
  PROVE  GrantsUnderSweeps
<1> SUFFICES ASSUME NEW k \in Keys
             PROVE  used[k] * W(k) * Period
                      <= (Full(k) + now * L(k)) * Period + Full(k) * now
  BY DEF GrantsUnderSweeps
<1>1. used[k] * W(k) \in Nat /\ used[k] * W(k) <= Granted(k)
  BY OwedTypes, Products DEF Granted
<1>2. Earned(k) <= Full(k) + now * L(k) /\ Full(k) + now * L(k) \in Nat
  BY OwedTypes, Products DEF Earned
<1>3. /\ used[k] * W(k) * Period <= Granted(k) * Period
      /\ Earned(k) * Period <= (Full(k) + now * L(k)) * Period
      /\ Full(k) * swept <= Full(k) * now
  BY <1>1, <1>2, OwedTypes, PeriodType, Distributed
<1>4. /\ used[k] * W(k) * Period \in Nat /\ Granted(k) * Period \in Nat
      /\ Earned(k) * Period \in Nat /\ (Full(k) + now * L(k)) * Period \in Nat
      /\ Full(k) * swept \in Nat /\ Full(k) * now \in Nat
  BY <1>1, <1>2, OwedTypes, PeriodType, Distributed
<1>5. Granted(k) * Period <= Earned(k) * Period + Full(k) * swept
  BY DEF Debts, Owed
<1> QED
  BY <1>3, <1>4, <1>5

(* Whatever the windows, a key is granted at most its promise and one more  *)
(* full bucket for each period of sweeping (check and _sweep): what is left *)
(* of the quota on run creation with the shipped windows.                  *)
THEOREM SweepsAreBounded == Spec => []GrantsUnderSweeps
<1>1. Init => TypeOK /\ Debts
  BY InitTypes, InitDebts
<1>2. TypeOK /\ Debts /\ [Next]_vars => (TypeOK /\ Debts)'
  BY StepTypes, StepDebts
<1>3. TypeOK /\ Debts => GrantsUnderSweeps
  BY DebtsBound
<1> QED
  BY <1>1, <1>2, <1>3, PTL DEF Spec

-----------------------------------------------------------------------------
(* The implementation of TokenBuckets.                                     *)
Levels == [k \in Lasting |-> Level(k)]

LEMMA LevelType ==
  ASSUME TypeOK, NEW k \in Keys
  PROVE  Level(k) \in 0 .. Full(k)
BY RefilledType, KeyTypes DEF Level

LEMMA InitIdeal == Init => Ideal!Init
BY LastingKey DEF Init, Ideal!Init, Ideal!Cap, Level, Full

(* One tick refills every bucket, also one that is not there.              *)
LEMMA TickIdeal ==
  ASSUME TypeOK, Tick
  PROVE  Ideal!Tick
<1> SUFFICES ASSUME NEW k \in Lasting
             PROVE  Level(k)' = IF Level(k) + L(k) <= Full(k) THEN Level(k) + L(k)
                                                              ELSE Full(k)
  BY DEF Ideal!Tick, Ideal!Refill, Ideal!Cap, Full, Lasting, W
<1> k \in Keys
  BY LastingKey
<1>1. L(k) \in Nat \ {0} /\ Full(k) \in Nat
  BY KeyTypes
<1>2. now \in Nat /\ updated[k] \in Nat /\ updated[k] <= now /\ tokens[k] \in Nat
  BY <1>1, ClockAssumption DEF TypeOK
<1>3. now' = now + 1 /\ held' = held /\ tokens' = tokens /\ updated' = updated
  BY DEF Tick, buckets
<1>4. /\ (now + 1 - updated[k]) * L(k) = (now - updated[k]) * L(k) + L(k)
      /\ (now - updated[k]) * L(k) \in Nat
  BY <1>1, <1>2, Products
<1>5. Refilled(k)' = IF Refilled(k) + L(k) <= Full(k) THEN Refilled(k) + L(k)
                                                      ELSE Full(k)
  <2>1. Full(k)' = Full(k) /\ L(k)' = L(k)
    BY DEF Full, L, W
  <2>2. now' - updated'[k] = now + 1 - updated[k]
    BY <1>2, <1>3
  <2>3. Accrued(k)' = Accrued(k) + L(k) /\ Accrued(k) \in Nat
    BY <1>1, <1>2, <1>3, <1>4, <2>1, <2>2 DEF Accrued
  <2>4. Refilled(k)' = IF Accrued(k)' <= Full(k) THEN Accrued(k)' ELSE Full(k)
    BY <2>1 DEF Refilled
  <2> QED
    BY <1>1, <2>3, <2>4 DEF Refilled
<1> QED
  BY <1>1, <1>3, <1>5 DEF Level, Full, L, W

(* A check takes one token of its key or none, and touches the level of no *)
(* other key that lasts.                                                   *)
LEMMA CheckIdeal ==
  ASSUME TypeOK, NEW c \in Keys, CheckKey(c)
  PROVE  (c \in Lasting /\ Ideal!Grant(c)) \/ Levels' = Levels
<1> \A k \in Lasting : k \in Keys
  BY LastingKey
<1>0. Levels' = [k \in Lasting |-> Level(k)']
  BY DEF Levels, Lasting, W
<1>1. held' = Kept(c) \cup {c} /\ now' = now
  BY DEF CheckKey
<1>2. ASSUME NEW k \in Lasting, k # c
      PROVE  Level(k)' = Level(k)
  <2>1. tokens'[k] = tokens[k] /\ updated'[k] = updated[k]
    BY <1>2 DEF CheckKey, TypeOK
  <2>2. Refilled(k)' = Refilled(k) /\ Full(k)' = Full(k)
    BY <1>1, <2>1 DEF Refilled, Accrued, Full, L, W
  <2>3. CASE k \in Kept(c)
    BY <1>1, <2>2, <2>3 DEF Level, Kept
  <2>4. CASE k \notin Kept(c) /\ k \in held
    BY <1>1, <1>2, <2>2, <2>4, ForgottenIsFull DEF Level
  <2>5. CASE k \notin held
    BY <1>1, <1>2, <2>2, <2>5 DEF Level, Kept
  <2> QED
    BY <2>3, <2>4, <2>5
<1>3. ASSUME c \in Lasting PROVE Level(c) = Available(c)
  <2>1. CASE c \in Kept(c)
    BY <2>1 DEF Level, Available, Kept
  <2>2. CASE c \notin Kept(c) /\ c \in held
    BY <1>3, <2>2, ForgottenIsFull DEF Level, Available
  <2>3. CASE c \notin held
    BY <2>3 DEF Level, Available, Kept
  <2> QED
    BY <2>1, <2>2, <2>3
<1>4. ASSUME c \in Lasting
      PROVE  Level(c)' = IF Allowed(c) THEN Level(c) - W(c) ELSE Level(c)
  <2>1. Full(c) \in Nat /\ W(c) \in Nat /\ L(c) \in Nat /\ now \in Nat
    BY KeyTypes, ClockAssumption DEF TypeOK
  <2>2. tokens'[c] = IF Allowed(c) THEN Available(c) - W(c) ELSE Available(c)
    BY DEF CheckKey, TypeOK
  <2>3. tokens'[c] \in 0 .. Full(c)
    BY <2>1, <2>2, AvailableType DEF Allowed
  <2>4. updated'[c] = now /\ c \in held'
    BY <1>1 DEF CheckKey, TypeOK
  <2>5. (now - now) * L(c) = 0
    BY <2>1
  <2>6. Refilled(c)' = tokens'[c]
    BY <1>1, <2>1, <2>3, <2>4, <2>5 DEF Refilled, Accrued, Full, L, W
  <2> QED
    BY <1>3, <1>4, <2>2, <2>4, <2>6 DEF Level
<1>5. CASE c \in Lasting /\ Allowed(c)
  <2>1. Levels[c] >= W(c)
    BY <1>3, <1>5 DEF Allowed, Levels
  <2>2. Levels' = [Levels EXCEPT ![c] = @ - W(c)]
    BY <1>0, <1>2, <1>4, <1>5 DEF Levels
  <2> QED
    BY <1>5, <2>1, <2>2 DEF Ideal!Grant, Levels
<1>6. CASE c \in Lasting /\ ~Allowed(c)
  BY <1>0, <1>2, <1>4, <1>6 DEF Levels
<1>7. CASE c \notin Lasting
  BY <1>0, <1>2, <1>7 DEF Levels
<1> QED
  BY <1>5, <1>6, <1>7

LEMMA StepIdeal ==
  ASSUME TypeOK, [Next]_vars
  PROVE  [Ideal!Next]_Levels
<1>1. CASE UNCHANGED vars
  BY <1>1 DEF Levels, Level, Lasting, Refilled, Accrued, Full, L, W, vars, buckets
<1>2. CASE Tick
  BY <1>2, TickIdeal DEF Ideal!Next
<1>3. ASSUME NEW c \in Keys, CheckKey(c)
      PROVE  [Ideal!Next]_Levels
  BY <1>3, CheckIdeal DEF Ideal!Next
<1> QED
  BY <1>1, <1>2, <1>3, NextCases

(* The lasting keys of the limiter are token buckets that are never         *)
(* forgotten, as the docstring of MemoryRateLimiter has it: whatever the   *)
(* windows, and with the shipped ones the keys of the global limit.        *)
THEOREM LimiterImplementsTokenBuckets == Spec => ImplementsTokenBuckets
<1>1. TypeOK /\ [Next]_vars => [Ideal!Next]_Levels
  BY StepIdeal
<1>2. Init => Ideal!Init
  BY InitIdeal
<1> QED
  BY <1>1, <1>2, LimiterTypeCorrect, PTL DEF Spec, ImplementsTokenBuckets, Ideal!Spec, Levels
=============================================================================
