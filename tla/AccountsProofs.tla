---------------------------- MODULE AccountsProofs ----------------------------
(***************************************************************************)
(* Theorems of Accounts, for any addresses, any number of requests in hand,  *)
(* any limit and any lock: the types, the first administrator, the counter  *)
(* of failed logins, the lock, and how many counts overlapping logins lose. *)
(***************************************************************************)
EXTENDS Accounts, FoldTheorems, FiniteSetTheorems, TLAPS

-----------------------------------------------------------------------------
(* Types.                                                                  *)

LEMMA IdleType == Idle \in Snapshots
BY LimitsAssumption DEF Idle, Snapshots, Times, Never

LEMMA InitTypes == Init => TypeOK
<1> SUFFICES ASSUME Init PROVE TypeOK
  OBVIOUS
<1>1. mail \in [Handlers -> Emails]
  BY DEF Init
<1>2. snap \in [Handlers -> Snapshots]
  BY IdleType DEF Init
<1>3. 0 \in 0 .. MaxFailed - 1 /\ 0 \in Times /\ now \in 0 .. MaxTime
  BY LimitsAssumption DEF Init, Times
<1> QED
  BY <1>1, <1>2, <1>3 DEF Init, TypeOK, Roles, Never

LEMMA StepTypes == TypeOK /\ [Next]_vars => TypeOK'
<1> SUFFICES ASSUME TypeOK, [Next]_vars PROVE TypeOK'
  OBVIOUS
<1> USE DEF TypeOK
<1>1. ASSUME NEW h \in Handlers, NEW e \in Emails, RegisterRead(h, e)
      PROVE  TypeOK'
  <2>1. [Idle EXCEPT !.first = IsFirst(e)] \in Snapshots
    BY IdleType DEF Snapshots, IsFirst
  <2>2. raced' \in BOOLEAN
    BY <1>1 DEF RegisterRead
  <2> QED
    BY <1>1, <2>1, <2>2 DEF RegisterRead, Take, rowVars
<1>2. ASSUME NEW h \in Handlers, NEW e \in Emails, LoginRead(h, e)
      PROVE  TypeOK'
  <2>1. [first |-> FALSE, failed |-> failed[e], locked |-> locked[e], now |-> now] \in Snapshots
    <3>1. failed[e] \in 0 .. MaxFailed /\ locked[e] \in Times
      BY LimitsAssumption
    <3> QED
      BY <3>1 DEF Snapshots
  <2>2. contended' \subseteq Emails
    BY <1>2 DEF LoginRead
  <2> QED
    BY <1>2, <2>1, <2>2 DEF LoginRead, Take, rowVars
<1>3. ASSUME NEW h \in Handlers, Return(h)
      PROVE  /\ at' \in [Handlers -> {"idle", "registering", "right", "wrong"}]
             /\ snap' \in [Handlers -> Snapshots]
             /\ mail' \in [Handlers -> Emails]
  BY <1>3, IdleType DEF Return
<1>4. ASSUME NEW h \in Handlers, RegisterCommit(h)
      PROVE  TypeOK'
  <2>1. role' \in [Emails -> Roles]
    BY <1>4 DEF RegisterCommit, Roles
  <2> QED
    BY <1>3, <1>4, <2>1 DEF RegisterCommit, historyVars
<1>5. ASSUME NEW h \in Handlers, LoginSucceeds(h)
      PROVE  TypeOK'
  <2>1. failed' \in [Emails -> 0 .. MaxFailed - 1]
    BY <1>5, LimitsAssumption DEF LoginSucceeds, Forgotten, Write
  <2>2. locked' \in [Emails -> Times]
    BY <1>5, LimitsAssumption DEF LoginSucceeds, Never, Times, Write
  <2>3. audit' \in [Emails -> Nat]
    BY <1>5 DEF LoginSucceeds
  <2> QED
    BY <1>3, <1>5, <2>1, <2>2, <2>3 DEF LoginSucceeds, historyVars
<1>6. ASSUME NEW h \in Handlers, LoginFails(h)
      PROVE  TypeOK'
  <2>1. snap[h] \in Snapshots /\ mail[h] \in Emails
    OBVIOUS
  <2>2. snap[h].failed \in 0 .. MaxFailed /\ snap[h].now \in 0 .. MaxTime
    BY <2>1 DEF Snapshots
  <2>3. failed' \in [Emails -> 0 .. MaxFailed - 1]
    <3>1. CASE Due(snap[h].failed + 1)
      BY <1>6, <2>1, <3>1, LimitsAssumption DEF LoginFails, Write
    <3>2. CASE ~Due(snap[h].failed + 1)
      <4>1. snap[h].failed + 1 \in 0 .. MaxFailed - 1
        BY <2>2, <3>2, LimitsAssumption DEF Due
      <4> QED
        BY <1>6, <2>1, <3>2, <4>1 DEF LoginFails, Write
    <3> QED
      BY <3>1, <3>2
  <2>4. audit' \in [Emails -> Nat]
    BY <1>6, <2>1 DEF LoginFails
  <2>5. locked' \in [Emails -> Times]
    <3>1. snap[h].now + LockTime \in Times
      BY <2>2, LimitsAssumption DEF Times
    <3> QED
      BY <1>6, <2>1, <3>1 DEF LoginFails, Write
  <2> QED
    BY <1>3, <1>6, <2>3, <2>4, <2>5 DEF LoginFails, historyVars
<1>7. ASSUME NEW h \in Handlers, RollBack(h)
      PROVE  TypeOK'
  BY <1>3, <1>7 DEF RollBack, rowVars, historyVars
<1>8. CASE Tick
  BY <1>8, LimitsAssumption DEF Tick, rowVars, handlerVars, historyVars
<1>9. CASE UNCHANGED vars
  BY <1>9 DEF vars, rowVars, handlerVars, historyVars
<1> QED
  BY <1>1, <1>2, <1>4, <1>5, <1>6, <1>7, <1>8, <1>9 DEF Next

(* Every variable of Accounts keeps its type: counters stay under the limit,  *)
(* locks within the horizon (register, login).                              *)
THEOREM AccountsTypeCorrect == Spec => []TypeOK
BY InitTypes, StepTypes, PTL DEF Spec

-----------------------------------------------------------------------------
(* The first administrator.                                                *)

(* A registration in hand that has found a user is in a system with users;   *)
(* while no two have found the table empty, at most one in hand has, and it  *)
(* is not overtaken.                                                       *)
Claimant(h) == at[h] = "registering" /\ snap[h].first

Bootstrapped ==
  /\ Users # {} => Admins # {}
  /\ Users = {} => \A h \in Handlers : at[h] = "registering" => snap[h].first
  /\ ~raced =>
       /\ \A e, f \in Admins : e = f
       /\ \A g, h \in Handlers : Claimant(g) /\ Claimant(h) => g = h
       /\ Users # {} => \A h \in Handlers : ~Claimant(h)

LEMMA InitBootstrapped == Init => Bootstrapped
BY DEF Init, Bootstrapped, Users, Admins, Claimant

LEMMA StepBootstrapped == TypeOK /\ Bootstrapped /\ [Next]_vars => Bootstrapped'
<1> SUFFICES ASSUME TypeOK, Bootstrapped, [Next]_vars PROVE Bootstrapped'
  OBVIOUS
<1>1. ASSUME role' = role, raced' = raced,
             \A h \in Handlers : at'[h] = "registering" => at[h] = "registering" /\ snap'[h] = snap[h]
      PROVE  Bootstrapped'
  <2>1. Users' = Users /\ Admins' = Admins
    BY <1>1 DEF Users, Admins
  <2>2. \A h \in Handlers : Claimant(h)' => Claimant(h)
    BY <1>1 DEF Claimant
  <2> QED
    BY <1>1, <2>1, <2>2 DEF Bootstrapped
<1>2. ASSUME NEW h \in Handlers, NEW e \in Emails, RegisterRead(h, e)
      PROVE  Bootstrapped'
  <2>1. Users' = Users /\ Admins' = Admins
    BY <1>2 DEF RegisterRead, rowVars, Users, Admins
  <2>2. snap'[h].first = (Users = {}) /\ \A g \in Handlers \ {h} : snap'[g] = snap[g] /\ at'[g] = at[g]
    BY <1>2 DEF RegisterRead, Take, TypeOK, Idle, IsFirst
  <2>3. Users' = {} => \A g \in Handlers : at'[g] = "registering" => snap'[g].first
    BY <2>1, <2>2 DEF Bootstrapped
  <2>4. \A g \in Handlers \ {h} : Claimant(g)' <=> Claimant(g)
    BY <2>2 DEF Claimant
  <2>5. Claimant(h)' => Users = {}
    BY <2>2 DEF Claimant
  <2>6. ~raced' => ~raced /\ (Users = {} => \A g \in Handlers : ~Claimant(g))
    BY <1>2 DEF RegisterRead, Claimant
  <2> QED
    BY <2>1, <2>3, <2>4, <2>5, <2>6 DEF Bootstrapped
<1>3. ASSUME NEW h \in Handlers, RegisterCommit(h)
      PROVE  Bootstrapped'
  <2>1. /\ at'[h] = "idle" /\ raced' = raced
        /\ \A g \in Handlers \ {h} : snap'[g] = snap[g] /\ at'[g] = at[g]
    BY <1>3 DEF RegisterCommit, Return, TypeOK, historyVars
  <2>2. ~Claimant(h)' /\ \A g \in Handlers \ {h} : Claimant(g)' <=> Claimant(g)
    BY <2>1 DEF Claimant
  <2>3. mail[h] \in Emails /\ at[h] = "registering"
    BY <1>3 DEF TypeOK, RegisterCommit
  <2>4. CASE role[mail[h]] # "none"
    <3>1. role' = role
      BY <1>3, <2>4 DEF RegisterCommit
    <3> QED
      BY <1>1, <2>1, <3>1
  <2>5. CASE role[mail[h]] = "none" /\ snap[h].first
    <3>1. Users' = Users \cup {mail[h]} /\ Admins' = Admins \cup {mail[h]}
      BY <1>3, <2>3, <2>5 DEF RegisterCommit, Users, Admins, TypeOK
    <3>2. ~raced => Admins = {}
      BY <2>3, <2>5 DEF Bootstrapped, Claimant, Users, Admins
    <3>3. ~raced => \A g \in Handlers : ~Claimant(g)'
      BY <2>2, <2>3, <2>5 DEF Bootstrapped, Claimant
    <3> QED
      BY <2>1, <3>1, <3>2, <3>3 DEF Bootstrapped
  <2>6. CASE role[mail[h]] = "none" /\ ~snap[h].first
    <3>1. Users' = Users \cup {mail[h]} /\ Admins' = Admins
      BY <1>3, <2>3, <2>6 DEF RegisterCommit, Users, Admins, TypeOK
    <3>2. Users # {}
      BY <2>3, <2>6 DEF Bootstrapped
    <3> QED
      BY <2>1, <2>2, <3>1, <3>2 DEF Bootstrapped
  <2> QED
    BY <2>4, <2>5, <2>6
<1>4. ASSUME NEW h \in Handlers, NEW e \in Emails, LoginRead(h, e)
      PROVE  Bootstrapped'
  <2>1. \A g \in Handlers : at'[g] = "registering" => at[g] = "registering" /\ snap'[g] = snap[g]
    BY <1>4 DEF LoginRead, Take, TypeOK
  <2> QED
    BY <1>1, <1>4, <2>1 DEF LoginRead, rowVars
<1>5. ASSUME NEW h \in Handlers, Return(h), role' = role, raced' = raced
      PROVE  Bootstrapped'
  BY <1>1, <1>5 DEF Return, TypeOK
<1>6. ASSUME NEW h \in Handlers, LoginSucceeds(h) \/ LoginFails(h) \/ RollBack(h)
      PROVE  Bootstrapped'
  BY <1>5, <1>6 DEF LoginSucceeds, LoginFails, RollBack, rowVars, historyVars
<1>7. CASE Tick \/ UNCHANGED vars
  BY <1>1, <1>7 DEF Tick, vars, rowVars, handlerVars, historyVars
<1> QED
  BY <1>2, <1>3, <1>4, <1>6, <1>7 DEF Next

LEMMA BootstrappedCounts == Bootstrapped => AdminBootstrap
<1> SUFFICES ASSUME Bootstrapped, ~raced PROVE Cardinality(Admins) <= 1
  BY DEF Bootstrapped, AdminBootstrap
<1>1. CASE Admins = {}
  <2>1. Cardinality({}) = 0
    BY FS_EmptySet, Zenon
  <2> QED
    BY <1>1, <2>1
<1>2. CASE Admins # {}
  <2>1. PICK e \in Admins : Admins = {e}
    BY <1>2 DEF Bootstrapped
  <2>2. Cardinality({e}) = 1
    BY FS_Singleton, Zenon
  <2> QED
    BY <2>1, <2>2
<1> QED
  BY <1>1, <1>2

(* A system with users has an administrator, and one only, unless two first   *)
(* registrations overlapped, for any addresses and requests (register).      *)
THEOREM OneFirstAdmin == Spec => []AdminBootstrap
<1>1. Spec => []Bootstrapped
  BY InitBootstrapped, StepBootstrapped, AccountsTypeCorrect, PTL DEF Spec
<1> QED
  BY <1>1, BootstrappedCounts, PTL

-----------------------------------------------------------------------------
(* The counter of failed logins.                                           *)

(* The one login in hand for an account without overlaps has read the counter *)
(* as it still is.                                                         *)
LoggingIn(h, e) == at[h] \in {"right", "wrong"} /\ mail[h] = e

Counted ==
  \A e \in Emails \ contended :
    /\ failed[e] = audit[e]
    /\ \A h \in Handlers : LoggingIn(h, e) => snap[h].failed = failed[e]
    /\ \A g, h \in Handlers : LoggingIn(g, e) /\ LoggingIn(h, e) => g = h

LEMMA InitCounted == Init => Counted
BY DEF Init, Counted, LoggingIn

LEMMA StepCounted == TypeOK /\ Counted /\ [Next]_vars => Counted'
<1> SUFFICES ASSUME TypeOK, Counted, [Next]_vars,
                    NEW e \in Emails \ contended'
             PROVE  /\ failed'[e] = audit'[e]
                    /\ \A h \in Handlers : LoggingIn(h, e)' => snap'[h].failed = failed'[e]
                    /\ \A g, h \in Handlers : LoggingIn(g, e)' /\ LoggingIn(h, e)' => g = h
  BY DEF Counted
<1>1. e \in Emails \ contended
  BY DEF Next, vars, historyVars, RegisterRead, LoginRead, RegisterCommit, LoginSucceeds,
         LoginFails, RollBack, Tick
<1> DEFINE Kept == \A h \in Handlers :
                     LoggingIn(h, e)' => LoggingIn(h, e) /\ snap'[h] = snap[h]
           Goal == /\ failed'[e] = audit'[e]
                   /\ \A h \in Handlers : LoggingIn(h, e)' => snap'[h].failed = failed'[e]
                   /\ \A g, h \in Handlers : LoggingIn(g, e)' /\ LoggingIn(h, e)' => g = h
<1>2. ASSUME failed' = failed, audit' = audit, Kept PROVE Goal
  BY <1>1, <1>2 DEF Counted
<1>3. ASSUME NEW h \in Handlers, Return(h) PROVE Kept /\ ~LoggingIn(h, e)'
  BY <1>3 DEF Return, TypeOK, LoggingIn
<1>4. ASSUME NEW h \in Handlers, NEW f \in Emails, RegisterRead(h, f) PROVE Goal
  <2>1. Kept
    BY <1>4 DEF RegisterRead, Take, TypeOK, LoggingIn
  <2> QED
    BY <1>2, <1>4, <2>1 DEF RegisterRead, rowVars
<1>5. ASSUME NEW h \in Handlers, NEW f \in Emails, LoginRead(h, f) PROVE Goal
  <2>1. failed' = failed /\ audit' = audit
    BY <1>5 DEF LoginRead, rowVars
  <2>2. \A g \in Handlers \ {h} : (LoggingIn(g, e)' <=> LoggingIn(g, e)) /\ snap'[g] = snap[g]
    BY <1>5 DEF LoginRead, Take, TypeOK, LoggingIn
  <2>3. LoggingIn(h, e)' => f = e /\ snap'[h].failed = failed[e]
    BY <1>5 DEF LoginRead, Take, TypeOK, LoggingIn
  <2>4. f = e => \A g \in Handlers \ {h} : ~LoggingIn(g, e)
    BY <1>5 DEF LoginRead, LoggingIn
  <2> QED
    BY <1>1, <2>1, <2>2, <2>3, <2>4 DEF Counted
<1>6. ASSUME NEW h \in Handlers, RegisterCommit(h) \/ RollBack(h) PROVE Goal
  BY <1>2, <1>3, <1>6 DEF RegisterCommit, RollBack, rowVars
<1>7. ASSUME NEW h \in Handlers, LoginSucceeds(h) \/ LoginFails(h) PROVE Goal
  <2>1. mail[h] \in Emails /\ LoggingIn(h, mail[h]) /\ Return(h)
    BY <1>7 DEF LoginSucceeds, LoginFails, LoggingIn, TypeOK
  <2>2. CASE mail[h] # e
    <3>1. failed'[e] = failed[e] /\ audit'[e] = audit[e]
      BY <1>7, <2>1, <2>2 DEF LoginSucceeds, LoginFails, TypeOK, Write
    <3> QED
      BY <1>1, <1>3, <2>1, <3>1 DEF Counted
  <2>3. CASE mail[h] = e
    <3>1. \A g \in Handlers : ~LoggingIn(g, e)'
      BY <1>1, <1>3, <2>1, <2>3 DEF Counted
    <3>2. snap[h].failed = failed[e] /\ failed[e] = audit[e]
      BY <1>1, <2>1, <2>3 DEF Counted
    <3>3. \A value : Write(failed, e, failed[e], value)[e] = value
      BY <1>1 DEF Write, TypeOK
    <3>4. failed'[e] = audit'[e]
      <4>1. CASE LoginSucceeds(h)
        BY <2>3, <3>2, <3>3, <4>1 DEF LoginSucceeds, Forgotten, TypeOK
      <4>2. CASE LoginFails(h)
        BY <2>3, <3>2, <3>3, <4>2 DEF LoginFails, TypeOK
      <4> QED
        BY <1>7, <4>1, <4>2
    <3> QED
      BY <3>1, <3>4
  <2> QED
    BY <2>2, <2>3
<1>8. CASE Tick \/ UNCHANGED vars
  BY <1>2, <1>8 DEF Tick, vars, rowVars, handlerVars, LoggingIn
<1> QED
  BY <1>4, <1>5, <1>6, <1>7, <1>8 DEF Next

(* Where no two logins to an account overlapped, its counter is the number of *)
(* failures in the audit log since the last success or lock (login).         *)
THEOREM CountersExact == Spec => []CounterExact
<1>1. TypeOK /\ Counted => CounterExact
  BY LimitsAssumption DEF TypeOK, Counted, CounterExact
<1> QED
  BY <1>1, InitCounted, StepCounted, AccountsTypeCorrect, PTL DEF Spec

-----------------------------------------------------------------------------
(* The lock.                                                               *)

LEMMA StepLocks ==
  ASSUME TypeOK, [Next]_vars, NEW e \in Emails, locked'[e] # locked[e]
  PROVE  \E h \in Handlers :
           /\ mail[h] = e
           /\ at[h] = "wrong" \/ (at[h] = "right" /\ snap[h].locked # Never)
<1>1. PICK h \in Handlers : LoginSucceeds(h) \/ LoginFails(h)
  BY DEF Next, vars, rowVars, RegisterRead, LoginRead, RegisterCommit, RollBack, Tick
<1>2. mail[h] \in Emails
  BY DEF TypeOK
<1>3. CASE LoginSucceeds(h)
  BY <1>2, <1>3 DEF LoginSucceeds, TypeOK, Write
<1>4. CASE LoginFails(h)
  BY <1>2, <1>4 DEF LoginFails, TypeOK, Write
<1> QED
  BY <1>1, <1>3, <1>4

(* A lock in force is only changed by a failure, or by a success that had     *)
(* read an older lock (login).                                             *)
THEOREM LocksStand == Spec => LockStands
<1>1. TypeOK /\ [Next]_vars =>
        [\A e \in Emails :
           locked[e] > now /\ locked'[e] # locked[e]
             => \E h \in Handlers :
                  /\ mail[h] = e
                  /\ at[h] = "wrong" \/ (at[h] = "right" /\ snap[h].locked # Never)]_vars
  BY StepLocks
<1> QED
  BY <1>1, AccountsTypeCorrect, PTL DEF Spec, LockStands

-----------------------------------------------------------------------------
(* Factorials and choose.                                                  *)

(* The recursive definition of factorial has a solution: the products up to n *)
(* exist for every n, and agree.                                           *)
Products(N) == Runs(N, Nat, 1, [n \in 1 .. N |-> [v \in Nat |-> n * v]])

LEMMA ProductsRun ==
  ASSUME NEW N \in Nat
  PROVE  /\ Products(N) # {}
         /\ \A f \in Products(N) :
              f \in [0 .. N -> Nat] /\ f[0] = 1 /\ \A n \in 1 .. N : f[n] = n * f[n - 1]
<1> DEFINE G == [n \in 1 .. N |-> [v \in Nat |-> n * v]]
<1>1. G \in Steps(N, Nat)
  <2>1. \A n \in 1 .. N : [v \in Nat |-> n * v] \in [Nat -> Nat]
    OBVIOUS
  <2> QED
    BY <2>1 DEF Steps
<1>2. Runs(N, Nat, 1, G) # {}
  <2>1. 1 \in Nat
    OBVIOUS
  <2> QED
    BY <1>1, <2>1, Iteration
<1>3. ASSUME NEW f \in Products(N), NEW n \in 1 .. N PROVE f[n] = n * f[n - 1]
  <2>1. f \in Runs(N, Nat, 1, G)
    BY DEF Products
  <2>2. f[n] = G[n][f[n - 1]] /\ f[n - 1] \in Nat
    <3> HIDE DEF G
    <3> QED
      BY <2>1 DEF Runs
  <2> QED
    BY <2>2
<1> QED
  BY <1>2, <1>3 DEF Products, Runs

LEMMA ProductsAgree ==
  ASSUME NEW N \in Nat, NEW f \in Products(N), NEW g \in Products(N + 1)
  PROVE  f[N] = g[N]
<1> DEFINE Same == {n \in 0 .. N : f[n] = g[n]}
<1>1. 0 \in Same
  <2>1. N + 1 \in Nat
    OBVIOUS
  <2>2. f[0] = 1 /\ g[0] = 1
    BY <2>1, ProductsRun
  <2> QED
    BY <2>2
<1>2. \A n \in 0 .. N - 1 : n \in Same => n + 1 \in Same
  <2> TAKE n \in 0 .. N - 1
  <2>1. f[n + 1] = (n + 1) * f[n] /\ g[n + 1] = (n + 1) * g[n]
    <3>1. n + 1 \in 1 .. N /\ n + 1 \in 1 .. N + 1 /\ (n + 1) - 1 = n
      OBVIOUS
    <3>2. \A m \in 1 .. N : f[m] = m * f[m - 1]
      BY ProductsRun
    <3>3. N + 1 \in Nat
      OBVIOUS
    <3>4. \A m \in 1 .. N + 1 : g[m] = m * g[m - 1]
      BY <3>3, ProductsRun
    <3> QED
      BY <3>1, <3>2, <3>4
  <2> QED
    BY <2>1
<1> HIDE DEF Same
<1>3. \A n \in 0 .. N : n \in Same
  BY <1>1, <1>2, Induction
<1> QED
  BY <1>3 DEF Same

LEMMA FactorialRule == factorial = [n \in Nat |-> IF n = 0 THEN 1 ELSE n * factorial[n - 1]]
<1> DEFINE Table(n) == CHOOSE f \in Products(n) : TRUE
           g == [n \in Nat |-> Table(n)[n]]
<1>1. \A n \in Nat : Table(n) \in Products(n)
  BY ProductsRun
<1> HIDE DEF Table
<1>2. g[0] = 1
  BY <1>1, ProductsRun
<1>3. ASSUME NEW n \in Nat, n # 0 PROVE g[n] = n * g[n - 1]
  <2>1. n - 1 \in Nat /\ n = (n - 1) + 1
    BY <1>3
  <2>2. Table(n)[n] = n * Table(n)[n - 1]
    BY <1>1, <1>3, ProductsRun
  <2>3. Table(n - 1)[n - 1] = Table(n)[n - 1]
    BY <1>1, <2>1, ProductsAgree
  <2> QED
    BY <2>1, <2>2, <2>3
<1>4. g = [n \in Nat |-> IF n = 0 THEN 1 ELSE n * g[n - 1]]
  <2> DEFINE r == [n \in Nat |-> IF n = 0 THEN 1 ELSE n * g[n - 1]]
  <2>1. \A n \in Nat : g[n] = r[n]
    <3> HIDE DEF g
    <3> QED
      BY <1>2, <1>3
  <2>2. DOMAIN g = Nat /\ DOMAIN r = Nat /\ g = [n \in Nat |-> g[n]] /\ r = [n \in Nat |-> r[n]]
    OBVIOUS
  <2> HIDE DEF g, r
  <2>3. g = r
    BY <2>1, <2>2
  <2> QED
    BY <2>3 DEF r
<1>5. \E f : f = [n \in Nat |-> IF n = 0 THEN 1 ELSE n * f[n - 1]]
  <2> HIDE DEF g
  <2> QED
    BY <1>4
<1> QED
  BY <1>5, Zenon DEF factorial

LEMMA FactorialFacts ==
  /\ factorial[0] = 1
  /\ \A n \in Nat : factorial[n] \in Nat \ {0} /\ factorial[n + 1] = (n + 1) * factorial[n]
<1>1. \A n \in Nat : factorial[n] = IF n = 0 THEN 1 ELSE n * factorial[n - 1]
  BY FactorialRule
<1>2. factorial[0] = 1
  BY <1>1
<1>3. \A n \in Nat : factorial[n + 1] = (n + 1) * factorial[n]
  <2> TAKE n \in Nat
  <2>1. n + 1 \in Nat /\ n + 1 # 0 /\ (n + 1) - 1 = n
    OBVIOUS
  <2>2. factorial[n + 1] = (n + 1) * factorial[(n + 1) - 1]
    BY <1>1, <2>1
  <2> QED
    BY <2>1, <2>2
<1>4. \A n \in Nat : factorial[n] \in Nat \ {0}
  <2> TAKE N \in Nat
  <2> DEFINE Whole == {n \in 0 .. N : factorial[n] \in Nat \ {0}}
  <2>1. 0 \in Whole
    BY <1>2
  <2>2. ASSUME NEW n \in 0 .. N - 1, n \in Whole PROVE n + 1 \in Whole
    <3>1. factorial[n + 1] = (n + 1) * factorial[n] /\ factorial[n] \in Nat /\ factorial[n] > 0
      BY <1>3, <2>2
    <3>2. \A a, b \in Nat : a > 0 /\ b > 0 => a * b \in Nat /\ a * b # 0
      OBVIOUS
    <3> QED
      BY <3>1, <3>2
  <2> HIDE DEF Whole
  <2>3. \A n \in 0 .. N : n \in Whole
    BY <2>1, <2>2, Induction
  <2> QED
    BY <2>3 DEF Whole
<1> QED
  BY <1>2, <1>3, <1>4

LEMMA DivExact ==
  ASSUME NEW p \in Nat, NEW d \in Nat \ {0}
  PROVE  (p * d) \div d = p
<1> DEFINE q == (p * d) \div d
<1>1. q \in Int /\ d * q <= p * d /\ p * d < d * (q + 1)
  <2>1. p * d \in Int /\ d \in Int /\ d > 0
    OBVIOUS
  <2> QED
    BY <2>1
<1> QED
  BY <1>1

(* The orders of n + 1 things with k + 1 of them apart, from those of n things. *)
LEMMA Apart ==
  ASSUME NEW n \in Nat, NEW k \in 0 .. n - 1, NEW p \in Nat, NEW q \in Nat,
         factorial[n] = p * (factorial[k] * factorial[n - k]),
         factorial[n] = q * (factorial[k + 1] * factorial[n - (k + 1)])
  PROVE  factorial[n + 1] = (p + q) * (factorial[k + 1] * factorial[(n + 1) - (k + 1)])
<1> DEFINE j == n - (k + 1)
           a == factorial[k]
           b == factorial[j]
           d == factorial[k + 1] * factorial[j + 1]
<1>1. /\ k \in Nat /\ j \in Nat /\ n - k = j + 1 /\ (n + 1) - (k + 1) = j + 1
      /\ n + 1 = (k + 1) + (j + 1)
  OBVIOUS
<1>2. /\ factorial[k + 1] = (k + 1) * a /\ factorial[j + 1] = (j + 1) * b
      /\ factorial[n + 1] = (n + 1) * factorial[n]
      /\ a \in Nat /\ b \in Nat /\ factorial[n] \in Nat
  BY <1>1, FactorialFacts
<1>3. factorial[n] = p * (a * factorial[j + 1]) /\ factorial[n] = q * (factorial[k + 1] * b)
  BY <1>1
<1>4. d \in Nat
  <2>1. k + 1 \in Nat /\ j + 1 \in Nat
    BY <1>1
  <2>2. factorial[k + 1] \in Nat /\ factorial[j + 1] \in Nat
    BY <2>1, FactorialFacts
  <2> QED
    BY <2>2
<1> HIDE DEF a, b, j
<1>5. (k + 1) * factorial[n] = p * d
  <2>1. (k + 1) * (p * (a * ((j + 1) * b))) = p * (((k + 1) * a) * ((j + 1) * b))
    BY <1>1, <1>2
  <2> QED
    BY <1>2, <1>3, <2>1
<1>6. (j + 1) * factorial[n] = q * d
  <2>1. (j + 1) * (q * (((k + 1) * a) * b)) = q * (((k + 1) * a) * ((j + 1) * b))
    BY <1>1, <1>2
  <2> QED
    BY <1>2, <1>3, <2>1
<1>7. factorial[n + 1] = (k + 1) * factorial[n] + (j + 1) * factorial[n]
  <2>1. \A x \in Nat : ((k + 1) + (j + 1)) * x = (k + 1) * x + (j + 1) * x
    BY <1>1
  <2> QED
    BY <1>1, <1>2, <2>1
<1>8. p * d + q * d = (p + q) * d
  <2> HIDE DEF d
  <2> QED
    BY <1>4
<1> QED
  BY <1>1, <1>5, <1>6, <1>7, <1>8

(* choose divides exactly.                                                 *)
LEMMA ChooseWhole ==
  ASSUME NEW N \in Nat
  PROVE  \A k \in 0 .. N :
           /\ choose(N, k) \in Nat
           /\ factorial[N] = choose(N, k) * (factorial[k] * factorial[N - k])
<1> DEFINE Divides(n, k) == \E p \in Nat : factorial[n] = p * (factorial[k] * factorial[n - k])
           Whole == {n \in 0 .. N : \A k \in 0 .. n : Divides(n, k)}
<1>1. \A n \in Nat : Divides(n, 0) /\ Divides(n, n)
  <2> TAKE n \in Nat
  <2>1. factorial[n] = 1 * (factorial[0] * factorial[n - 0])
    BY FactorialFacts
  <2>2. factorial[n] = 1 * (factorial[n] * factorial[n - n])
    <3>1. n - n = 0
      OBVIOUS
    <3> QED
      BY <3>1, FactorialFacts
  <2> QED
    BY <2>1, <2>2
<1>2. 0 \in Whole
  <2>1. \A k \in 0 .. 0 : k = 0
    OBVIOUS
  <2> HIDE DEF Divides
  <2> QED
    BY <1>1, <2>1
<1>3. ASSUME NEW n \in 0 .. N - 1, n \in Whole PROVE n + 1 \in Whole
  <2>1. ASSUME NEW k \in 0 .. n - 1 PROVE Divides(n + 1, k + 1)
    <3>1. k \in 0 .. n /\ k + 1 \in 0 .. n
      OBVIOUS
    <3>2. PICK p \in Nat : factorial[n] = p * (factorial[k] * factorial[n - k])
      BY <1>3, <3>1
    <3>3. PICK q \in Nat : factorial[n] = q * (factorial[k + 1] * factorial[n - (k + 1)])
      BY <1>3, <3>1
    <3>4. factorial[n + 1] = (p + q) * (factorial[k + 1] * factorial[(n + 1) - (k + 1)])
      BY <3>2, <3>3, Apart
    <3> QED
      BY <3>4
  <2> HIDE DEF Divides
  <2>2. ASSUME NEW k \in 0 .. n + 1, k # 0, k # n + 1 PROVE Divides(n + 1, k)
    <3>1. k - 1 \in 0 .. n - 1 /\ (k - 1) + 1 = k
      BY <2>2
    <3>2. Divides(n + 1, (k - 1) + 1)
      BY <2>1, <3>1
    <3> QED
      BY <3>1, <3>2
  <2> QED
    BY <1>1, <2>2
<1> HIDE DEF Whole
<1>4. \A n \in 0 .. N : n \in Whole
  BY <1>2, <1>3, Induction
<1> TAKE k \in 0 .. N
<1>5. PICK p \in Nat : factorial[N] = p * (factorial[k] * factorial[N - k])
  BY <1>4 DEF Whole
<1>6. factorial[k] * factorial[N - k] \in Nat \ {0}
  <2>1. k \in Nat /\ N - k \in Nat
    OBVIOUS
  <2>2. factorial[k] \in Nat \ {0} /\ factorial[N - k] \in Nat \ {0}
    BY <2>1, FactorialFacts
  <2>3. \A a, b \in Nat \ {0} : a * b \in Nat \ {0}
    OBVIOUS
  <2> QED
    BY <2>2, <2>3
<1>7. choose(N, k) = p
  BY <1>5, <1>6, DivExact DEF choose
<1> QED
  BY <1>5, <1>7

(* The triangle of Pascal, its sides and its symmetry.                      *)
LEMMA Pascal ==
  ASSUME NEW n \in Nat
  PROVE  /\ choose(n, 0) = 1 /\ choose(n, n) = 1
         /\ \A k \in 0 .. n : choose(n, k) \in Nat /\ choose(n, k) = choose(n, n - k)
         /\ \A k \in 0 .. n - 1 : choose(n + 1, k + 1) = choose(n, k) + choose(n, k + 1)
<1>1. choose(n, 0) = 1 /\ choose(n, n) = 1
  <2>1. factorial[n] \in Nat \ {0} /\ factorial[0] = 1
    BY FactorialFacts
  <2>2. n - n = 0 /\ n - 0 = n
    OBVIOUS
  <2>3. factorial[n] \div (1 * factorial[n]) = 1 /\ factorial[n] \div (factorial[n] * 1) = 1
    BY <2>1
  <2> QED
    BY <2>1, <2>2, <2>3 DEF choose
<1>2. ASSUME NEW k \in 0 .. n PROVE choose(n, k) \in Nat /\ choose(n, k) = choose(n, n - k)
  <2>1. n - (n - k) = k /\ n - k \in Nat /\ k \in Nat
    OBVIOUS
  <2>2. factorial[k] * factorial[n - k] = factorial[n - k] * factorial[k]
    BY <2>1, FactorialFacts
  <2> QED
    BY <2>1, <2>2, ChooseWhole DEF choose
<1>3. ASSUME NEW k \in 0 .. n - 1 PROVE choose(n + 1, k + 1) = choose(n, k) + choose(n, k + 1)
  <2> DEFINE p == choose(n, k)
             q == choose(n, k + 1)
             r == choose(n + 1, k + 1)
             d == factorial[k + 1] * factorial[(n + 1) - (k + 1)]
  <2>1. /\ k \in 0 .. n /\ k + 1 \in 0 .. n /\ k + 1 \in 0 .. n + 1 /\ n + 1 \in Nat
        /\ k + 1 \in Nat /\ (n + 1) - (k + 1) \in Nat
    OBVIOUS
  <2>2. /\ p \in Nat /\ q \in Nat /\ r \in Nat
        /\ factorial[n] = p * (factorial[k] * factorial[n - k])
        /\ factorial[n] = q * (factorial[k + 1] * factorial[n - (k + 1)])
        /\ factorial[n + 1] = r * d
    BY <2>1, ChooseWhole
  <2>3. d \in Nat \ {0}
    <3>1. factorial[k + 1] \in Nat \ {0} /\ factorial[(n + 1) - (k + 1)] \in Nat \ {0}
      BY <2>1, FactorialFacts
    <3>2. \A a, b \in Nat \ {0} : a * b \in Nat \ {0}
      OBVIOUS
    <3> QED
      BY <3>1, <3>2
  <2> HIDE DEF p, q, r
  <2>4. r * d = (p + q) * d
    BY <2>2, Apart
  <2>5. r = p + q
    <3>1. \A x, y \in Nat, z \in Nat \ {0} : x * z = y * z => x = y
      OBVIOUS
    <3>2. p + q \in Nat
      BY <2>2
    <3> HIDE DEF d
    <3> QED
      BY <2>2, <2>3, <2>4, <3>1, <3>2
  <2> QED
    BY <2>5 DEF p, q, r
<1> QED
  BY <1>1, <1>2, <1>3

-----------------------------------------------------------------------------
(* Running sums.                                                           *)

Sums(n, w) == {a \in [0 .. n -> Nat] : a[0] = 0 /\ \A k \in 1 .. n : a[k] = a[k - 1] + w[k]}

LEMMA SumExists ==
  ASSUME NEW n \in Nat, NEW w \in [1 .. n -> Nat]
  PROVE  Sums(n, w) # {}
<1> DEFINE G == [k \in 1 .. n |-> [v \in Nat |-> v + w[k]]]
<1>1. G \in Steps(n, Nat)
  <2>1. \A k \in 1 .. n : [v \in Nat |-> v + w[k]] \in [Nat -> Nat]
    OBVIOUS
  <2> QED
    BY <2>1 DEF Steps
<1>2. PICK a \in Runs(n, Nat, 0, G) : TRUE
  BY <1>1, Iteration
<1>3. ASSUME NEW k \in 1 .. n PROVE a[k] = a[k - 1] + w[k]
  <2>1. a[k] = G[k][a[k - 1]] /\ a[k - 1] \in Nat
    <3> HIDE DEF G
    <3> QED
      BY <1>2 DEF Runs
  <2> QED
    BY <2>1
<1>4. a \in [0 .. n -> Nat] /\ a[0] = 0
  BY <1>2 DEF Runs
<1> QED
  BY <1>3, <1>4 DEF Sums

(* A lead that one sum has at j it keeps while its terms are no smaller.     *)
LEMMA LeadKept ==
  ASSUME NEW n \in Nat, NEW w \in [1 .. n -> Nat], NEW v \in [1 .. n -> Nat],
         NEW a \in Sums(n, w), NEW b \in Sums(n, v),
         NEW j \in 0 .. n, NEW m \in j .. n, NEW lead \in Nat,
         a[j] + lead <= b[j], \A k \in j + 1 .. m : w[k] <= v[k]
  PROVE  a[m] + lead <= b[m]
<1> DEFINE Led == {i \in 0 .. m - j : a[j + i] + lead <= b[j + i]}
<1>1. 0 \in Led
  OBVIOUS
<1>2. ASSUME NEW i \in 0 .. (m - j) - 1, i \in Led PROVE i + 1 \in Led
  <2>1. /\ j + i \in 0 .. n /\ j + (i + 1) \in 1 .. n /\ j + (i + 1) \in j + 1 .. m
        /\ (j + (i + 1)) - 1 = j + i /\ i + 1 \in 0 .. m - j
    OBVIOUS
  <2>2. a[j + (i + 1)] = a[j + i] + w[j + (i + 1)] /\ b[j + (i + 1)] = b[j + i] + v[j + (i + 1)]
    BY <2>1 DEF Sums
  <2>3. /\ a[j + i] \in Nat /\ b[j + i] \in Nat
        /\ w[j + (i + 1)] \in Nat /\ v[j + (i + 1)] \in Nat /\ w[j + (i + 1)] <= v[j + (i + 1)]
    BY <2>1 DEF Sums
  <2>4. a[j + i] + lead <= b[j + i]
    BY <1>2
  <2>5. a[j + (i + 1)] + lead <= b[j + (i + 1)]
    <3> DEFINE x == a[j + i]
               y == b[j + i]
               s == w[j + (i + 1)]
               t == v[j + (i + 1)]
    <3>1. x \in Nat /\ y \in Nat /\ s \in Nat /\ t \in Nat /\ s <= t /\ x + lead <= y
      BY <2>3, <2>4
    <3>2. a[j + (i + 1)] = x + s /\ b[j + (i + 1)] = y + t
      BY <2>2
    <3> HIDE DEF x, y, s, t
    <3>3. (x + s) + lead <= y + t
      BY <3>1
    <3> QED
      BY <3>2, <3>3
  <2> QED
    BY <2>1, <2>5
<1> HIDE DEF Led
<1>3. m - j \in Nat
  OBVIOUS
<1>4. m - j \in Led
  <2>1. \A i \in 0 .. m - j : i \in Led
    BY <1>1, <1>2, <1>3, Induction
  <2> QED
    BY <1>3, <2>1
<1>5. j + (m - j) = m
  OBVIOUS
<1> QED
  BY <1>4, <1>5 DEF Led

-----------------------------------------------------------------------------
(* The bound on lost counts.                                               *)

(* Of the failures in the audit log, those that took the counter to within k  *)
(* of the lock for l of the requests number Share(k, l) at most.             *)
Share(k, l) == IF l = 0 THEN 0 ELSE choose(k + l - 1, k)

LEMMA Shares ==
  ASSUME NEW l \in Nat
  PROVE  /\ Share(0, l + 1) = 1
         /\ \A k \in Nat : Share(k, l) \in Nat
         /\ \A k \in Nat \ {0} : Share(k, l + 1) = Share(k, l) + Share(k - 1, l + 1)
<1>1. Share(0, l + 1) = 1
  <2>1. l + 1 # 0 /\ 0 + (l + 1) - 1 = l
    OBVIOUS
  <2> QED
    BY <2>1, Pascal DEF Share
<1>2. ASSUME NEW k \in Nat PROVE Share(k, l) \in Nat
  <2>1. CASE l = 0
    BY <2>1 DEF Share
  <2>2. CASE l # 0
    <3>1. k + l - 1 \in Nat /\ k \in 0 .. k + l - 1
      BY <2>2
    <3>2. choose(k + l - 1, k) \in Nat
      BY <3>1, Pascal
    <3> QED
      BY <2>2, <3>2 DEF Share
  <2> QED
    BY <2>1, <2>2
<1>3. ASSUME NEW k \in Nat \ {0} PROVE Share(k, l + 1) = Share(k, l) + Share(k - 1, l + 1)
  <2>1. /\ Share(k, l + 1) = choose(k + l, k)
        /\ Share(k - 1, l + 1) = choose(k + l - 1, k - 1)
    <3>1. l + 1 # 0 /\ k + (l + 1) - 1 = k + l /\ (k - 1) + (l + 1) - 1 = k + l - 1
      OBVIOUS
    <3> QED
      BY <3>1 DEF Share
  <2>2. CASE l = 0
    <3>1. k \in Nat /\ k - 1 \in Nat /\ k + l = k /\ k + l - 1 = k - 1
      BY <2>2
    <3>2. choose(k, k) = 1 /\ choose(k - 1, k - 1) = 1
      BY <3>1, Pascal
    <3>3. Share(k, l) = 0
      BY <2>2 DEF Share
    <3> QED
      BY <2>1, <3>1, <3>2, <3>3
  <2>3. CASE l # 0
    <3>1. /\ k + l - 1 \in Nat /\ k - 1 \in 0 .. (k + l - 1) - 1
          /\ (k + l - 1) + 1 = k + l /\ (k - 1) + 1 = k
          /\ k \in 0 .. k + l - 1 /\ k - 1 \in 0 .. k + l - 1
      BY <2>3
    <3>2. choose((k + l - 1) + 1, (k - 1) + 1) = choose(k + l - 1, k - 1) + choose(k + l - 1, (k - 1) + 1)
      BY <3>1, Pascal
    <3>3. choose(k + l - 1, k - 1) \in Nat /\ choose(k + l - 1, k) \in Nat
      BY <3>1, Pascal
    <3>4. Share(k, l) = choose(k + l - 1, k)
      BY <2>3 DEF Share
    <3> QED
      BY <2>1, <3>1, <3>2, <3>3, <3>4
  <2> QED
    BY <2>2, <2>3
<1> QED
  BY <1>1, <1>2, <1>3

LEMMA ShareGrows ==
  ASSUME NEW k \in Nat \ {0}, NEW l \in Nat, NEW m \in Nat, l <= m
  PROVE  Share(k, l) <= Share(k, m)
<1> DEFINE Grown == {i \in 0 .. m - l : Share(k, l) <= Share(k, l + i)}
<1>1. \A i \in Nat : Share(k, i) \in Nat /\ Share(k, i) <= Share(k, i + 1)
  <2> TAKE i \in Nat
  <2>1. Share(k, i) \in Nat /\ Share(k, i + 1) = Share(k, i) + Share(k - 1, i + 1)
    BY Shares
  <2>2. Share(k - 1, i + 1) \in Nat
    <3>1. i + 1 \in Nat /\ k - 1 \in Nat
      OBVIOUS
    <3> QED
      BY <3>1, Shares
  <2> QED
    BY <2>1, <2>2
<1>2. 0 \in Grown
  <2>1. l + 0 = l /\ Share(k, l) \in Nat /\ 0 \in 0 .. m - l
    BY <1>1
  <2> QED
    BY <2>1
<1>3. ASSUME NEW i \in 0 .. (m - l) - 1, i \in Grown PROVE i + 1 \in Grown
  <2>1. l + i \in Nat /\ (l + i) + 1 = l + (i + 1) /\ l + (i + 1) \in Nat /\ i + 1 \in 0 .. m - l
    OBVIOUS
  <2>2. /\ Share(k, l + i) <= Share(k, (l + i) + 1)
        /\ Share(k, l) \in Nat /\ Share(k, l + i) \in Nat /\ Share(k, l + (i + 1)) \in Nat
    BY <1>1, <2>1
  <2>3. Share(k, l) <= Share(k, l + i)
    BY <1>3
  <2>4. Share(k, l) <= Share(k, l + (i + 1))
    BY <2>1, <2>2, <2>3
  <2> QED
    BY <2>1, <2>4
<1> HIDE DEF Grown
<1>4. m - l \in Nat
  OBVIOUS
<1>5. m - l \in Grown
  BY <1>2, <1>3, <1>4, Induction
<1>6. l + (m - l) = m
  OBVIOUS
<1> QED
  BY <1>5, <1>6 DEF Grown

(* The shares of l requests at the distances up to k, and one, are the share   *)
(* of l + 1 at k.                                                          *)
LEMMA ShareSum ==
  ASSUME NEW n \in Nat, NEW l \in Nat, NEW a \in Sums(n, [k \in 1 .. n |-> Share(k, l)])
  PROVE  \A k \in 0 .. n : a[k] + 1 = Share(k, l + 1)
<1> DEFINE Full == {k \in 0 .. n : a[k] + 1 = Share(k, l + 1)}
<1>1. 0 \in Full
  <2>1. a[0] = 0 /\ 0 \in 0 .. n
    BY DEF Sums
  <2>2. Share(0, l + 1) = 1
    BY Shares
  <2> QED
    BY <2>1, <2>2
<1>2. ASSUME NEW k \in 0 .. n - 1, k \in Full PROVE k + 1 \in Full
  <2>1. k + 1 \in 1 .. n /\ (k + 1) - 1 = k /\ k + 1 \in Nat \ {0} /\ k + 1 \in 0 .. n
    OBVIOUS
  <2>2. a[k + 1] = a[k] + Share(k + 1, l)
    BY <2>1 DEF Sums
  <2>3. Share(k + 1, l + 1) = Share(k + 1, l) + Share((k + 1) - 1, l + 1)
    BY <2>1, Shares
  <2>4. a[k] \in Nat /\ Share(k + 1, l) \in Nat /\ a[k] + 1 = Share(k, l + 1)
    BY <1>2, <2>1, Shares DEF Sums
  <2>5. a[k + 1] + 1 = Share(k + 1, l + 1)
    BY <2>1, <2>2, <2>3, <2>4
  <2> QED
    BY <2>1, <2>5
<1> HIDE DEF Full
<1>3. \A k \in 0 .. n : k \in Full
  BY <1>1, <1>2, Induction
<1> QED
  BY <1>3 DEF Full

LEMMA ShareTerms ==
  ASSUME NEW n \in Nat, NEW l \in Nat
  PROVE  [k \in 1 .. n |-> Share(k, l)] \in [1 .. n -> Nat]
<1>1. \A k \in Nat : Share(k, l) \in Nat
  BY Shares
<1>2. \A k \in 1 .. n : Share(k, l) \in Nat
  BY <1>1
<1> QED
  BY <1>2

(* One more request within d of the lock pays for a failure and for all the   *)
(* requests that were nearer to it.                                        *)
Trade(n, w, v, d, l) ==
  /\ \A k \in 1 .. d : w[k] <= Share(k, l)
  /\ Share(d, l + 1) <= v[d]
  /\ \A k \in d + 1 .. n : w[k] <= v[k]

LEMMA ShareTrade ==
  ASSUME NEW n \in Nat, NEW w \in [1 .. n -> Nat], NEW v \in [1 .. n -> Nat],
         NEW a \in Sums(n, w), NEW b \in Sums(n, v), NEW d \in 1 .. n, NEW l \in Nat,
         Trade(n, w, v, d, l)
  PROVE  a[n] + 1 <= b[n]
<1> DEFINE u == [k \in 1 .. n |-> Share(k, l)]
<1>1. u \in [1 .. n -> Nat]
  BY ShareTerms
<1>2. PICK c \in Sums(n, u) : TRUE
  BY <1>1, SumExists
<1>3. c[d - 1] + 1 = Share(d - 1, l + 1) /\ c[d - 1] \in Nat
  <2>1. d - 1 \in 0 .. n
    OBVIOUS
  <2> QED
    BY <1>2, <2>1, ShareSum DEF Sums
<1>4. a[d - 1] <= c[d - 1]
  <2>1. \A k \in 0 + 1 .. d - 1 : w[k] <= u[k]
    BY DEF Trade
  <2>2. a[0] + 0 <= c[0] /\ 0 \in 0 .. n /\ d - 1 \in 0 .. n /\ a[d - 1] \in Nat /\ 0 \in Nat
    BY <1>2 DEF Sums
  <2>3. a[d - 1] + 0 <= c[d - 1]
    <3> DEFINE m == d - 1
    <3>1. m \in 0 .. n /\ \A k \in 0 + 1 .. m : w[k] <= u[k]
      BY <2>1, <2>2
    <3> HIDE DEF u, m
    <3>2. a[m] + 0 <= c[m]
      BY <1>1, <1>2, <2>2, <3>1, LeadKept
    <3> QED
      BY <3>2 DEF m
  <2> QED
    BY <2>2, <2>3
<1>5. a[d] + 1 <= b[d]
  <2> DEFINE x == a[d - 1]
             y == b[d - 1]
             z == c[d - 1]
             s == Share(d, l)
             t == Share(d - 1, l + 1)
             wd == w[d]
             vd == v[d]
  <2>1. a[d] = x + wd /\ b[d] = y + vd /\ x \in Nat /\ y \in Nat
    <3>1. d - 1 \in 0 .. n
      OBVIOUS
    <3> QED
      BY <3>1 DEF Sums
  <2>2. Share(d, l + 1) = s + t /\ s \in Nat
    BY Shares
  <2>3. wd \in Nat /\ vd \in Nat /\ wd <= s /\ Share(d, l + 1) <= vd
    BY DEF Trade
  <2>4. z \in Nat /\ z + 1 = t /\ x <= z
    BY <1>3, <1>4
  <2> HIDE DEF x, y, z, s, t, wd, vd
  <2>5. wd <= s /\ s + t <= vd
    BY <2>2, <2>3
  <2>6. t \in Nat /\ x + 1 <= t
    BY <2>1, <2>4
  <2>7. (x + wd) + 1 <= y + vd
    BY <2>1, <2>2, <2>3, <2>5, <2>6
  <2> QED
    BY <2>1, <2>7
<1>6. d \in 0 .. n /\ n \in d .. n /\ 1 \in Nat
  OBVIOUS
<1> QED
  BY <1>5, <1>6, LeadKept DEF Trade

(* The requests whose failure will leave the counter further than k from the   *)
(* lock; the other requests, once the counter is that near; and what those may *)
(* have put into the audit log.                                            *)
Behind(e, k) == {h \in Handlers : at[h] = "wrong" /\ mail[h] = e /\ snap[h].failed < MaxFailed - k}
Passed(e, k) == IF failed[e] < MaxFailed - k THEN 0 ELSE Cardinality(Handlers \ Behind(e, k))
Shared(e) == [k \in 1 .. MaxFailed - 1 |-> Share(k, Passed(e, k))]

Weighed ==
  \A e \in Emails : \E a \in Sums(MaxFailed - 1, Shared(e)) : audit[e] <= a[MaxFailed - 1]

LEMMA Remainder ==
  ASSUME IsFiniteSet(Handlers), NEW B, NEW C
  PROVE  /\ Cardinality(Handlers \ B) \in Nat
         /\ B \subseteq C => Cardinality(Handlers \ C) <= Cardinality(Handlers \ B)
         /\ \A h \in Handlers \cap C : B \subseteq C \ {h}
              => Cardinality(Handlers \ C) + 1 <= Cardinality(Handlers \ B)
<1>1. \A D : IsFiniteSet(Handlers \ D) /\ Cardinality(Handlers \ D) \in Nat
  BY FS_Difference, FS_CardinalityType
<1>2. ASSUME NEW D, NEW E, D \subseteq E
      PROVE  Cardinality(Handlers \ E) <= Cardinality(Handlers \ D)
  <2>1. Handlers \ E \subseteq Handlers \ D
    BY <1>2
  <2> QED
    BY <1>1, <2>1, FS_Subset
<1>3. ASSUME NEW h \in Handlers \cap C, B \subseteq C \ {h}
      PROVE  Cardinality(Handlers \ C) + 1 <= Cardinality(Handlers \ B)
  <2>1. Handlers \ (C \ {h}) = (Handlers \ C) \cup {h} /\ h \notin Handlers \ C
    OBVIOUS
  <2>2. Cardinality(Handlers \ (C \ {h})) = Cardinality(Handlers \ C) + 1
    BY <1>1, <2>1, FS_AddElement
  <2> QED
    BY <1>1, <1>2, <1>3, <2>2
<1> QED
  BY <1>1, <1>2, <1>3

LEMMA SharedType ==
  ASSUME IsFiniteSet(Handlers), NEW e \in Emails
  PROVE  /\ \A k : Passed(e, k) \in Nat
         /\ Shared(e) \in [1 .. MaxFailed - 1 -> Nat]
<1>1. \A k : Passed(e, k) \in Nat
  BY Remainder DEF Passed
<1>2. \A k \in 1 .. MaxFailed - 1 : Share(k, Passed(e, k)) \in Nat
  <2> TAKE k \in 1 .. MaxFailed - 1
  <2>1. k \in Nat /\ Passed(e, k) \in Nat
    BY <1>1
  <2> QED
    BY <2>1, Shares
<1> QED
  BY <1>1, <1>2 DEF Shared

LEMMA InitWeighed == IsFiniteSet(Handlers) /\ Init => Weighed
<1> SUFFICES ASSUME IsFiniteSet(Handlers), Init, NEW e \in Emails
             PROVE  \E a \in Sums(MaxFailed - 1, Shared(e)) : audit[e] <= a[MaxFailed - 1]
  BY DEF Weighed
<1>1. MaxFailed - 1 \in Nat
  BY LimitsAssumption
<1>2. PICK a \in Sums(MaxFailed - 1, Shared(e)) : TRUE
  BY <1>1, SharedType, SumExists
<1>3. audit[e] = 0 /\ a[MaxFailed - 1] \in Nat
  BY <1>1 DEF Init, Sums
<1> QED
  BY <1>3

(* The bound is kept: a failure that does not lock is paid for by the request  *)
(* that catches up, and everything else leaves no request further behind.    *)
LEMMA StepWeighed ==
  IsFiniteSet(Handlers) /\ TypeOK /\ TypeOK' /\ Weighed /\ [Next]_vars => Weighed'
<1> DEFINE N == MaxFailed - 1
<1> SUFFICES ASSUME IsFiniteSet(Handlers), TypeOK, TypeOK', Weighed, [Next]_vars, NEW e \in Emails
             PROVE  \E a \in Sums(N, Shared(e)') : audit'[e] <= a[N]
  BY DEF Weighed
<1> DEFINE Goal == \E a \in Sums(N, Shared(e)') : audit'[e] <= a[N]
<1>n. N \in Nat /\ MaxFailed \in Nat
  BY LimitsAssumption
<1>w. Shared(e) \in [1 .. N -> Nat] /\ \A k : Passed(e, k) \in Nat
  BY SharedType
<1>v. Shared(e)' \in [1 .. N -> Nat] /\ \A k : Passed(e, k)' \in Nat
  <2>1. \A k : Passed(e, k)' \in Nat
    BY Remainder DEF Passed
  <2>2. \A k \in 1 .. N : Share(k, Passed(e, k)') \in Nat
    <3> TAKE k \in 1 .. N
    <3>1. k \in Nat /\ Passed(e, k)' \in Nat
      BY <2>1
    <3> QED
      BY <3>1, Shares
  <2>3. Shared(e)' = [k \in 1 .. N |-> Share(k, Passed(e, k)')]
    BY DEF Shared, Share
  <2> QED
    BY <2>1, <2>2, <2>3
<1>a. PICK a \in Sums(N, Shared(e)) : audit[e] <= a[N]
  BY DEF Weighed
<1>b. PICK b \in Sums(N, Shared(e)') : TRUE
  BY <1>n, <1>v, SumExists
<1>s. /\ a[N] \in Nat /\ b[N] \in Nat /\ a[0] = 0 /\ b[0] = 0
      /\ audit[e] \in Nat /\ failed[e] \in 0 .. N
  BY <1>n, <1>a, <1>b DEF Sums, TypeOK
<1>t. /\ \A k \in 1 .. N : Shared(e)[k] = Share(k, Passed(e, k))
      /\ \A k \in 1 .. N : Shared(e)'[k] = Share(k, Passed(e, k)')
  BY DEF Shared, Share
<1> HIDE DEF N
<1>1. ASSUME audit'[e] = 0 PROVE Goal
  BY <1>1, <1>b, <1>s
<1>2. ASSUME NEW k \in 1 .. N, Passed(e, k) <= Passed(e, k)'
      PROVE  Shared(e)[k] <= Shared(e)'[k]
  <2>1. k \in Nat \ {0}
    OBVIOUS
  <2>2. Share(k, Passed(e, k)) <= Share(k, Passed(e, k)')
    BY <1>2, <1>w, <1>v, <2>1, ShareGrows
  <2> QED
    BY <1>t, <2>2
<1>3. ASSUME failed'[e] = failed[e], audit'[e] = audit[e],
             \A h \in Handlers : at'[h] = "wrong" /\ mail'[h] = e =>
               \/ at[h] = "wrong" /\ mail[h] = e /\ snap'[h] = snap[h]
               \/ snap'[h].failed = failed[e]
      PROVE  Goal
  <2>1. ASSUME NEW k \in 1 .. N PROVE Passed(e, k) <= Passed(e, k)'
    <3>1. CASE failed[e] < MaxFailed - k
      <4>1. Passed(e, k) = 0
        BY <3>1 DEF Passed
      <4> QED
        BY <1>v, <4>1
    <3>2. CASE ~(failed[e] < MaxFailed - k)
      <4>1. Behind(e, k)' \subseteq Behind(e, k)
        BY <1>3, <3>2 DEF Behind
      <4>2. /\ Passed(e, k) = Cardinality(Handlers \ Behind(e, k))
            /\ Passed(e, k)' = Cardinality(Handlers \ Behind(e, k)')
        BY <1>3, <3>2 DEF Passed
      <4> QED
        BY <4>1, <4>2, Remainder
    <3> QED
      BY <3>1, <3>2
  <2>2. \A k \in 0 + 1 .. N : Shared(e)[k] <= Shared(e)'[k]
    BY <1>2, <2>1
  <2>3. a[0] + 0 <= b[0] /\ 0 \in 0 .. N /\ N \in 0 .. N /\ 0 \in Nat
    BY <1>n, <1>s
  <2> DEFINE w == Shared(e)
             v == Shared(e)'
  <2>4. a[N] + 0 <= b[N]
    <3> HIDE DEF w, v
    <3>1. w \in [1 .. N -> Nat] /\ v \in [1 .. N -> Nat] /\ a \in Sums(N, w) /\ b \in Sums(N, v)
      BY <1>w, <1>v, <1>a, <1>b DEF w, v
    <3>2. \A k \in 0 + 1 .. N : w[k] <= v[k]
      BY <2>2 DEF w, v
    <3> QED
      BY <1>n, <2>3, <3>1, <3>2, LeadKept
  <2> QED
    BY <1>3, <1>a, <1>b, <1>s, <2>4
<1>4. ASSUME NEW h \in Handlers, Return(h)
      PROVE  \A g \in Handlers : at'[g] = "wrong" => at[g] = "wrong" /\ mail'[g] = mail[g] /\ snap'[g] = snap[g]
  BY <1>4 DEF Return, TypeOK
<1>5. ASSUME NEW h \in Handlers, NEW f \in Emails, RegisterRead(h, f) PROVE Goal
  <2>1. failed' = failed /\ audit' = audit
    BY <1>5 DEF RegisterRead, rowVars
  <2>2. \A g \in Handlers : at'[g] = "wrong" => at[g] = "wrong" /\ mail'[g] = mail[g] /\ snap'[g] = snap[g]
    BY <1>5 DEF RegisterRead, Take, TypeOK
  <2> QED
    BY <1>3, <2>1, <2>2
<1>6. ASSUME NEW h \in Handlers, NEW f \in Emails, LoginRead(h, f) PROVE Goal
  <2>1. failed' = failed /\ audit' = audit
    BY <1>6 DEF LoginRead, rowVars
  <2>2. \A g \in Handlers \ {h} : at'[g] = at[g] /\ mail'[g] = mail[g] /\ snap'[g] = snap[g]
    BY <1>6 DEF LoginRead, Take, TypeOK
  <2>3. mail'[h] = f /\ snap'[h].failed = failed[f]
    BY <1>6 DEF LoginRead, Take, TypeOK
  <2> QED
    BY <1>3, <2>1, <2>2, <2>3
<1>7. ASSUME NEW h \in Handlers, RegisterCommit(h) \/ RollBack(h) PROVE Goal
  <2>1. failed' = failed /\ audit' = audit /\ Return(h)
    BY <1>7 DEF RegisterCommit, RollBack, rowVars
  <2> QED
    BY <1>3, <1>4, <2>1
<1>8. ASSUME NEW h \in Handlers, LoginSucceeds(h) \/ LoginFails(h), mail[h] # e PROVE Goal
  <2>1. Return(h) /\ mail[h] \in Emails
    BY <1>8 DEF LoginSucceeds, LoginFails, TypeOK
  <2>2. failed'[e] = failed[e] /\ audit'[e] = audit[e]
    BY <1>8, <2>1 DEF LoginSucceeds, LoginFails, TypeOK, Write
  <2> QED
    BY <1>3, <1>4, <2>1, <2>2
<1>9. ASSUME NEW h \in Handlers, LoginSucceeds(h), mail[h] = e PROVE Goal
  <2>1. audit'[e] = 0
    BY <1>9 DEF LoginSucceeds, TypeOK
  <2> QED
    BY <1>1, <2>1
<1>10. ASSUME NEW h \in Handlers, LoginFails(h), mail[h] = e, Due(snap[h].failed + 1) PROVE Goal
  <2>1. audit'[e] = 0
    BY <1>10 DEF LoginFails, TypeOK
  <2> QED
    BY <1>1, <2>1
<1>11. ASSUME NEW h \in Handlers, LoginFails(h), mail[h] = e, ~Due(snap[h].failed + 1) PROVE Goal
  <2>1. PICK read \in Nat : read = snap[h].failed /\ read + 1 < MaxFailed
    <3>1. snap[h] \in Snapshots
      BY DEF TypeOK
    <3>2. snap[h].failed \in 0 .. MaxFailed
      BY <3>1 DEF Snapshots
    <3> QED
      BY <1>n, <1>11, <3>2 DEF Due
  <2>2. PICK d \in 1 .. N : MaxFailed - d = read + 1
    <3>1. MaxFailed - (read + 1) \in 1 .. N /\ MaxFailed - (MaxFailed - (read + 1)) = read + 1
      BY <1>n, <2>1 DEF N
    <3> QED
      BY <3>1
  <2> DEFINE l == Cardinality(Handlers \ Behind(e, d))
  <2>3. failed'[e] = read + 1 /\ audit'[e] = audit[e] + 1
    <3>1. read + 1 # read
      BY <2>1
    <3> QED
      BY <1>11, <2>1, <3>1 DEF LoginFails, Write, TypeOK
  <2>4. at[h] = "wrong" /\ at'[h] = "idle" /\ Return(h)
    BY <1>11 DEF LoginFails, Return, TypeOK
  <2>5. \A k \in 1 .. N : Behind(e, k)' \subseteq Behind(e, k) \ {h}
    BY <1>4, <2>4 DEF Behind
  <2>6. h \in Behind(e, d)
    BY <1>11, <2>1, <2>2, <2>4 DEF Behind
  <2>7. l \in Nat
    BY Remainder
  <2>8. ASSUME NEW k \in 1 .. d PROVE Shared(e)[k] <= Share(k, l)
    <3>1. k \in 1 .. N /\ k \in Nat \ {0}
      BY <1>n, <2>2
    <3>2. Behind(e, d) \subseteq Behind(e, k)
      <4>1. \A g \in Handlers : snap[g].failed < MaxFailed - d => snap[g].failed < MaxFailed - k
        <5> TAKE g \in Handlers
        <5>1. snap[g].failed \in Nat
          <6>1. snap[g] \in Snapshots
            BY DEF TypeOK
          <6> QED
            BY <6>1 DEF Snapshots
        <5> QED
          BY <1>n, <2>2, <5>1
      <4> QED
        BY <4>1 DEF Behind
    <3>3. Passed(e, k) <= l
      <4>1. Cardinality(Handlers \ Behind(e, k)) <= l
        BY <3>2, Remainder
      <4> QED
        BY <2>7, <4>1 DEF Passed
    <3>4. Share(k, Passed(e, k)) <= Share(k, l)
      BY <1>w, <2>7, <3>1, <3>3, ShareGrows
    <3> QED
      BY <1>t, <3>1, <3>4
  <2>9. Share(d, l + 1) <= Shared(e)'[d]
    <3>1. Passed(e, d)' = Cardinality(Handlers \ Behind(e, d)')
      <4>1. ~(failed'[e] < MaxFailed - d)
        BY <2>1, <2>2, <2>3
      <4> QED
        BY <4>1 DEF Passed
    <3>2. l + 1 <= Passed(e, d)'
      <4>1. Behind(e, d)' \subseteq Behind(e, d) \ {h} /\ h \in Handlers \cap Behind(e, d)
        BY <2>5, <2>6
      <4>2. l + 1 <= Cardinality(Handlers \ Behind(e, d)')
        BY <4>1, Remainder
      <4> QED
        BY <3>1, <4>2
    <3>3. Share(d, l + 1) <= Share(d, Passed(e, d)')
      <4>1. l + 1 \in Nat /\ d \in Nat \ {0}
        BY <2>2, <2>7
      <4> QED
        BY <1>v, <3>2, <4>1, ShareGrows
    <3> QED
      BY <1>t, <2>2, <3>3
  <2>10. ASSUME NEW k \in d + 1 .. N PROVE Shared(e)[k] <= Shared(e)'[k]
    <3>1. k \in 1 .. N /\ MaxFailed - k <= read
      BY <1>n, <2>1, <2>2
    <3>2. Passed(e, k)' = Cardinality(Handlers \ Behind(e, k)')
      <4>1. ~(failed'[e] < MaxFailed - k)
        BY <1>n, <2>1, <2>3, <3>1
      <4> QED
        BY <4>1 DEF Passed
    <3>3. Passed(e, k) <= Passed(e, k)'
      <4>1. Behind(e, k)' \subseteq Behind(e, k)
        BY <2>5, <3>1
      <4>2. Cardinality(Handlers \ Behind(e, k)) <= Cardinality(Handlers \ Behind(e, k)')
        BY <4>1, Remainder
      <4>3. Passed(e, k)' \in Nat
        BY <1>v
      <4> QED
        BY <3>2, <4>2, <4>3 DEF Passed
    <3> QED
      BY <1>2, <3>1, <3>3
  <2> DEFINE w == Shared(e)
             v == Shared(e)'
  <2>11. Trade(N, w, v, d, l)
    BY <2>8, <2>9, <2>10 DEF Trade
  <2>12. a[N] + 1 <= b[N]
    <3>1. w \in [1 .. N -> Nat] /\ v \in [1 .. N -> Nat] /\ a \in Sums(N, w) /\ b \in Sums(N, v)
      BY <1>w, <1>v, <1>a, <1>b
    <3> HIDE DEF w, v, l
    <3> QED
      BY <1>n, <2>2, <2>7, <2>11, <3>1, ShareTrade
  <2> QED
    BY <1>a, <1>b, <1>s, <2>3, <2>12
<1>12. CASE Tick \/ UNCHANGED vars
  <2>1. failed' = failed /\ audit' = audit /\ at' = at /\ mail' = mail /\ snap' = snap
    BY <1>12 DEF Tick, vars, rowVars, handlerVars
  <2> QED
    BY <1>3, <2>1
<1> QED
  BY <1>5, <1>6, <1>7, <1>8, <1>9, <1>10, <1>11, <1>12 DEF Next

LEMMA WeighedBounds == IsFiniteSet(Handlers) /\ TypeOK /\ Weighed => CountBound
<1> SUFFICES ASSUME IsFiniteSet(Handlers), TypeOK, Weighed, NEW e \in Emails
             PROVE  audit[e] < choose(MaxFailed - 1 + Cardinality(Handlers), Cardinality(Handlers))
  BY DEF CountBound
<1> DEFINE N == MaxFailed - 1
           all == Cardinality(Handlers)
           u == [k \in 1 .. N |-> Share(k, all)]
           w == Shared(e)
<1>1. N \in Nat /\ all \in Nat
  BY LimitsAssumption, FS_CardinalityType
<1>2. PICK a \in Sums(N, w) : audit[e] <= a[N]
  BY DEF Weighed
<1>3. PICK c \in Sums(N, u) : TRUE
  BY <1>1, ShareTerms, SumExists
<1>4. \A k \in 0 + 1 .. N : w[k] <= u[k]
  <2> TAKE k \in 1 .. N
  <2>1. Passed(e, k) <= all /\ Passed(e, k) \in Nat
    <3>1. Handlers \ {} = Handlers /\ {} \subseteq Behind(e, k)
      OBVIOUS
    <3>2. Cardinality(Handlers \ Behind(e, k)) <= all
      BY <3>1, Remainder
    <3> QED
      BY <1>1, <3>2, SharedType DEF Passed
  <2>2. k \in Nat \ {0}
    OBVIOUS
  <2>3. Share(k, Passed(e, k)) <= Share(k, all)
    BY <1>1, <2>1, <2>2, ShareGrows
  <2>4. w[k] = Share(k, Passed(e, k)) /\ u[k] = Share(k, all)
    BY DEF Shared
  <2> QED
    BY <2>3, <2>4
<1>5. a[N] <= c[N] /\ a[N] \in Nat /\ c[N] \in Nat
  <2>1. w \in [1 .. N -> Nat] /\ u \in [1 .. N -> Nat]
    BY <1>1, SharedType, ShareTerms
  <2>2. a[0] + 0 <= c[0] /\ 0 \in 0 .. N /\ N \in 0 .. N /\ 0 \in Nat /\ a[N] \in Nat /\ c[N] \in Nat
    BY <1>1, <1>2, <1>3 DEF Sums
  <2> HIDE DEF N, u, w
  <2>3. a[N] + 0 <= c[N]
    BY <1>1, <1>2, <1>3, <1>4, <2>1, <2>2, LeadKept
  <2> QED
    BY <2>2, <2>3
<1>6. c[N] + 1 = Share(N, all + 1)
  <2>1. N \in 0 .. N
    BY <1>1
  <2> HIDE DEF N, all
  <2> QED
    BY <1>1, <1>3, <2>1, ShareSum
<1>7. Share(N, all + 1) = choose(N + all, all)
  <2>1. all + 1 # 0 /\ N + (all + 1) - 1 = N + all /\ N + all \in Nat
        /\ all \in 0 .. N + all /\ (N + all) - all = N
    BY <1>1
  <2> HIDE DEF N, all
  <2>2. choose(N + all, all) = choose(N + all, N)
    BY <2>1, Pascal
  <2> QED
    BY <2>1, <2>2 DEF Share
<1>8. audit[e] \in Nat
  BY DEF TypeOK
<1> HIDE DEF N, all
<1>9. audit[e] < choose(N + all, all)
  BY <1>2, <1>5, <1>6, <1>7, <1>8
<1> QED
  BY <1>9 DEF N, all

(* However the requests overlap, an account is locked before the failures in   *)
(* the audit log reach choose(MaxFailed - 1 + h, h), for any number h of       *)
(* requests in hand (login).                                               *)
THEOREM FailuresBounded ==
  ASSUME IsFiniteSet(Handlers)
  PROVE  Spec => []CountBound
<1>1. Spec => []Weighed
  <2>1. Init => Weighed
    BY InitWeighed
  <2>2. TypeOK /\ TypeOK' /\ Weighed /\ [Next]_vars => Weighed'
    BY StepWeighed
  <2> QED
    BY <2>1, <2>2, AccountsTypeCorrect, PTL DEF Spec
<1>2. TypeOK /\ Weighed => CountBound
  BY WeighedBounds
<1> QED
  BY <1>1, <1>2, AccountsTypeCorrect, PTL
===============================================================================
