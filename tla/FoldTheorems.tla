----------------------------- MODULE FoldTheorems -----------------------------
(***************************************************************************)
(* Induction over the numbers up to a bound, and what it gives for the folds  *)
(* of SequencesExt: a function that computes them exists.  The steps of a     *)
(* fold are a function here, since no prover instantiates an operator.       *)
(***************************************************************************)
EXTENDS SequencesExt, FiniteSetTheorems, TLAPS

(* A set of numbers without a least element would have as many elements below *)
(* any of its own as there are ranks for them, and one more.                 *)
LEMMA LeastElement ==
  ASSUME NEW S \in SUBSET Nat, S # {}
  PROVE  \E m \in S : \A k \in S : m <= k
<1> SUFFICES ASSUME \A m \in S : \E k \in S : k < m PROVE FALSE
  OBVIOUS
<1>1. PICK n \in S : TRUE
  OBVIOUS
<1> DEFINE T == S \cap (0 .. n)
           below(x) == {y \in T : y < x}
           rank == [x \in T |-> Cardinality(below(x))]
<1>2. IsFiniteSet(T) /\ n \in T
  <2>1. IsFiniteSet(0 .. n)
    BY FS_Interval
  <2> QED
    BY <1>1, <2>1, FS_Subset
<1>3. \A x \in T : IsFiniteSet(below(x)) /\ Cardinality(below(x)) \in Nat
  BY <1>2, FS_Subset, FS_CardinalityType
<1>4. \A x \in T : Cardinality(below(x)) # 0
  <2> TAKE x \in T
  <2>1. PICK k \in S : k < x
    OBVIOUS
  <2>2. k \in below(x)
    BY <2>1
  <2> QED
    BY <1>3, <2>2, FS_EmptySet
<1>5. \A x \in T : Cardinality(below(x)) < Cardinality(T)
  <2> TAKE x \in T
  <2>1. below(x) \in SUBSET T /\ x \notin below(x)
    OBVIOUS
  <2>2. below(x) # T
    BY <2>1
  <2> HIDE DEF below, T
  <2>3. Cardinality(below(x)) <= Cardinality(T) /\ Cardinality(T) # Cardinality(below(x))
    BY <1>2, <2>1, <2>2, FS_Subset
  <2>4. Cardinality(T) \in Nat
    BY <1>2, FS_CardinalityType
  <2> QED
    BY <1>3, <2>3, <2>4
<1>6. \A x, y \in T : x < y => Cardinality(below(x)) < Cardinality(below(y))
  <2> SUFFICES ASSUME NEW x \in T, NEW y \in T, x < y
               PROVE  Cardinality(below(x)) < Cardinality(below(y))
    OBVIOUS
  <2>1. below(x) \in SUBSET below(y) /\ x \in below(y) /\ x \notin below(x)
    OBVIOUS
  <2>2. below(x) # below(y)
    BY <2>1
  <2> HIDE DEF below, T
  <2>3. IsFiniteSet(below(y))
    BY <1>3
  <2>4. Cardinality(below(x)) <= Cardinality(below(y)) /\ Cardinality(below(y)) # Cardinality(below(x))
    BY <2>1, <2>2, <2>3, FS_Subset
  <2> QED
    BY <1>3, <2>4
<1>7. Cardinality(T) \in Nat
  BY <1>2, FS_CardinalityType
<1>8. rank \in [T -> 1 .. Cardinality(T) - 1]
  <2>1. \A x \in T : Cardinality(below(x)) \in 1 .. Cardinality(T) - 1
    <3> HIDE DEF below, T
    <3> QED
      BY <1>3, <1>4, <1>5, <1>7
  <2> QED
    BY <2>1
<1>9. IsFiniteSet(1 .. Cardinality(T) - 1) /\ Cardinality(1 .. Cardinality(T) - 1) < Cardinality(T)
  <2> HIDE DEF T
  <2>1. Cardinality(T) - 1 \in Int
    BY <1>7
  <2>2. ASSUME NEW k \in Int
        PROVE  IsFiniteSet(1 .. k) /\ Cardinality(1 .. k) = IF 1 > k THEN 0 ELSE k - 1 + 1
    <3>1. 1 \in Int
      OBVIOUS
    <3> QED
      BY <3>1, FS_Interval
  <2>3. Cardinality(T) # 0
    BY <1>2, FS_EmptySet
  <2> QED
    BY <1>7, <2>1, <2>2, <2>3
<1>10. \E x, y \in T : x # y /\ rank[x] = rank[y]
  <2> HIDE DEF T, rank
  <2> QED
    BY <1>2, <1>8, <1>9, FS_PigeonHole
<1>11. PICK x \in T, y \in T : x # y /\ Cardinality(below(x)) = Cardinality(below(y))
  BY <1>10
<1>12. x < y \/ y < x
  BY <1>11
<1>13. Cardinality(below(x)) < Cardinality(below(x))
  <2> HIDE DEF below, T
  <2> QED
    BY <1>6, <1>11, <1>12
<1> QED
  <2> HIDE DEF below, T
  <2> QED
    BY <1>3, <1>11, <1>13

(* Induction: a set with 0 that is closed under successor up to N has 0 .. N. *)
LEMMA Induction ==
  ASSUME NEW N \in Nat, NEW S, 0 \in S, \A n \in 0 .. N - 1 : n \in S => n + 1 \in S
  PROVE  \A n \in 0 .. N : n \in S
<1> SUFFICES ASSUME NEW n \in 0 .. N, n \notin S PROVE FALSE
  OBVIOUS
<1> DEFINE Out == {k \in 0 .. N : k \notin S}
<1>1. Out \in SUBSET Nat /\ Out # {}
  OBVIOUS
<1>2. PICK m \in Out : \A k \in Out : m <= k
  BY <1>1, LeastElement
<1>3. m # 0 /\ m - 1 \in 0 .. N - 1 /\ m - 1 \notin Out
  BY <1>2
<1> QED
  BY <1>3

(* The greatest of a set of numbers up to N.                                 *)
LEMMA MaxOf ==
  ASSUME NEW N \in Nat, NEW T \in SUBSET (1 .. N), T # {}
  PROVE  Max(T) \in T /\ \A k \in T : k <= Max(T)
<1> DEFINE Far == {N - k : k \in T}
<1>1. Far \in SUBSET Nat /\ Far # {}
  <2>1. \A k \in T : N - k \in Nat
    OBVIOUS
  <2> QED
    BY <2>1
<1>2. PICK m \in Far : \A k \in Far : m <= k
  BY <1>1, LeastElement
<1>3. PICK t \in T : m = N - t
  BY <1>2
<1>4. \A k \in T : t >= k
  <2> TAKE k \in T
  <2>1. N - k \in Far
    OBVIOUS
  <2>2. N - t <= N - k /\ t \in 1 .. N /\ k \in 1 .. N
    BY <1>2, <1>3, <2>1
  <2> QED
    BY <2>2
<1>5. \E x \in T : \A y \in T : x >= y
  BY <1>4
<1>6. Max(T) \in T /\ \A y \in T : Max(T) >= y
  BY <1>5 DEF Max
<1> QED
  BY <1>6

LEMMA MaxOfInterval ==
  ASSUME NEW N \in Nat, NEW n \in 1 .. N
  PROVE  Max(1 .. n) = n /\ (1 .. n) \ {n} = 1 .. n - 1
<1>1. 1 .. n \in SUBSET (1 .. N) /\ 1 .. n # {}
  BY 1 \in 1 .. n
<1>2. Max(1 .. n) \in 1 .. n /\ \A k \in 1 .. n : k <= Max(1 .. n)
  BY <1>1, MaxOf
<1> QED
  BY <1>2

-----------------------------------------------------------------------------
(* Recursion.                                                              *)

(* The steps of a fold over values in S, and what G makes of them from a.        *)
Steps(N, S) == [1 .. N -> [S -> S]]
Runs(N, S, a, G) == {f \in [0 .. N -> S] : f[0] = a /\ \A n \in 1 .. N : f[n] = G[n][f[n - 1]]}

LEMMA Iteration ==
  ASSUME NEW N \in Nat, NEW S, NEW a \in S, NEW G \in Steps(N, S)
  PROVE  Runs(N, S, a, G) # {}
<1>0. G \in [1 .. N -> [S -> S]]
  BY DEF Steps
<1> DEFINE Run(f, k) == f \in [0 .. k -> S] /\ f[0] = a /\ \A n \in 1 .. k : f[n] = G[n][f[n - 1]]
           Ready == {k \in 0 .. N : \E f : Run(f, k)}
<1>1. 0 \in Ready
  <2>1. Run([n \in 0 .. 0 |-> a], 0)
    OBVIOUS
  <2> HIDE DEF Run
  <2> QED
    BY <2>1
<1>2. ASSUME NEW k \in 0 .. N - 1, k \in Ready PROVE k + 1 \in Ready
  <2>1. PICK f : Run(f, k)
    BY <1>2
  <2> DEFINE v == G[k + 1][f[k]]
             g == [n \in 0 .. k + 1 |-> IF n = k + 1 THEN v ELSE f[n]]
  <2>2. f[k] \in S /\ k + 1 \in 1 .. N
    BY <2>1
  <2>3. v \in S
    BY <1>0, <2>2
  <2>4. g \in [0 .. k + 1 -> S]
    <3> HIDE DEF v
    <3> QED
      BY <2>1, <2>3
  <2>5. g[0] = a
    BY <2>1
  <2>6. ASSUME NEW n \in 1 .. k + 1 PROVE g[n] = G[n][g[n - 1]]
    <3>1. CASE n = k + 1
      BY <3>1
    <3>2. CASE n \in 1 .. k
      BY <2>1, <3>2
    <3> QED
      BY <3>1, <3>2
  <2>7. Run(g, k + 1)
    <3> HIDE DEF g
    <3> QED
      BY <2>4, <2>5, <2>6
  <2>8. \E h : Run(h, k + 1)
    <3> HIDE DEF Run, g
    <3> QED
      BY <2>7
  <2> HIDE DEF Run
  <2> QED
    BY <2>8
<1>3. N \in Ready
  <2> HIDE DEF Ready
  <2>1. \A k \in 0 .. N - 1 : k \in Ready => k + 1 \in Ready
    BY <1>2
  <2>2. \A k \in 0 .. N : k \in Ready
    BY <1>1, <2>1, Induction
  <2> QED
    BY <2>2
<1>4. PICK f : Run(f, N)
  BY <1>3
<1>5. f \in Runs(N, S, a, G)
  BY <1>4 DEF Runs
<1> QED
  BY <1>5

(* The function on sets of numbers that a fold takes its value from exists.   *)
FoldMaps(N, S, a, G) ==
  {it \in [SUBSET (1 .. N) -> S] :
     /\ it[{}] = a
     /\ \A s \in SUBSET (1 .. N) : s # {} => it[s] = G[Max(s)][it[s \ {Max(s)}]]}

LEMMA Folding ==
  ASSUME NEW N \in Nat, NEW S, NEW a \in S, NEW G \in Steps(N, S)
  PROVE  FoldMaps(N, S, a, G) # {}
<1>0. G \in [1 .. N -> [S -> S]]
  BY DEF Steps
<1> DEFINE Fold(it, k) ==
             /\ it \in [SUBSET (1 .. k) -> S] /\ it[{}] = a
             /\ \A s \in SUBSET (1 .. k) : s # {} => it[s] = G[Max(s)][it[s \ {Max(s)}]]
           Ready == {k \in 0 .. N : \E it : Fold(it, k)}
<1>1. 0 \in Ready
  <2>1. SUBSET (1 .. 0) = {{}}
    OBVIOUS
  <2>2. Fold([s \in SUBSET (1 .. 0) |-> a], 0)
    BY <2>1
  <2> HIDE DEF Fold
  <2> QED
    BY <2>2
<1>2. ASSUME NEW k \in 0 .. N - 1, k \in Ready PROVE k + 1 \in Ready
  <2>1. PICK f : Fold(f, k)
    BY <1>2
  <2> DEFINE top == k + 1
             g == [s \in SUBSET (1 .. top) |-> IF top \in s THEN G[top][f[s \ {top}]] ELSE f[s]]
  <2>2. top \in 1 .. N /\ top \in Nat /\ 1 .. k \subseteq 1 .. top
    OBVIOUS
  <2>3. \A s \in SUBSET (1 .. top) : /\ s \ {top} \in SUBSET (1 .. k)
                                    /\ top \notin s => s \in SUBSET (1 .. k)
    OBVIOUS
  <2>4. g \in [SUBSET (1 .. top) -> S]
    <3>1. ASSUME NEW s \in SUBSET (1 .. top) PROVE g[s] \in S
      <4>1. CASE top \in s
        <5>1. f[s \ {top}] \in S
          BY <2>1, <2>3
        <5> HIDE DEF top
        <5> QED
          BY <1>0, <2>2, <4>1, <5>1
      <4>2. CASE top \notin s
        <5>1. f[s] \in S
          BY <2>1, <2>3, <4>2
        <5>2. g[s] = f[s]
          BY <4>2
        <5> QED
          BY <5>1, <5>2
      <4> QED
        BY <4>1, <4>2
    <3> HIDE DEF top
    <3> QED
      BY <3>1
  <2>5. g[{}] = a
    BY <2>1
  <2>6. ASSUME NEW s \in SUBSET (1 .. top), s # {} PROVE g[s] = G[Max(s)][g[s \ {Max(s)}]]
    <3>1. Max(s) \in s /\ \A n \in s : n <= Max(s)
      BY <2>2, <2>6, MaxOf
    <3>2. CASE top \in s
      <4>1. Max(s) = top
        <5>1. Max(s) \in 1 .. top /\ top <= Max(s)
          BY <2>6, <3>1, <3>2
        <5> QED
          BY <2>2, <5>1
      <4>2. g[s \ {top}] = f[s \ {top}]
        BY <2>3
      <4>3. g[s] = G[top][f[s \ {top}]]
        BY <3>2
      <4> HIDE DEF g, top
      <4> QED
        BY <4>1, <4>2, <4>3
    <3>3. CASE top \notin s
      <4>1. s \in SUBSET (1 .. k)
        BY <2>3, <3>3
      <4>2. g[s] = f[s] /\ g[s \ {Max(s)}] = f[s \ {Max(s)}]
        <5>1. s \ {Max(s)} \in SUBSET (1 .. top) /\ top \notin s \ {Max(s)}
          BY <2>6, <3>3
        <5> HIDE DEF top
        <5> QED
          BY <2>6, <3>3, <5>1
      <4>3. f[s] = G[Max(s)][f[s \ {Max(s)}]]
        BY <2>1, <2>6, <4>1
      <4> HIDE DEF g, top
      <4> QED
        BY <4>2, <4>3
    <3> QED
      BY <3>2, <3>3
  <2>7. Fold(g, k + 1)
    <3> HIDE DEF g
    <3> QED
      BY <2>4, <2>5, <2>6
  <2>8. \E h : Fold(h, k + 1)
    <3> HIDE DEF Fold, g
    <3> QED
      BY <2>7
  <2> HIDE DEF Fold
  <2> QED
    BY <2>8
<1>3. N \in Ready
  <2> HIDE DEF Ready
  <2>1. \A k \in 0 .. N - 1 : k \in Ready => k + 1 \in Ready
    BY <1>2
  <2>2. \A k \in 0 .. N : k \in Ready
    BY <1>1, <2>1, Induction
  <2> QED
    BY <2>2
<1>4. PICK it : Fold(it, N)
  BY <1>3
<1>5. it \in FoldMaps(N, S, a, G)
  BY <1>4 DEF FoldMaps
<1> QED
  BY <1>5

(* What such a function gives for the prefixes of the numbers is a run.       *)
LEMMA PrefixRun ==
  ASSUME NEW N \in Nat, NEW S, NEW a \in S, NEW G \in Steps(N, S), NEW it,
         it[{}] = a,
         \A n \in 1 .. N : it[1 .. n - 1] \in S => it[1 .. n] = G[n][it[1 .. n - 1]]
  PROVE  [n \in 0 .. N |-> it[1 .. n]] \in Runs(N, S, a, G)
<1>0. G \in [1 .. N -> [S -> S]]
  BY DEF Steps
<1> DEFINE Typed == {n \in 0 .. N : it[1 .. n] \in S}
<1>1. it[1 .. 0] = a
  <2>1. 1 .. 0 = {}
    OBVIOUS
  <2> QED
    BY <2>1
<1>2. \A n \in 1 .. N : it[1 .. n - 1] \in S => it[1 .. n] = G[n][it[1 .. n - 1]]
  OBVIOUS
<1>3. ASSUME NEW n \in 0 .. N - 1, n \in Typed PROVE n + 1 \in Typed
  <2>1. n + 1 \in 1 .. N /\ (n + 1) - 1 = n /\ it[1 .. n] \in S
    BY <1>3
  <2>2. it[1 .. n + 1] = G[n + 1][it[1 .. n]]
    BY <1>2, <2>1
  <2>3. G[n + 1][it[1 .. n]] \in S
    BY <1>0, <2>1
  <2> QED
    BY <2>1, <2>2, <2>3
<1>4. \A n \in 0 .. N : n \in Typed
  <2>1. 0 \in Typed
    BY <1>1
  <2>2. \A n \in 0 .. N - 1 : n \in Typed => n + 1 \in Typed
    BY <1>3
  <2> HIDE DEF Typed
  <2> QED
    BY <2>1, <2>2, Induction
<1> DEFINE run == [n \in 0 .. N |-> it[1 .. n]]
<1>5. run \in [0 .. N -> S]
  BY <1>4
<1>6. \A n \in 1 .. N : run[n] = G[n][run[n - 1]]
  <2> TAKE n \in 1 .. N
  <2>1. n - 1 \in 0 .. N /\ n \in 0 .. N
    OBVIOUS
  <2>2. it[1 .. n - 1] \in S
    BY <1>4, <2>1
  <2> QED
    BY <1>2, <2>1, <2>2
<1>7. run[0] = a
  BY <1>1
<1>8. run \in Runs(N, S, a, G)
  <2> HIDE DEF run
  <2> QED
    BY <1>5, <1>6, <1>7 DEF Runs
<1> QED
  BY <1>8

(* The parts of a sequence of sequences, appended one after the other.         *)
Parts(N, T) == [1 .. N -> Seq(T)]
Joins(N, T, parts) ==
  {f \in [0 .. N -> Seq(T)] :
     f[0] = <<>> /\ \A n \in 1 .. N : f[n] = f[n - 1] \o parts[n]}

LEMMA Flattening ==
  ASSUME NEW T, NEW N \in Nat, NEW parts \in Parts(N, T)
  PROVE  \E f \in Joins(N, T, parts) : f[N] = FlattenSeq(parts)
<1>0. parts \in [1 .. N -> Seq(T)]
  BY DEF Parts
<1>1. parts \in Seq(Seq(T)) /\ Len(parts) = N /\ <<>> \in Seq(T)
  BY <1>0
<1> DEFINE G == [n \in 1 .. N |-> [v \in Seq(T) |-> v \o parts[n]]]
<1>2. G \in [1 .. N -> [Seq(T) -> Seq(T)]]
  BY <1>0
<1>3. PICK f \in [0 .. N -> Seq(T)] : f[0] = <<>> /\ \A n \in 1 .. N : f[n] = G[n][f[n - 1]]
  <2>1. G \in Steps(N, Seq(T))
    BY <1>2 DEF Steps
  <2>2. PICK f : f \in Runs(N, Seq(T), <<>>, G)
    <3> HIDE DEF G
    <3> QED
      BY <1>1, <2>1, Iteration
  <2> HIDE DEF G
  <2> QED
    BY <2>2 DEF Runs
<1>4. \A n \in 1 .. N : f[n] = f[n - 1] \o parts[n]
  <2> TAKE n \in 1 .. N
  <2>1. f[n - 1] \in Seq(T) /\ f[n] = G[n][f[n - 1]]
    <3>1. n - 1 \in 0 .. N
      OBVIOUS
    <3> HIDE DEF G
    <3> QED
      BY <1>3, <3>1
  <2>2. G[n] = [v \in Seq(T) |-> v \o parts[n]]
    OBVIOUS
  <2> QED
    BY <2>1, <2>2
<1>5. f[N] = FlattenSeq(parts)
  <2>1. CASE N = 0
    <3>1. FlattenSeq(parts) = parts
      BY <1>1, <2>1 DEF FlattenSeq
    <3>2. parts = <<>>
      BY <1>1, <2>1
    <3> QED
      BY <1>3, <2>1, <3>1, <3>2
  <2>2. CASE N # 0
    <3> DEFINE Q(g) == g = [n \in 1 .. Len(parts) |-> IF n = 1 THEN parts[n] ELSE g[n - 1] \o parts[n]]
               g0 == [n \in 1 .. N |-> f[n]]
    <3>1. Q(g0)
      <4>1. ASSUME NEW n \in 1 .. N
            PROVE  f[n] = IF n = 1 THEN parts[n] ELSE g0[n - 1] \o parts[n]
        <5>1. CASE n = 1
          <6>1. f[1] = <<>> \o parts[1]
            <7>1. f[n] = f[n - 1] \o parts[n]
              BY <1>4
            <7>2. n - 1 = 0
              BY <5>1
            <7> QED
              BY <1>3, <5>1, <7>1, <7>2
          <6>2. parts[1] \in Seq(T)
            BY <1>0, <5>1
          <6>3. \A s \in Seq(T) : <<>> \o s = s
            OBVIOUS
          <6> QED
            BY <5>1, <6>1, <6>2, <6>3
        <5>2. CASE n # 1
          <6>1. n - 1 \in 1 .. N
            BY <5>2
          <6>2. g0[n - 1] = f[n - 1]
            BY <6>1
          <6>3. f[n] = f[n - 1] \o parts[n]
            BY <1>4
          <6> HIDE DEF g0
          <6> QED
            BY <5>2, <6>2, <6>3
        <5> QED
          BY <5>1, <5>2
      <4> QED
        BY <1>1, <4>1
    <3> DEFINE h == CHOOSE g : Q(g)
    <3>2. Q(h)
      <4>1. \E g : Q(g)
        <5> HIDE DEF Q, g0
        <5> QED
          BY <3>1
      <4> HIDE DEF Q
      <4> QED
        BY <4>1
    <3>3. FlattenSeq(parts) = h[N]
      BY <1>1, <2>2 DEF FlattenSeq
    <3> HIDE DEF h
    <3> DEFINE Same == {n \in 0 .. N : n = 0 \/ h[n] = f[n]}
    <3>4. ASSUME NEW n \in 0 .. N - 1, n \in Same PROVE n + 1 \in Same
      <4>1. n + 1 \in 1 .. N /\ (n + 1) - 1 = n
        OBVIOUS
      <4>2. h[n + 1] = IF n + 1 = 1 THEN parts[n + 1] ELSE h[n] \o parts[n + 1]
        BY <1>1, <3>2, <4>1
      <4>3. g0[n + 1] = IF n + 1 = 1 THEN parts[n + 1] ELSE g0[n] \o parts[n + 1]
        BY <1>1, <3>1, <4>1
      <4>4. n + 1 # 1 => g0[n] = f[n]
        BY <4>1
      <4>5. g0[n + 1] = f[n + 1]
        BY <4>1
      <4> HIDE DEF g0
      <4> QED
        BY <3>4, <4>1, <4>2, <4>3, <4>4, <4>5
    <3>5. \A n \in 0 .. N : n \in Same
      <4>1. 0 \in Same
        OBVIOUS
      <4>2. \A n \in 0 .. N - 1 : n \in Same => n + 1 \in Same
        BY <3>4
      <4> HIDE DEF Same
      <4> QED
        BY <4>1, <4>2, Induction
    <3> QED
      BY <2>2, <3>3, <3>5
  <2> QED
    BY <2>1, <2>2
<1>6. f \in Joins(N, T, parts)
  BY <1>3, <1>4 DEF Joins
<1> QED
  BY <1>5, <1>6
===============================================================================
