---------------------------- MODULE EvidenceProofs ----------------------------
(***************************************************************************)
(* What Evidence promises of a run's sources, claims and rows, proved for     *)
(* every number of queries and answers.  The lists are folds: for each fold   *)
(* there is a function from the number of elements taken to the list so far,  *)
(* and what holds of the lists follows by induction over that number.         *)
(***************************************************************************)
EXTENDS Evidence, FoldTheorems

-----------------------------------------------------------------------------
(* The folds.                                                              *)

(* The urls that _filter has kept after each result of a search.            *)
LEMMA KeepRun ==
  ASSUME NEW T, NEW found \in Seq(T)
  PROVE  \E f \in [0 .. Len(found) -> Seq(T)] :
           /\ f[0] = <<>>
           /\ \A n \in 1 .. Len(found) : f[n] = Keep(f[n - 1], found[n])
           /\ FoldLeft(Keep, <<>>, found) = f[Len(found)]
<1> DEFINE N == Len(found)
           S == Seq(T)
           G == [n \in 1 .. N |-> [v \in S |-> Keep(v, found[n])]]
           Q(it) == it = [s \in SUBSET (DOMAIN found) |->
                            IF s = {} THEN <<>> ELSE Keep(it[s \ {Max(s)}], found[Max(s)])]
           it == CHOOSE i : Q(i)
           f == [n \in 0 .. N |-> it[1 .. n]]
<1>1. N \in Nat /\ DOMAIN found = 1 .. N /\ <<>> \in S /\ \A n \in 1 .. N : found[n] \in T
  OBVIOUS
<1>2. \A v \in S, x \in T : Keep(v, x) \in S
  BY DEF Keep
<1> HIDE DEF S
<1>3. G \in Steps(N, S)
  BY <1>1, <1>2 DEF Steps
<1>4. PICK w : w \in FoldMaps(N, S, <<>>, G)
  <2> HIDE DEF N, G
  <2> QED
    BY <1>1, <1>3, Folding
<1>5. Q(w)
  <2>1. \A s \in SUBSET (1 .. N) :
          w[s] = IF s = {} THEN <<>> ELSE Keep(w[s \ {Max(s)}], found[Max(s)])
    <3> SUFFICES ASSUME NEW s \in SUBSET (1 .. N), s # {}
                 PROVE  w[s] = Keep(w[s \ {Max(s)}], found[Max(s)])
      BY <1>4 DEF FoldMaps
    <3>1. Max(s) \in 1 .. N
      <4> HIDE DEF N
      <4> QED
        BY <1>1, MaxOf
    <3>2. w[s \ {Max(s)}] \in S /\ w[s] = G[Max(s)][w[s \ {Max(s)}]]
      <4> HIDE DEF G, N
      <4> QED
        BY <1>4 DEF FoldMaps
    <3>3. \A n \in 1 .. N, v \in S : G[n][v] = Keep(v, found[n])
      OBVIOUS
    <3> HIDE DEF G
    <3> QED
      BY <3>1, <3>2, <3>3
  <2>2. w = [s \in SUBSET (1 .. N) |-> w[s]]
    <3> HIDE DEF G, N
    <3> QED
      BY <1>4 DEF FoldMaps
  <2> HIDE DEF G
  <2> QED
    BY <1>1, <2>1, <2>2
<1>6. Q(it)
  <2> HIDE DEF Q
  <2> QED
    BY <1>5
<1>7. FoldLeft(Keep, <<>>, found) = it[1 .. N]
  BY <1>1 DEF FoldLeft, MapThenFoldSet
<1>8. it[{}] = <<>> /\ \A n \in 1 .. N : it[1 .. n] = Keep(it[1 .. n - 1], found[n])
  <2> HIDE DEF it
  <2>1. it[{}] = <<>>
    BY <1>6
  <2>2. ASSUME NEW n \in 1 .. N PROVE it[1 .. n] = Keep(it[1 .. n - 1], found[n])
    <3>1. Max(1 .. n) = n /\ (1 .. n) \ {n} = 1 .. n - 1
      <4> HIDE DEF N
      <4> QED
        BY <1>1, MaxOfInterval
    <3>2. 1 .. n \in SUBSET (DOMAIN found) /\ 1 .. n # {}
      <4>1. n \in 1 .. n /\ 1 .. n \subseteq 1 .. N
        OBVIOUS
      <4> QED
        BY <1>1, <4>1
    <3>3. it[1 .. n] = Keep(it[(1 .. n) \ {Max(1 .. n)}], found[Max(1 .. n)])
      BY <1>6, <3>2
    <3> QED
      BY <3>1, <3>3
  <2> QED
    BY <2>1, <2>2
<1>9. f \in Runs(N, S, <<>>, G)
  <2> HIDE DEF it
  <2>1. \A n \in 1 .. N : it[1 .. n - 1] \in S => it[1 .. n] = G[n][it[1 .. n - 1]]
    BY <1>8
  <2> HIDE DEF N, G
  <2> QED
    BY <1>1, <1>3, <1>8, <2>1, PrefixRun
<1>10. f \in [0 .. N -> S] /\ f[0] = <<>>
  <2> HIDE DEF f, G
  <2> QED
    BY <1>9 DEF Runs
<1>11. \A n \in 1 .. N : f[n] = Keep(f[n - 1], found[n])
  <2> HIDE DEF it
  <2> QED
    BY <1>8
<1>12. FoldLeft(Keep, <<>>, found) = f[N]
  <2> HIDE DEF it
  <2> QED
    BY <1>1, <1>7
<1> QED
  <2> HIDE DEF f
  <2> QED
    BY <1>10, <1>11, <1>12 DEF S

(* The sources after each result of the merged batches.                     *)
LEMMA CollectRun ==
  ASSUME NEW T, NEW found \in Seq(T)
  PROVE  \E f \in [0 .. Len(found) -> Seq(T)] :
           /\ f[0] = <<>>
           /\ \A n \in 1 .. Len(found) : f[n] = Collect(f[n - 1], found[n])
           /\ FoldLeft(Collect, <<>>, found) = f[Len(found)]
<1> DEFINE N == Len(found)
           S == Seq(T)
           G == [n \in 1 .. N |-> [v \in S |-> Collect(v, found[n])]]
           Q(it) == it = [s \in SUBSET (DOMAIN found) |->
                            IF s = {} THEN <<>> ELSE Collect(it[s \ {Max(s)}], found[Max(s)])]
           it == CHOOSE i : Q(i)
           f == [n \in 0 .. N |-> it[1 .. n]]
<1>1. N \in Nat /\ DOMAIN found = 1 .. N /\ <<>> \in S /\ \A n \in 1 .. N : found[n] \in T
  OBVIOUS
<1>2. \A v \in S, x \in T : Collect(v, x) \in S
  BY DEF Collect
<1> HIDE DEF S
<1>3. G \in Steps(N, S)
  BY <1>1, <1>2 DEF Steps
<1>4. PICK w : w \in FoldMaps(N, S, <<>>, G)
  <2> HIDE DEF N, G
  <2> QED
    BY <1>1, <1>3, Folding
<1>5. Q(w)
  <2>1. \A s \in SUBSET (1 .. N) :
          w[s] = IF s = {} THEN <<>> ELSE Collect(w[s \ {Max(s)}], found[Max(s)])
    <3> SUFFICES ASSUME NEW s \in SUBSET (1 .. N), s # {}
                 PROVE  w[s] = Collect(w[s \ {Max(s)}], found[Max(s)])
      BY <1>4 DEF FoldMaps
    <3>1. Max(s) \in 1 .. N
      <4> HIDE DEF N
      <4> QED
        BY <1>1, MaxOf
    <3>2. w[s \ {Max(s)}] \in S /\ w[s] = G[Max(s)][w[s \ {Max(s)}]]
      <4> HIDE DEF G, N
      <4> QED
        BY <1>4 DEF FoldMaps
    <3>3. \A n \in 1 .. N, v \in S : G[n][v] = Collect(v, found[n])
      OBVIOUS
    <3> HIDE DEF G
    <3> QED
      BY <3>1, <3>2, <3>3
  <2>2. w = [s \in SUBSET (1 .. N) |-> w[s]]
    <3> HIDE DEF G, N
    <3> QED
      BY <1>4 DEF FoldMaps
  <2> HIDE DEF G
  <2> QED
    BY <1>1, <2>1, <2>2
<1>6. Q(it)
  <2> HIDE DEF Q
  <2> QED
    BY <1>5
<1>7. FoldLeft(Collect, <<>>, found) = it[1 .. N]
  BY <1>1 DEF FoldLeft, MapThenFoldSet
<1>8. it[{}] = <<>> /\ \A n \in 1 .. N : it[1 .. n] = Collect(it[1 .. n - 1], found[n])
  <2> HIDE DEF it
  <2>1. it[{}] = <<>>
    BY <1>6
  <2>2. ASSUME NEW n \in 1 .. N PROVE it[1 .. n] = Collect(it[1 .. n - 1], found[n])
    <3>1. Max(1 .. n) = n /\ (1 .. n) \ {n} = 1 .. n - 1
      <4> HIDE DEF N
      <4> QED
        BY <1>1, MaxOfInterval
    <3>2. 1 .. n \in SUBSET (DOMAIN found) /\ 1 .. n # {}
      <4>1. n \in 1 .. n /\ 1 .. n \subseteq 1 .. N
        OBVIOUS
      <4> QED
        BY <1>1, <4>1
    <3>3. it[1 .. n] = Collect(it[(1 .. n) \ {Max(1 .. n)}], found[Max(1 .. n)])
      BY <1>6, <3>2
    <3> QED
      BY <3>1, <3>3
  <2> QED
    BY <2>1, <2>2
<1>9. f \in Runs(N, S, <<>>, G)
  <2> HIDE DEF it
  <2>1. \A n \in 1 .. N : it[1 .. n - 1] \in S => it[1 .. n] = G[n][it[1 .. n - 1]]
    BY <1>8
  <2> HIDE DEF N, G
  <2> QED
    BY <1>1, <1>3, <1>8, <2>1, PrefixRun
<1>10. f \in [0 .. N -> S] /\ f[0] = <<>>
  <2> HIDE DEF f, G
  <2> QED
    BY <1>9 DEF Runs
<1>11. \A n \in 1 .. N : f[n] = Collect(f[n - 1], found[n])
  <2> HIDE DEF it
  <2> QED
    BY <1>8
<1>12. FoldLeft(Collect, <<>>, found) = f[N]
  <2> HIDE DEF it
  <2> QED
    BY <1>1, <1>7
<1> QED
  <2> HIDE DEF f
  <2> QED
    BY <1>10, <1>11, <1>12 DEF S

(* The claims of an answer after each of its items. *)
LEMMA BindRun ==
  ASSUME NEW found \in Seq(Items)
  PROVE  \E f \in [0 .. Len(found) -> Seq(Items)] :
           /\ f[0] = <<>>
           /\ \A n \in 1 .. Len(found) : f[n] = Bind(f[n - 1], found[n])
           /\ FoldLeft(Bind, <<>>, found) = f[Len(found)]
<1> DEFINE N == Len(found)
           S == Seq(Items)
           G == [n \in 1 .. N |-> [v \in S |-> Bind(v, found[n])]]
           Q(it) == it = [s \in SUBSET (DOMAIN found) |->
                            IF s = {} THEN <<>> ELSE Bind(it[s \ {Max(s)}], found[Max(s)])]
           it == CHOOSE i : Q(i)
           f == [n \in 0 .. N |-> it[1 .. n]]
<1>1. N \in Nat /\ DOMAIN found = 1 .. N /\ <<>> \in S /\ \A n \in 1 .. N : found[n] \in Items
  OBVIOUS
<1>2. \A v \in S, x \in Items : Bind(v, x) \in S
  <2> SUFFICES ASSUME NEW v \in S, NEW x \in Items PROVE Bind(v, x) \in S
    OBVIOUS
  <2>1. Cited(x) \in Items
    BY DEF Cited, Items
  <2> QED
    BY <2>1 DEF Bind
<1> HIDE DEF S
<1>3. G \in Steps(N, S)
  BY <1>1, <1>2 DEF Steps
<1>4. PICK w : w \in FoldMaps(N, S, <<>>, G)
  <2> HIDE DEF N, G
  <2> QED
    BY <1>1, <1>3, Folding
<1>5. Q(w)
  <2>1. \A s \in SUBSET (1 .. N) :
          w[s] = IF s = {} THEN <<>> ELSE Bind(w[s \ {Max(s)}], found[Max(s)])
    <3> SUFFICES ASSUME NEW s \in SUBSET (1 .. N), s # {}
                 PROVE  w[s] = Bind(w[s \ {Max(s)}], found[Max(s)])
      BY <1>4 DEF FoldMaps
    <3>1. Max(s) \in 1 .. N
      <4> HIDE DEF N
      <4> QED
        BY <1>1, MaxOf
    <3>2. w[s \ {Max(s)}] \in S /\ w[s] = G[Max(s)][w[s \ {Max(s)}]]
      <4> HIDE DEF G, N
      <4> QED
        BY <1>4 DEF FoldMaps
    <3>3. \A n \in 1 .. N, v \in S : G[n][v] = Bind(v, found[n])
      OBVIOUS
    <3> HIDE DEF G
    <3> QED
      BY <3>1, <3>2, <3>3
  <2>2. w = [s \in SUBSET (1 .. N) |-> w[s]]
    <3> HIDE DEF G, N
    <3> QED
      BY <1>4 DEF FoldMaps
  <2> HIDE DEF G
  <2> QED
    BY <1>1, <2>1, <2>2
<1>6. Q(it)
  <2> HIDE DEF Q
  <2> QED
    BY <1>5
<1>7. FoldLeft(Bind, <<>>, found) = it[1 .. N]
  BY <1>1 DEF FoldLeft, MapThenFoldSet
<1>8. it[{}] = <<>> /\ \A n \in 1 .. N : it[1 .. n] = Bind(it[1 .. n - 1], found[n])
  <2> HIDE DEF it
  <2>1. it[{}] = <<>>
    BY <1>6
  <2>2. ASSUME NEW n \in 1 .. N PROVE it[1 .. n] = Bind(it[1 .. n - 1], found[n])
    <3>1. Max(1 .. n) = n /\ (1 .. n) \ {n} = 1 .. n - 1
      <4> HIDE DEF N
      <4> QED
        BY <1>1, MaxOfInterval
    <3>2. 1 .. n \in SUBSET (DOMAIN found) /\ 1 .. n # {}
      <4>1. n \in 1 .. n /\ 1 .. n \subseteq 1 .. N
        OBVIOUS
      <4> QED
        BY <1>1, <4>1
    <3>3. it[1 .. n] = Bind(it[(1 .. n) \ {Max(1 .. n)}], found[Max(1 .. n)])
      BY <1>6, <3>2
    <3> QED
      BY <3>1, <3>3
  <2> QED
    BY <2>1, <2>2
<1>9. f \in Runs(N, S, <<>>, G)
  <2> HIDE DEF it
  <2>1. \A n \in 1 .. N : it[1 .. n - 1] \in S => it[1 .. n] = G[n][it[1 .. n - 1]]
    BY <1>8
  <2> HIDE DEF N, G
  <2> QED
    BY <1>1, <1>3, <1>8, <2>1, PrefixRun
<1>10. f \in [0 .. N -> S] /\ f[0] = <<>>
  <2> HIDE DEF f, G
  <2> QED
    BY <1>9 DEF Runs
<1>11. \A n \in 1 .. N : f[n] = Bind(f[n - 1], found[n])
  <2> HIDE DEF it
  <2> QED
    BY <1>8
<1>12. FoldLeft(Bind, <<>>, found) = f[N]
  <2> HIDE DEF it
  <2> QED
    BY <1>1, <1>7
<1> QED
  <2> HIDE DEF f
  <2> QED
    BY <1>10, <1>11, <1>12 DEF S

(* The claims after each of the statements of all answers.                  *)
LEMMA DedupeRun ==
  ASSUME NEW T, NEW found \in Seq(T)
  PROVE  \E f \in [0 .. Len(found) -> Seq(T)] :
           /\ f[0] = <<>>
           /\ \A n \in 1 .. Len(found) : f[n] = Dedupe(f[n - 1], found[n])
           /\ FoldLeft(Dedupe, <<>>, found) = f[Len(found)]
<1> DEFINE N == Len(found)
           S == Seq(T)
           G == [n \in 1 .. N |-> [v \in S |-> Dedupe(v, found[n])]]
           Q(it) == it = [s \in SUBSET (DOMAIN found) |->
                            IF s = {} THEN <<>> ELSE Dedupe(it[s \ {Max(s)}], found[Max(s)])]
           it == CHOOSE i : Q(i)
           f == [n \in 0 .. N |-> it[1 .. n]]
<1>1. N \in Nat /\ DOMAIN found = 1 .. N /\ <<>> \in S /\ \A n \in 1 .. N : found[n] \in T
  OBVIOUS
<1>2. \A v \in S, x \in T : Dedupe(v, x) \in S
  BY DEF Dedupe
<1> HIDE DEF S
<1>3. G \in Steps(N, S)
  BY <1>1, <1>2 DEF Steps
<1>4. PICK w : w \in FoldMaps(N, S, <<>>, G)
  <2> HIDE DEF N, G
  <2> QED
    BY <1>1, <1>3, Folding
<1>5. Q(w)
  <2>1. \A s \in SUBSET (1 .. N) :
          w[s] = IF s = {} THEN <<>> ELSE Dedupe(w[s \ {Max(s)}], found[Max(s)])
    <3> SUFFICES ASSUME NEW s \in SUBSET (1 .. N), s # {}
                 PROVE  w[s] = Dedupe(w[s \ {Max(s)}], found[Max(s)])
      BY <1>4 DEF FoldMaps
    <3>1. Max(s) \in 1 .. N
      <4> HIDE DEF N
      <4> QED
        BY <1>1, MaxOf
    <3>2. w[s \ {Max(s)}] \in S /\ w[s] = G[Max(s)][w[s \ {Max(s)}]]
      <4> HIDE DEF G, N
      <4> QED
        BY <1>4 DEF FoldMaps
    <3>3. \A n \in 1 .. N, v \in S : G[n][v] = Dedupe(v, found[n])
      OBVIOUS
    <3> HIDE DEF G
    <3> QED
      BY <3>1, <3>2, <3>3
  <2>2. w = [s \in SUBSET (1 .. N) |-> w[s]]
    <3> HIDE DEF G, N
    <3> QED
      BY <1>4 DEF FoldMaps
  <2> HIDE DEF G
  <2> QED
    BY <1>1, <2>1, <2>2
<1>6. Q(it)
  <2> HIDE DEF Q
  <2> QED
    BY <1>5
<1>7. FoldLeft(Dedupe, <<>>, found) = it[1 .. N]
  BY <1>1 DEF FoldLeft, MapThenFoldSet
<1>8. it[{}] = <<>> /\ \A n \in 1 .. N : it[1 .. n] = Dedupe(it[1 .. n - 1], found[n])
  <2> HIDE DEF it
  <2>1. it[{}] = <<>>
    BY <1>6
  <2>2. ASSUME NEW n \in 1 .. N PROVE it[1 .. n] = Dedupe(it[1 .. n - 1], found[n])
    <3>1. Max(1 .. n) = n /\ (1 .. n) \ {n} = 1 .. n - 1
      <4> HIDE DEF N
      <4> QED
        BY <1>1, MaxOfInterval
    <3>2. 1 .. n \in SUBSET (DOMAIN found) /\ 1 .. n # {}
      <4>1. n \in 1 .. n /\ 1 .. n \subseteq 1 .. N
        OBVIOUS
      <4> QED
        BY <1>1, <4>1
    <3>3. it[1 .. n] = Dedupe(it[(1 .. n) \ {Max(1 .. n)}], found[Max(1 .. n)])
      BY <1>6, <3>2
    <3> QED
      BY <3>1, <3>3
  <2> QED
    BY <2>1, <2>2
<1>9. f \in Runs(N, S, <<>>, G)
  <2> HIDE DEF it
  <2>1. \A n \in 1 .. N : it[1 .. n - 1] \in S => it[1 .. n] = G[n][it[1 .. n - 1]]
    BY <1>8
  <2> HIDE DEF N, G
  <2> QED
    BY <1>1, <1>3, <1>8, <2>1, PrefixRun
<1>10. f \in [0 .. N -> S] /\ f[0] = <<>>
  <2> HIDE DEF f, G
  <2> QED
    BY <1>9 DEF Runs
<1>11. \A n \in 1 .. N : f[n] = Dedupe(f[n - 1], found[n])
  <2> HIDE DEF it
  <2> QED
    BY <1>8
<1>12. FoldLeft(Dedupe, <<>>, found) = f[N]
  <2> HIDE DEF it
  <2> QED
    BY <1>1, <1>7
<1> QED
  <2> HIDE DEF f
  <2> QED
    BY <1>10, <1>11, <1>12 DEF S

-----------------------------------------------------------------------------
(* Sequences.                                                              *)

LEMMA PrefixOf ==
  ASSUME NEW T, NEW s \in Seq(T)
  PROVE  /\ SubSeq(s, 1, 0) = <<>> /\ SubSeq(s, 1, Len(s)) = s
         /\ \A n \in 0 .. Len(s) : SubSeq(s, 1, n) \in Seq(T)
         /\ \A n \in 1 .. Len(s) : SubSeq(s, 1, n) = SubSeq(s, 1, n - 1) \o <<s[n]>>
<1>1. \A n \in 0 .. Len(s) : /\ SubSeq(s, 1, n) \in Seq(T) /\ Len(SubSeq(s, 1, n)) = n
                             /\ \A k \in 1 .. n : SubSeq(s, 1, n)[k] = s[k]
  OBVIOUS
<1>2. \A n \in 1 .. Len(s) : SubSeq(s, 1, n) = SubSeq(s, 1, n - 1) \o <<s[n]>>
  OBVIOUS
<1>3. SubSeq(s, 1, 0) = <<>>
  OBVIOUS
<1>4. SubSeq(s, 1, Len(s)) = s
  <2>1. Len(s) \in 0 .. Len(s)
    OBVIOUS
  <2>2. /\ SubSeq(s, 1, Len(s)) \in Seq(T) /\ Len(SubSeq(s, 1, Len(s))) = Len(s)
        /\ \A k \in 1 .. Len(s) : SubSeq(s, 1, Len(s))[k] = s[k]
    BY <1>1, <2>1
  <2> QED
    BY <2>2
<1> QED
  BY <1>1, <1>2, <1>3, <1>4

LEMMA Concatenated ==
  ASSUME NEW T, NEW s \in Seq(T), NEW t \in Seq(T)
  PROVE  /\ s \o t \in Seq(T) /\ Len(s \o t) = Len(s) + Len(t)
         /\ \A n \in 1 .. Len(s) : (s \o t)[n] = s[n]
         /\ \A n \in 1 .. Len(t) : (s \o t)[Len(s) + n] = t[n]
         /\ \A n \in 1 .. Len(s) + Len(t) :
              \/ n \in 1 .. Len(s)
              \/ \E k \in 1 .. Len(t) : n = Len(s) + k
         /\ ToSet(s \o t) = ToSet(s) \cup ToSet(t)
<1>1. /\ s \o t \in Seq(T) /\ Len(s \o t) = Len(s) + Len(t)
      /\ \A n \in 1 .. Len(s) : (s \o t)[n] = s[n]
      /\ \A n \in 1 .. Len(t) : (s \o t)[Len(s) + n] = t[n]
  OBVIOUS
<1>2. ASSUME NEW n \in 1 .. Len(s) + Len(t), n \notin 1 .. Len(s)
      PROVE  \E k \in 1 .. Len(t) : n = Len(s) + k
  <2>1. n - Len(s) \in 1 .. Len(t) /\ n = Len(s) + (n - Len(s))
    BY <1>2
  <2> QED
    BY <2>1
<1>3. ToSet(s \o t) = ToSet(s) \cup ToSet(t)
  <2>1. \A x : x \in ToSet(s \o t) <=> x \in ToSet(s) \/ x \in ToSet(t)
    <3> TAKE x
    <3>1. x \in ToSet(s \o t) => x \in ToSet(s) \/ x \in ToSet(t)
      <4> SUFFICES ASSUME NEW n \in 1 .. Len(s) + Len(t), (s \o t)[n] = x
                   PROVE  x \in ToSet(s) \/ x \in ToSet(t)
        BY <1>1 DEF ToSet
      <4>1. CASE n \in 1 .. Len(s)
        BY <1>1, <4>1 DEF ToSet
      <4>2. CASE n \notin 1 .. Len(s)
        <5>1. PICK k \in 1 .. Len(t) : n = Len(s) + k
          BY <1>2, <4>2
        <5>2. x = t[k] /\ k \in DOMAIN t
          BY <1>1, <5>1
        <5> QED
          BY <5>2 DEF ToSet
      <4> QED
        BY <4>1, <4>2
    <3>2. x \in ToSet(s) => x \in ToSet(s \o t)
      BY <1>1 DEF ToSet
    <3>3. x \in ToSet(t) => x \in ToSet(s \o t)
      <4> SUFFICES ASSUME NEW k \in DOMAIN t, t[k] = x PROVE x \in ToSet(s \o t)
        BY DEF ToSet
      <4>1. k \in 1 .. Len(t) /\ Len(s) + k \in DOMAIN (s \o t)
        BY <1>1
      <4> QED
        BY <1>1, <4>1 DEF ToSet
    <3> QED
      BY <3>1, <3>2, <3>3
  <2> QED
    BY <2>1
<1> QED
  BY <1>1, <1>2, <1>3

LEMMA JoinedOne ==
  ASSUME NEW T, NEW s \in Seq(T), NEW x \in T
  PROVE  s \o <<x>> \in Seq(T) /\ ToSet(s \o <<x>>) = ToSet(s) \cup {x}
<1>1. PICK t \in Seq(T) : t = <<x>>
  <2>1. <<x>> \in Seq(T)
    OBVIOUS
  <2> QED
    BY <2>1, Zenon
<1>2. s \o t \in Seq(T) /\ ToSet(s \o t) = ToSet(s) \cup ToSet(t)
  BY Concatenated
<1>3. ToSet(t) = {x}
  BY <1>1 DEF ToSet
<1> QED
  BY <1>1, <1>2, <1>3

LEMMA AppendedSet ==
  ASSUME NEW T, NEW s \in Seq(T), NEW x \in T
  PROVE  ToSet(Append(s, x)) = ToSet(s) \cup {x}
<1>1. Append(s, x) = s \o <<x>>
  OBVIOUS
<1> QED
  BY <1>1, JoinedOne

(* A set has as many elements as its image under a function that merges none.   *)
LEMMA OneToOne ==
  ASSUME NEW S, IsFiniteSet(S), NEW f, DOMAIN f = S, \A x, y \in S : f[x] = f[y] => x = y
  PROVE  IsFiniteSet({f[x] : x \in S}) /\ Cardinality({f[x] : x \in S}) = Cardinality(S)
<1> DEFINE g == [x \in S |-> f[x]]
           T == {f[x] : x \in S}
<1>1. g \in [S -> T] /\ \A t \in T : \E x \in S : g[x] = t
  OBVIOUS
<1>2. g \in Bijection(S, T)
  <2>1. IsInjective(g)
    BY DEF IsInjective
  <2> HIDE DEF g, T
  <2> QED
    BY <1>1, <2>1 DEF Bijection, Injection, Surjection
<1> HIDE DEF g, T
<1>3. ExistsBijection(S, T)
  BY <1>2 DEF ExistsBijection
<1>4. IsFiniteSet(T) /\ Cardinality(T) = Cardinality(S)
  BY <1>3, FS_Bijection
<1> QED
  BY <1>4 DEF T

(* A sequence that holds nothing twice has as many elements as places.         *)
LEMMA Distinct ==
  ASSUME NEW T, NEW s \in Seq(T), \A n, o \in DOMAIN s : s[n] = s[o] => n = o
  PROVE  IsFiniteSet(ToSet(s)) /\ Cardinality(ToSet(s)) = Len(s)
<1>1. Len(s) \in Nat /\ DOMAIN s = 1 .. Len(s)
  OBVIOUS
<1>2. IsFiniteSet(DOMAIN s) /\ Cardinality(DOMAIN s) = Len(s)
  <2>1. 1 \in Int /\ Len(s) \in Int
    BY <1>1
  <2>2. IsFiniteSet(1 .. Len(s)) /\ Cardinality(1 .. Len(s)) = IF 1 > Len(s) THEN 0 ELSE Len(s) - 1 + 1
    BY <2>1, FS_Interval
  <2> QED
    BY <1>1, <2>2
<1>3. \A n, o \in DOMAIN s : s[n] = s[o] => n = o
  OBVIOUS
<1>4. /\ IsFiniteSet({s[n] : n \in DOMAIN s})
      /\ Cardinality({s[n] : n \in DOMAIN s}) = Cardinality(DOMAIN s)
  <2> DEFINE D == DOMAIN s
  <2>1. IsFiniteSet(D) /\ DOMAIN s = D /\ \A n, o \in D : s[n] = s[o] => n = o
    BY <1>2, <1>3
  <2> HIDE DEF D
  <2>2. IsFiniteSet({s[n] : n \in D}) /\ Cardinality({s[n] : n \in D}) = Cardinality(D)
    BY <2>1, OneToOne
  <2> QED
    BY <2>2 DEF D
<1> QED
  BY <1>2, <1>4 DEF ToSet

-----------------------------------------------------------------------------
(* The types.                                                              *)

(* What can become a claim: it says something and cites sources that exist.   *)
Grounded == {item \in Items : item.text # Blank /\ item.refs # {} /\ item.refs \subseteq Refs}

(* The claims of a text are one.                                           *)
Single(list) == \A n, o \in DOMAIN list : list[n].text = list[o].text => n = o

LEMMA FilteredType ==
  ASSUME NEW found \in Seq(Urls)
  PROVE  Filtered(found) \in Seq(Urls \ Blocked)
<1>1. PICK f \in [0 .. Len(found) -> Seq(Urls)] :
        /\ f[0] = <<>>
        /\ \A n \in 1 .. Len(found) : f[n] = Keep(f[n - 1], found[n])
        /\ FoldLeft(Keep, <<>>, found) = f[Len(found)]
  BY KeepRun
<1> DEFINE N == Len(found)
           Passed == {n \in 0 .. N : f[n] \in Seq(Urls \ Blocked)}
<1>2. 0 \in Passed
  BY <1>1
<1>3. ASSUME NEW n \in 0 .. N - 1, n \in Passed PROVE n + 1 \in Passed
  <2>1. n + 1 \in 1 .. N /\ (n + 1) - 1 = n /\ found[n + 1] \in Urls
    OBVIOUS
  <2>2. f[n + 1] = Keep(f[n], found[n + 1])
    BY <1>1, <2>1
  <2>3. Keep(f[n], found[n + 1]) \in Seq(Urls \ Blocked)
    BY <1>3, <2>1 DEF Keep
  <2> QED
    BY <2>1, <2>2, <2>3
<1>4. \A n \in 0 .. N : n \in Passed
  <2>1. \A n \in 0 .. N - 1 : n \in Passed => n + 1 \in Passed
    BY <1>3
  <2>2. N \in Nat
    OBVIOUS
  <2> HIDE DEF N, Passed
  <2> QED
    BY <1>2, <2>1, <2>2, Induction
<1>5. N \in 0 .. N
  OBVIOUS
<1> QED
  BY <1>1, <1>4, <1>5 DEF Filtered

LEMMA BoundType ==
  ASSUME NEW answer \in Seq(Items)
  PROVE  Bound(answer) \in Seq(Grounded)
<1>1. PICK f \in [0 .. Len(answer) -> Seq(Items)] :
        /\ f[0] = <<>>
        /\ \A n \in 1 .. Len(answer) : f[n] = Bind(f[n - 1], answer[n])
        /\ FoldLeft(Bind, <<>>, answer) = f[Len(answer)]
  BY BindRun
<1> DEFINE N == Len(answer)
           Passed == {n \in 0 .. N : f[n] \in Seq(Grounded)}
<1>2. 0 \in Passed
  BY <1>1
<1>3. ASSUME NEW n \in 0 .. N - 1, n \in Passed PROVE n + 1 \in Passed
  <2>1. n + 1 \in 1 .. N /\ (n + 1) - 1 = n /\ answer[n + 1] \in Items
    OBVIOUS
  <2>2. f[n + 1] = Bind(f[n], answer[n + 1])
    BY <1>1, <2>1
  <2>3. Bind(f[n], answer[n + 1]) \in Seq(Grounded)
    <3>1. ASSUME NEW x \in Items, x.text # Blank, Cited(x).refs # {} PROVE Cited(x) \in Grounded
      BY <3>1 DEF Cited, Grounded, Items
    <3> QED
      BY <1>3, <2>1, <3>1 DEF Bind
  <2> QED
    BY <2>1, <2>2, <2>3
<1>4. \A n \in 0 .. N : n \in Passed
  <2>1. \A n \in 0 .. N - 1 : n \in Passed => n + 1 \in Passed
    BY <1>3
  <2>2. N \in Nat
    OBVIOUS
  <2> HIDE DEF N, Passed
  <2> QED
    BY <1>2, <2>1, <2>2, Induction
<1>5. N \in 0 .. N
  OBVIOUS
<1> QED
  BY <1>1, <1>4, <1>5 DEF Bound

LEMMA DedupeType ==
  ASSUME NEW T \in SUBSET Items, NEW said \in Seq(T)
  PROVE  FoldLeft(Dedupe, <<>>, said) \in Seq(T) /\ Single(FoldLeft(Dedupe, <<>>, said))
<1>1. PICK f \in [0 .. Len(said) -> Seq(T)] :
        /\ f[0] = <<>>
        /\ \A n \in 1 .. Len(said) : f[n] = Dedupe(f[n - 1], said[n])
        /\ FoldLeft(Dedupe, <<>>, said) = f[Len(said)]
  BY DedupeRun
<1> DEFINE N == Len(said)
           Passed == {n \in 0 .. N : Single(f[n])}
<1>2. 0 \in Passed
  BY <1>1 DEF Single
<1>3. ASSUME NEW n \in 0 .. N - 1, n \in Passed PROVE n + 1 \in Passed
  <2>1. n + 1 \in 1 .. N /\ (n + 1) - 1 = n /\ said[n + 1] \in T /\ f[n] \in Seq(T)
    OBVIOUS
  <2>2. f[n + 1] = Dedupe(f[n], said[n + 1])
    BY <1>1, <2>1
  <2>3. ASSUME NEW list \in Seq(T), NEW item \in T, Single(list) PROVE Single(Dedupe(list, item))
    BY <2>3 DEF Single, Dedupe
  <2> QED
    BY <1>3, <2>1, <2>2, <2>3
<1>4. \A n \in 0 .. N : n \in Passed
  <2>1. \A n \in 0 .. N - 1 : n \in Passed => n + 1 \in Passed
    BY <1>3
  <2>2. N \in Nat
    OBVIOUS
  <2> HIDE DEF N, Passed
  <2> QED
    BY <1>2, <2>1, <2>2, Induction
<1>5. N \in 0 .. N
  OBVIOUS
<1> QED
  BY <1>1, <1>4, <1>5

(* The list of sources that Merge makes, and the list of claims of Conclude.   *)
Merged == FlattenSeq([k \in 1 .. Queries |-> Filtered(results[k])])
Stated == FlattenSeq([k \in 1 .. Subquestions |-> Bound(items[k])])

LEMMA MergedType ==
  ASSUME results \in [1 .. Queries -> Seq(Urls)]
  PROVE  Merged \in Seq(Urls \ Blocked) /\ FoldLeft(Collect, <<>>, Merged) \in Seq(Urls \ Blocked)
<1> DEFINE T == Urls \ Blocked
           parts == [k \in 1 .. Queries |-> Filtered(results[k])]
<1>1. Queries \in Nat
  BY ShapeAssumption
<1>2. parts \in Parts(Queries, T)
  BY FilteredType DEF Parts
<1>3. PICK f \in Joins(Queries, T, parts) : f[Queries] = FlattenSeq(parts)
  <2> HIDE DEF parts, T
  <2> QED
    BY <1>1, <1>2, Flattening
<1>4. Merged \in Seq(T)
  <2>1. Queries \in 0 .. Queries
    BY <1>1
  <2> HIDE DEF T
  <2> QED
    BY <1>3, <2>1 DEF Merged, Joins
<1>5. PICK g \in [0 .. Len(Merged) -> Seq(T)] : FoldLeft(Collect, <<>>, Merged) = g[Len(Merged)]
  <2> HIDE DEF T
  <2> QED
    BY <1>4, CollectRun
<1>6. Len(Merged) \in 0 .. Len(Merged)
  BY <1>4
<1> QED
  BY <1>4, <1>5, <1>6

LEMMA StatedType ==
  ASSUME items \in [1 .. Subquestions -> Seq(Items)]
  PROVE  Stated \in Seq(Grounded)
<1> DEFINE parts == [k \in 1 .. Subquestions |-> Bound(items[k])]
<1>1. Subquestions \in Nat
  BY ShapeAssumption
<1>2. parts \in Parts(Subquestions, Grounded)
  BY BoundType DEF Parts
<1>3. PICK f \in Joins(Subquestions, Grounded, parts) : f[Subquestions] = FlattenSeq(parts)
  <2> HIDE DEF parts
  <2> QED
    BY <1>1, <1>2, Flattening
<1>4. Subquestions \in 0 .. Subquestions
  BY <1>1
<1> QED
  BY <1>3, <1>4 DEF Stated, Joins

-----------------------------------------------------------------------------
(* The invariant.                                                          *)

(* The claims are grounded, one of each text, and there are none before the    *)
(* analyst has concluded.                                                  *)
ClaimsGrounded == claims \in Seq(Grounded) /\ Single(claims)
NothingAhead ==
  /\ stage \in {"search", "extract"} => claims = <<>>
  /\ stage \in {"search", "extract", "judge", "write"} => report = NoText

(* The report cites sources that exist.                                     *)
ReportGrounded == report.cites \subseteq Refs

(* The rows are all or none; all are there only after a commit.               *)
RowsWhole ==
  \/ rows = NoRows /\ stage # "completed"
  \/ /\ rows = [sources |-> SourceRows, claims |-> ClaimRows]
     /\ Unique /\ stage \in {"completed", "failed"}

IInv == TypeOK /\ ClaimsGrounded /\ NothingAhead /\ ReportGrounded /\ RowsWhole

LEMMA InitInvariant ==
  ASSUME Init
  PROVE  IInv
<1>1. <<>> \in Seq(Urls \ Blocked) /\ <<>> \in Seq(Items) /\ <<>> \in Seq(Grounded) /\ <<>> \in Seq(Urls)
  OBVIOUS
<1>2. 0 \in 0 .. MaxRef
  BY ShapeAssumption
<1>3. TypeOK
  BY <1>1, <1>2 DEF Init, TypeOK, NoText, NoRows, Items
<1>4. ClaimsGrounded /\ NothingAhead /\ ReportGrounded /\ RowsWhole
  BY <1>1 DEF Init, ClaimsGrounded, Single, NothingAhead, ReportGrounded, RowsWhole, NoText
<1> QED
  BY <1>3, <1>4 DEF IInv

(* The parts of the invariant that a step leaves the variables of.             *)
LEMMA SourcesKept ==
  ASSUME IInv, UNCHANGED sources
  PROVE  /\ Refs' = Refs /\ Grounded' = Grounded /\ SourceRows' = SourceRows
         /\ UNCHANGED claims => ClaimsGrounded'
         /\ UNCHANGED report => ReportGrounded'
         /\ UNCHANGED <<claims, listed>> => ClaimRows' = ClaimRows
         /\ Unique' <=> Unique
<1>1. Refs' = Refs /\ Grounded' = Grounded /\ SourceRows' = SourceRows
  BY DEF Refs, Grounded, SourceRows
<1>2. UNCHANGED claims => ClaimsGrounded'
  BY <1>1 DEF IInv, ClaimsGrounded, Single
<1>3. UNCHANGED report => ReportGrounded'
  BY <1>1 DEF IInv, ReportGrounded
<1>4. UNCHANGED <<claims, listed>> => ClaimRows' = ClaimRows
  BY DEF ClaimRows
<1>5. Unique' <=> Unique
  BY <1>1 DEF Unique
<1> QED
  BY <1>1, <1>2, <1>3, <1>4, <1>5

LEMMA SearchInvariant ==
  ASSUME IInv, NEW k \in 1 .. Queries, Search(k)
  PROVE  IInv'
<1>1. TypeOK'
  <2>1. PICK found \in BoundedSeq(Urls, MaxResults) : results' = [results EXCEPT ![k] = found]
    BY DEF Search
  <2>2. found \in Seq(Urls)
    BY <2>1, ShapeAssumption DEF BoundedSeq, SeqOf
  <2> QED
    BY <2>1, <2>2 DEF IInv, TypeOK, Search
<1>2. ClaimsGrounded' /\ NothingAhead' /\ ReportGrounded' /\ RowsWhole'
  BY SourcesKept DEF IInv, Search, NothingAhead, RowsWhole
<1> QED
  BY <1>1, <1>2 DEF IInv

LEMMA ExtractInvariant ==
  ASSUME IInv, NEW k \in 1 .. Subquestions, Extract(k)
  PROVE  IInv'
<1>1. TypeOK'
  <2>1. PICK answer \in BoundedSeq(Items, MaxItems) : items' = [items EXCEPT ![k] = answer]
    BY DEF Extract
  <2>2. answer \in Seq(Items)
    BY <2>1, ShapeAssumption DEF BoundedSeq, SeqOf
  <2> QED
    BY <2>1, <2>2 DEF IInv, TypeOK, Extract
<1>2. ClaimsGrounded' /\ NothingAhead' /\ ReportGrounded' /\ RowsWhole'
  BY SourcesKept DEF IInv, Extract, NothingAhead, RowsWhole
<1> QED
  BY <1>1, <1>2 DEF IInv

LEMMA MergeInvariant ==
  ASSUME IInv, Merge
  PROVE  IInv'
<1>1. sources' \in Seq(Urls \ Blocked)
  BY MergedType DEF IInv, TypeOK, Merge, Merged
<1>2. TypeOK'
  <2>1. [k \in 1 .. Queries |-> <<>>] \in [1 .. Queries -> Seq(Urls)]
    OBVIOUS
  <2> QED
    BY <1>1, <2>1 DEF IInv, TypeOK, Merge
<1>3. claims' = <<>> /\ report' = NoText /\ rows' = NoRows
  BY DEF IInv, NothingAhead, RowsWhole, Merge
<1>4. ClaimsGrounded'
  BY <1>3 DEF ClaimsGrounded, Single
<1>5. NothingAhead' /\ ReportGrounded' /\ RowsWhole'
  BY <1>3 DEF NothingAhead, ReportGrounded, RowsWhole, NoText, Merge
<1> QED
  BY <1>2, <1>4, <1>5 DEF IInv

LEMMA ConcludeInvariant ==
  ASSUME IInv, Conclude
  PROVE  IInv'
<1>1. claims' \in Seq(Grounded) /\ Single(claims')
  <2>1. Stated \in Seq(Grounded)
    BY StatedType DEF IInv, TypeOK
  <2>2. Grounded \in SUBSET Items
    BY DEF Grounded
  <2> QED
    BY <2>1, <2>2, DedupeType DEF Conclude, Stated
<1>2. claims' \in Seq(Items)
  BY <1>1 DEF Grounded
<1>3. listed = {} /\ usable = {}
  BY DEF IInv, TypeOK, NothingAhead, Conclude
<1>4. TypeOK'
  <2>1. [k \in 1 .. Subquestions |-> <<>>] \in [1 .. Subquestions -> Seq(Items)]
    OBVIOUS
  <2> QED
    BY <1>2, <1>3, <2>1 DEF IInv, TypeOK, Conclude
<1>5. ClaimsGrounded'
  BY <1>1, SourcesKept DEF ClaimsGrounded, Single, Conclude
<1>6. NothingAhead' /\ ReportGrounded' /\ RowsWhole'
  BY SourcesKept DEF IInv, NothingAhead, RowsWhole, Conclude
<1> QED
  BY <1>4, <1>5, <1>6 DEF IInv

LEMMA WriteInvariant ==
  ASSUME IInv, Write
  PROVE  IInv'
<1>1. /\ report' \in [cites : SUBSET Numbers, inner : 0 .. MaxRef,
                      outer : 0 .. MaxRef, shell : 0 .. MaxRef]
      /\ report'.cites \subseteq Refs
  <2>1. 0 \in 0 .. MaxRef
    BY ShapeAssumption
  <2>2. CASE usable = {}
    BY <2>1, <2>2 DEF Write, NoText
  <2>3. CASE usable # {}
    <3>1. PICK cites \in SUBSET Numbers, inner \in 0 .. MaxRef, outer \in 0 .. MaxRef :
            /\ inner = 0 <=> outer = 0
            /\ report' = Scrubbed([cites |-> cites, inner |-> inner, outer |-> outer, shell |-> 0])
      BY <2>3 DEF Write
    <3>2. Refs = 1 .. Len(sources)
      BY DEF IInv, TypeOK, Refs
    <3>3. (cites \cup {inner}) \cap Refs \subseteq Numbers
      BY <3>2 DEF Numbers
    <3> QED
      BY <2>1, <3>1, <3>3 DEF Scrubbed, NoText
  <2> QED
    BY <2>2, <2>3
<1>2. TypeOK'
  BY <1>1 DEF IInv, TypeOK, Write
<1>3. ReportGrounded'
  BY <1>1, SourcesKept DEF ReportGrounded, Write
<1>4. ClaimsGrounded' /\ NothingAhead' /\ RowsWhole'
  BY SourcesKept DEF IInv, NothingAhead, RowsWhole, Write
<1> QED
  BY <1>2, <1>3, <1>4 DEF IInv

LEMMA PersistInvariant ==
  ASSUME IInv, Persist
  PROVE  IInv'
<1>1. ClaimsGrounded' /\ NothingAhead' /\ ReportGrounded'
  BY SourcesKept DEF IInv, NothingAhead, Persist
<1>2. RowsWhole'
  <2>1. SourceRows' = SourceRows /\ ClaimRows' = ClaimRows
    BY SourcesKept DEF Persist
  <2>2. Unique' <=> Unique
    BY SourcesKept DEF Persist
  <2>3. CASE Unique /\ rows' = [sources |-> SourceRows, claims |-> ClaimRows]
    BY <2>1, <2>2, <2>3 DEF RowsWhole, Persist
  <2>4. CASE rows' = NoRows /\ stage' = "failed"
    <3> HIDE DEF NoRows
    <3>1. NoRows' = NoRows
      BY DEF NoRows
    <3> QED
      BY <2>4, <3>1 DEF RowsWhole
  <2> QED
    BY <2>3, <2>4 DEF Persist, RowsRolledBack
<1>3. TypeOK'
  <2>1. SourceRows \subseteq [ref : Nat, url : {Column[u] : u \in Urls}]
    BY DEF SourceRows, Refs, IInv, TypeOK
  <2>2. ClaimRows \subseteq [entry : {"rescored", "refuted"} \X Nat,
                            text : Texts \cup {Blank}, refs : SUBSET Numbers]
    <3>1. ASSUME NEW e \in listed
          PROVE  e \in {"rescored", "refuted"} \X Nat /\ claims[e[2]] \in Items
      BY <3>1 DEF IInv, TypeOK
    <3> QED
      BY <3>1 DEF ClaimRows, Items
  <2>3. rows' \in {NoRows, [sources |-> SourceRows, claims |-> ClaimRows]}
    BY DEF Persist, RowsRolledBack
  <2>4. rows'.sources \subseteq SourceRows /\ rows'.claims \subseteq ClaimRows
    BY <2>3 DEF NoRows
  <2> QED
    BY <2>1, <2>2, <2>4 DEF IInv, TypeOK, Persist
<1> QED
  BY <1>1, <1>2, <1>3 DEF IInv

LEMMA StepInvariant ==
  ASSUME IInv, [Next]_vars
  PROVE  IInv'
<1>1. ASSUME NEW k \in 1 .. Queries, Search(k) PROVE IInv'
  BY <1>1, SearchInvariant
<1>2. ASSUME NEW k \in 1 .. Subquestions, Extract(k) PROVE IInv'
  BY <1>2, ExtractInvariant
<1>3. CASE Merge
  BY <1>3, MergeInvariant
<1>4. CASE Conclude
  BY <1>4, ConcludeInvariant
<1>5. CASE Judge
  <2>1. TypeOK'
    <3>1. PICK rescored, refuted \in SUBSET (DOMAIN claims) :
            listed' = Handed(rescored, refuted) /\ usable' = rescored \ refuted
      BY <1>5 DEF Judge
    <3>2. /\ listed' \subseteq {"rescored", "refuted"} \X DOMAIN claims
          /\ usable' \subseteq DOMAIN claims
      BY <3>1 DEF Handed
    <3> QED
      BY <1>5, <3>2 DEF Judge, IInv, TypeOK
  <2>2. ClaimsGrounded' /\ NothingAhead' /\ ReportGrounded' /\ RowsWhole'
    BY <1>5, SourcesKept DEF IInv, NothingAhead, RowsWhole, Judge
  <2> QED
    BY <2>1, <2>2 DEF IInv
<1>6. CASE Write
  BY <1>6, WriteInvariant
<1>7. CASE Abort
  <2>1. TypeOK'
    BY <1>7 DEF Abort, IInv, TypeOK
  <2>2. ClaimsGrounded' /\ NothingAhead' /\ ReportGrounded' /\ RowsWhole'
    BY <1>7, SourcesKept DEF IInv, NothingAhead, RowsWhole, Abort
  <2> QED
    BY <2>1, <2>2 DEF IInv
<1>8. CASE Persist
  BY <1>8, PersistInvariant
<1>9. CASE UNCHANGED vars
  <2>1. TypeOK' /\ NothingAhead'
    BY <1>9 DEF vars, IInv, TypeOK, NothingAhead
  <2>2. ClaimsGrounded' /\ ReportGrounded' /\ RowsWhole'
    BY <1>9, SourcesKept DEF vars, IInv, RowsWhole
  <2> QED
    BY <2>1, <2>2 DEF IInv
<1> QED
  BY <1>1, <1>2, <1>3, <1>4, <1>5, <1>6, <1>7, <1>8, <1>9 DEF Next

LEMMA Invariant == Spec => []IInv
<1>1. Init => IInv
  BY InitInvariant
<1>2. IInv /\ [Next]_vars => IInv'
  BY StepInvariant
<1> QED
  BY <1>1, <1>2, PTL DEF Spec

(* Every variable of the evidence stays within its type; a source is a url     *)
(* that the egress policy lets pass (searcher.run, analyst.run, _persist).     *)
THEOREM EvidenceTypeCorrect == Spec => []TypeOK
<1>1. IInv => TypeOK
  BY DEF IInv
<1> QED
  BY <1>1, Invariant, PTL

(* The refs of the claims stored, and the markers of the report but the shell   *)
(* of a deleted one, name one stored source each (analyst, enforce_valid_refs). *)
THEOREM CitationsResolve == Spec => []RefsResolve
<1>1. ASSUME IInv PROVE RefsResolve
  <2> SUFFICES ASSUME stage = "completed" PROVE RefsResolve
    BY DEF RefsResolve
  <2> DEFINE cited == report.cites \cup UNION {row.refs : row \in rows.claims}
  <2>1. rows.sources = SourceRows /\ rows.claims = ClaimRows
    BY <1>1 DEF IInv, RowsWhole
  <2>a. \A e \in listed : e[2] \in DOMAIN claims
    BY <1>1 DEF IInv, TypeOK
  <2>2. \A n \in DOMAIN claims : claims[n].refs # {} /\ claims[n].refs \subseteq Refs
    BY <1>1 DEF IInv, ClaimsGrounded, Grounded
  <2>3. \A row \in ClaimRows : row.refs # {} /\ row.refs \subseteq Refs
    BY <2>2, <2>a DEF ClaimRows
  <2>4. cited \subseteq Refs
    BY <1>1, <2>1, <2>3 DEF IInv, ReportGrounded
  <2>5. ASSUME NEW n \in cited PROVE Cardinality(Named(n)) = 1
    <3>1. Named(n) = {[ref |-> n, url |-> Column[sources[n]]]}
      BY <2>1, <2>4 DEF SourceRows, Named
    <3> QED
      BY <3>1, FS_Singleton
  <2>6. \A row \in rows.claims : row.refs # {}
    BY <2>1, <2>3
  <2> QED
    BY <2>5, <2>6 DEF RefsResolve
<1> QED
  BY <1>1, Invariant, PTL

(* A claim the report may use is in the list of rescored claims only.           *)
UsableOnce == \A n \in usable : <<"rescored", n>> \in listed /\ <<"refuted", n>> \notin listed

LEMMA UsableInvariant == Spec => []UsableOnce
<1>1. Init => UsableOnce
  BY DEF Init, UsableOnce
<1>2. ASSUME UsableOnce, [Next]_vars PROVE UsableOnce'
  <2>1. CASE Judge
    <3>1. PICK rescored, refuted \in SUBSET (DOMAIN claims) :
            listed' = Handed(rescored, refuted) /\ usable' = rescored \ refuted
      BY <2>1 DEF Judge
    <3> QED
      BY <3>1 DEF Handed, UsableOnce
  <2>2. CASE ~Judge
    <3>1. UNCHANGED <<listed, usable>>
      BY <1>2, <2>2 DEF Next, vars, Search, Extract, Merge, Conclude, Write, Abort, Persist
    <3> QED
      BY <1>2, <3>1 DEF UsableOnce
  <2> QED
    BY <2>1, <2>2
<1> QED
  BY <1>1, <1>2, PTL DEF Spec

(* Which rows a claim has.                                                  *)
RowOf(e) == [entry |-> e, text |-> claims[e[2]].text, refs |-> claims[e[2]].refs]

LEMMA RowsOfClaim ==
  ASSUME TypeOK, Single(claims), NEW n \in DOMAIN claims
  PROVE  {row \in ClaimRows : row.text = claims[n].text}
           = {RowOf(e) : e \in {d \in listed : d[2] = n}}
<1>1. ClaimRows = {RowOf(e) : e \in listed}
  BY DEF ClaimRows, RowOf
<1>2. \A e \in listed : RowOf(e).text = claims[n].text <=> e[2] = n
  BY DEF TypeOK, Single, RowOf
<1> HIDE DEF RowOf
<1> QED
  BY <1>1, <1>2

(* A run that has a row has one for every source, under a url of its own, one   *)
(* for every claim the report may use and one or two for the others listed; a   *)
(* completed run has them, an unfinished one none (_persist, session_scope).   *)
THEOREM StoreIsWhole == Spec => []StoredWhole
<1>1. ASSUME IInv, UsableOnce PROVE StoredWhole
  <2>1. stage \notin {"completed", "failed"} => rows = NoRows
    BY <1>1 DEF IInv, RowsWhole
  <2> SUFFICES ASSUME stage = "completed" \/ rows # NoRows PROVE Whole
    BY <2>1 DEF StoredWhole
  <2>2. rows.sources = SourceRows /\ rows.claims = ClaimRows /\ Unique
    BY <1>1 DEF IInv, RowsWhole
  <2>3. /\ sources \in Seq(Urls \ Blocked) /\ TypeOK /\ Single(claims)
        /\ listed \subseteq {"rescored", "refuted"} \X DOMAIN claims /\ usable \subseteq DOMAIN claims
    BY <1>1 DEF IInv, TypeOK, ClaimsGrounded
  <2>4. \A n \in Refs : Named(n) = {[ref |-> n, url |-> Column[sources[n]]]}
    BY <2>2 DEF SourceRows, Named
  <2>5. Cardinality({row.url : row \in rows.sources}) = Len(sources)
    <3> DEFINE f == [n \in Refs |-> Column[sources[n]]]
               urls == {row.url : row \in SourceRows}
    <3>1. IsFiniteSet(Refs) /\ Cardinality(Refs) = Len(sources)
      <4>1. Refs = 1 .. Len(sources) /\ Len(sources) \in Int /\ 1 \in Int /\ Len(sources) >= 0
        BY <2>3 DEF Refs
      <4>2. /\ IsFiniteSet(1 .. Len(sources))
            /\ Cardinality(1 .. Len(sources)) = IF 1 > Len(sources) THEN 0 ELSE Len(sources) - 1 + 1
        BY <4>1, FS_Interval
      <4> QED
        BY <4>1, <4>2
    <3>2. \A n, o \in Refs : f[n] = f[o] => n = o
      BY <2>2 DEF Unique
    <3>3. urls = {f[n] : n \in Refs}
      <4>1. ASSUME NEW n \in Refs PROVE f[n] \in urls
        <5>1. [ref |-> n, url |-> Column[sources[n]]] \in SourceRows
          BY DEF SourceRows
        <5> QED
          BY <5>1
      <4>2. ASSUME NEW u \in urls PROVE u \in {f[n] : n \in Refs}
        BY DEF SourceRows
      <4> QED
        BY <4>1, <4>2
    <3>4. DOMAIN f = Refs
      OBVIOUS
    <3>5. Cardinality(urls) = Len(sources)
      <4> HIDE DEF f, urls
      <4> QED
        BY <3>1, <3>2, <3>3, <3>4, OneToOne
    <3> QED
      BY <2>2, <3>5
  <2> DEFINE held(n) == {row \in rows.claims : row.text = claims[n].text}
             entries(n) == {e \in listed : e[2] = n}
  <2>6. \A n \in DOMAIN claims : held(n) = {RowOf(e) : e \in entries(n)}
    BY <2>2, <2>3, RowsOfClaim
  <2>7. ASSUME NEW n \in usable PROVE Cardinality(held(n)) = 1
    <3>1. entries(n) = {<<"rescored", n>>}
      <4>1. <<"rescored", n>> \in entries(n)
        BY <1>1 DEF UsableOnce
      <4>2. ASSUME NEW e \in entries(n) PROVE e = <<"rescored", n>>
        <5>1. e = <<"rescored", n>> \/ e = <<"refuted", n>>
          BY <2>3
        <5> QED
          BY <1>1, <5>1 DEF UsableOnce
      <4> QED
        BY <4>1, <4>2
    <3>2. held(n) = {RowOf(<<"rescored", n>>)}
      <4> HIDE DEF held, entries
      <4> QED
        BY <2>3, <2>6, <3>1
    <3> HIDE DEF held
    <3> QED
      BY <3>2, FS_Singleton
  <2>8. ASSUME NEW n \in DOMAIN claims
        PROVE  Cardinality(held(n)) <= 2 /\ (Cardinality(held(n)) > 0 <=> \E e \in listed : e[2] = n)
    <3> DEFINE one == RowOf(<<"rescored", n>>)
               two == RowOf(<<"refuted", n>>)
    <3>1. entries(n) \subseteq {<<"rescored", n>>, <<"refuted", n>>}
      BY <2>3
    <3>2. held(n) \subseteq {one, two}
      <4> HIDE DEF held, entries
      <4> QED
        BY <2>6, <3>1
    <3>3. held(n) = {} <=> entries(n) = {}
      <4> HIDE DEF held, entries
      <4> QED
        BY <2>6
    <3>4. IsFiniteSet({one, two}) /\ Cardinality({one, two}) <= 2
      <4> HIDE DEF one, two
      <4>1. IsFiniteSet({one}) /\ Cardinality({one}) = 1
        BY FS_Singleton
      <4>2. {one, two} = {one} \cup {two}
        OBVIOUS
      <4> QED
        BY <4>1, <4>2, FS_AddElement
    <3>5. IsFiniteSet(held(n)) /\ Cardinality(held(n)) <= Cardinality({one, two})
      <4> HIDE DEF held, one, two
      <4> QED
        BY <3>2, <3>4, FS_Subset
    <3>6. Cardinality(held(n)) \in Nat /\ Cardinality({one, two}) \in Nat
      BY <3>4, <3>5, FS_CardinalityType
    <3>7. Cardinality(held(n)) = 0 <=> held(n) = {}
      <4> HIDE DEF held
      <4> QED
        BY <3>5, FS_EmptySet
    <3> QED
      <4>1. entries(n) = {} <=> ~ \E e \in listed : e[2] = n
        OBVIOUS
      <4> HIDE DEF held, entries, one, two
      <4> QED
        BY <3>3, <3>4, <3>5, <3>6, <3>7, <4>1
  <2> QED
    BY <2>4, <2>5, <2>7, <2>8 DEF Whole
<1> QED
  BY <1>1, Invariant, UsableInvariant, PTL

-----------------------------------------------------------------------------
(* The claims of a run are its first statements.                            *)

(* Of a list of statements, those with a source that exists, and of these the  *)
(* first of each text.                                                     *)
Sound(item) == item.text # Blank /\ item.refs \cap Refs # {}
FirstOf(said, n) ==
  Sound(said[n]) /\ \A o \in DOMAIN said : Sound(said[o]) /\ said[o].text = said[n].text => n <= o
Firsts(said) == {n \in DOMAIN said : FirstOf(said, n)}
Kept(said) == {Cited(said[n]) : n \in Firsts(said)}
Says(claimed) == {item.text : item \in claimed}
Added(old, new) == old \cup {item \in new : item.text \notin Says(old)}

LEMMA KeptType ==
  ASSUME NEW said \in Seq(Items)
  PROVE  Kept(said) \subseteq Items
<1>1. \A x \in Items : Cited(x) \in Items
  BY DEF Cited, Items
<1> QED
  BY <1>1 DEF Kept, Firsts

(* A text is among the first statements once some sound statement says it.     *)
LEMMA SaidFirst ==
  ASSUME NEW said \in Seq(Items), NEW n \in DOMAIN said, Sound(said[n])
  PROVE  \E o \in Firsts(said) : said[o].text = said[n].text /\ o <= n
<1> DEFINE Like == {o \in DOMAIN said : Sound(said[o]) /\ said[o].text = said[n].text}
<1>1. Like \in SUBSET Nat /\ n \in Like
  OBVIOUS
<1>2. PICK m \in Like : \A o \in Like : m <= o
  <2> HIDE DEF Like
  <2> QED
    BY <1>1, LeastElement
<1>3. m \in Firsts(said)
  BY <1>2 DEF Firsts, FirstOf
<1> QED
  BY <1>1, <1>2, <1>3

LEMMA KeptSays ==
  ASSUME NEW said \in Seq(Items), NEW t
  PROVE  t \in Says(Kept(said)) <=> \E n \in DOMAIN said : Sound(said[n]) /\ said[n].text = t
<1>1. \A x \in Items : Cited(x).text = x.text
  BY DEF Cited, Items
<1>2. ASSUME t \in Says(Kept(said)) PROVE \E n \in DOMAIN said : Sound(said[n]) /\ said[n].text = t
  BY <1>1, <1>2 DEF Says, Kept, Firsts, FirstOf
<1>3. ASSUME NEW n \in DOMAIN said, Sound(said[n]), said[n].text = t PROVE t \in Says(Kept(said))
  <2>1. PICK o \in Firsts(said) : said[o].text = t
    BY <1>3, SaidFirst
  <2>2. Cited(said[o]) \in Kept(said) /\ Cited(said[o]).text = t
    BY <1>1, <2>1 DEF Kept, Firsts
  <2> QED
    BY <2>2 DEF Says
<1> QED
  BY <1>2, <1>3

(* What is appended adds the statements that were not there.                  *)
LEMMA KeptOfBoth ==
  ASSUME NEW s \in Seq(Items), NEW t \in Seq(Items)
  PROVE  Kept(s \o t) = Added(Kept(s), Kept(t))
<1> DEFINE u == s \o t
           L == Len(s)
<1>1. /\ u \in Seq(Items) /\ DOMAIN u = 1 .. L + Len(t) /\ L \in Nat /\ Len(t) \in Nat
      /\ DOMAIN s = 1 .. L /\ DOMAIN t = 1 .. Len(t)
      /\ \A n \in 1 .. L : u[n] = s[n]
      /\ \A n \in 1 .. Len(t) : u[L + n] = t[n] /\ L + n \in 1 .. L + Len(t)
      /\ \A n \in 1 .. L + Len(t) : n \in 1 .. L \/ \E k \in 1 .. Len(t) : n = L + k
  BY Concatenated
<1>2. \A x \in Items : Cited(x).text = x.text
  BY DEF Cited, Items
<1> HIDE DEF u, L
<1>3. ASSUME NEW n \in 1 .. L PROVE n \in Firsts(u) <=> n \in Firsts(s)
  <2>1. ASSUME n \in Firsts(u) PROVE n \in Firsts(s)
    BY <1>1, <2>1 DEF Firsts, FirstOf
  <2>2. ASSUME n \in Firsts(s) PROVE n \in Firsts(u)
    <3>1. ASSUME NEW o \in DOMAIN u, Sound(u[o]), u[o].text = u[n].text PROVE n <= o
      <4>1. CASE o \in 1 .. L
        BY <1>1, <2>2, <3>1, <4>1 DEF Firsts, FirstOf
      <4>2. CASE o \notin 1 .. L
        BY <1>1, <4>2
      <4> QED
        BY <4>1, <4>2
    <3> QED
      BY <1>1, <2>2, <3>1 DEF Firsts, FirstOf
  <2> QED
    BY <2>1, <2>2
<1>4. ASSUME NEW n \in 1 .. Len(t)
      PROVE  L + n \in Firsts(u) <=> n \in Firsts(t) /\ t[n].text \notin Says(Kept(s))
  <2>1. ASSUME L + n \in Firsts(u) PROVE n \in Firsts(t)
    <3>1. Sound(t[n])
      BY <1>1, <2>1 DEF Firsts, FirstOf
    <3>2. ASSUME NEW o \in DOMAIN t, Sound(t[o]), t[o].text = t[n].text PROVE n <= o
      <4>1. L + o \in DOMAIN u /\ u[L + o] = t[o] /\ u[L + n] = t[n]
        BY <1>1
      <4>2. L + n <= L + o
        BY <2>1, <3>2, <4>1 DEF Firsts, FirstOf
      <4> QED
        BY <1>1, <4>2
    <3> QED
      BY <1>1, <3>1, <3>2 DEF Firsts, FirstOf
  <2>2. ASSUME L + n \in Firsts(u), t[n].text \in Says(Kept(s)) PROVE FALSE
    <3>1. PICK o \in DOMAIN s : Sound(s[o]) /\ s[o].text = t[n].text
      BY <2>2, KeptSays
    <3>2. o \in DOMAIN u /\ u[o] = s[o] /\ u[L + n] = t[n] /\ o < L + n
      BY <1>1
    <3>3. L + n <= o
      BY <2>2, <3>1, <3>2 DEF Firsts, FirstOf
    <3> QED
      BY <1>1, <3>2, <3>3
  <2>3. ASSUME n \in Firsts(t), t[n].text \notin Says(Kept(s)) PROVE L + n \in Firsts(u)
    <3>1. u[L + n] = t[n] /\ L + n \in DOMAIN u /\ Sound(t[n])
      BY <1>1, <2>3 DEF Firsts, FirstOf
    <3>2. ASSUME NEW o \in DOMAIN u, Sound(u[o]), u[o].text = t[n].text PROVE L + n <= o
      <4>1. o \notin 1 .. L
        <5>1. \A m \in DOMAIN s : Sound(s[m]) => s[m].text # t[n].text
          BY <2>3, KeptSays
        <5> QED
          BY <1>1, <3>2, <5>1
      <4>2. PICK k \in 1 .. Len(t) : o = L + k
        BY <1>1, <4>1
      <4>3. n <= k
        BY <1>1, <2>3, <3>2, <4>2 DEF Firsts, FirstOf
      <4> QED
        BY <1>1, <4>2, <4>3
    <3> QED
      BY <3>1, <3>2 DEF Firsts, FirstOf
  <2> QED
    BY <2>1, <2>2, <2>3
<1>5. ASSUME NEW x
      PROVE  x \in Kept(u) <=> x \in Kept(s) \/ (x \in Kept(t) /\ x.text \notin Says(Kept(s)))
  <2>1. ASSUME x \in Kept(u) PROVE x \in Kept(s) \/ (x \in Kept(t) /\ x.text \notin Says(Kept(s)))
    <3>1. PICK n \in Firsts(u) : x = Cited(u[n])
      BY <2>1 DEF Kept
    <3>2. n \in 1 .. L + Len(t)
      BY <1>1 DEF Firsts
    <3>3. CASE n \in 1 .. L
      <4>1. n \in Firsts(s) /\ u[n] = s[n]
        BY <1>1, <1>3, <3>1, <3>3
      <4> QED
        BY <3>1, <4>1 DEF Kept
    <3>4. CASE n \notin 1 .. L
      <4>1. PICK k \in 1 .. Len(t) : n = L + k
        BY <1>1, <3>2, <3>4
      <4>2. k \in Firsts(t) /\ t[k].text \notin Says(Kept(s)) /\ u[n] = t[k]
        BY <1>1, <1>4, <3>1, <4>1
      <4>3. x \in Kept(t)
        BY <3>1, <4>2 DEF Kept
      <4>4. x.text = t[k].text
        BY <1>1, <1>2, <3>1, <4>2
      <4> QED
        BY <4>2, <4>3, <4>4
    <3> QED
      BY <3>3, <3>4
  <2>2. ASSUME x \in Kept(s) PROVE x \in Kept(u)
    <3>1. PICK n \in Firsts(s) : x = Cited(s[n])
      BY <2>2 DEF Kept
    <3>2. n \in 1 .. L
      BY <1>1 DEF Firsts
    <3>3. n \in Firsts(u) /\ u[n] = s[n]
      BY <1>1, <1>3, <3>1, <3>2
    <3> QED
      BY <3>1, <3>3 DEF Kept
  <2>3. ASSUME x \in Kept(t), x.text \notin Says(Kept(s)) PROVE x \in Kept(u)
    <3>1. PICK n \in Firsts(t) : x = Cited(t[n])
      BY <2>3 DEF Kept
    <3>2. n \in 1 .. Len(t)
      BY <1>1 DEF Firsts
    <3>3. x.text = t[n].text
      BY <1>1, <1>2, <3>1, <3>2
    <3>4. L + n \in Firsts(u) /\ u[L + n] = t[n]
      BY <1>1, <1>4, <2>3, <3>1, <3>2, <3>3
    <3> QED
      BY <3>1, <3>4 DEF Kept
  <2> QED
    BY <2>1, <2>2, <2>3
<1> QED
  BY <1>5 DEF u, Added

LEMMA KeptOfOne ==
  ASSUME NEW x \in Items
  PROVE  Kept(<<x>>) = IF Sound(x) THEN {Cited(x)} ELSE {}
<1>1. DOMAIN <<x>> = {1} /\ <<x>>[1] = x
  OBVIOUS
<1>2. Firsts(<<x>>) = IF Sound(x) THEN {1} ELSE {}
  BY <1>1 DEF Firsts, FirstOf
<1> QED
  BY <1>1, <1>2 DEF Kept

LEMMA AddedOne ==
  ASSUME NEW old, NEW x
  PROVE  /\ Added(old, {}) = old
         /\ Added(old, {x}) = IF x.text \in Says(old) THEN old ELSE old \cup {x}
  BY DEF Added

LEMMA KeptOfNone == Kept(<<>>) = {}
  BY DEF Kept, Firsts

(* The claims of an answer keep its first statements.                         *)
LEMMA BoundKeeps ==
  ASSUME NEW answer \in Seq(Items)
  PROVE  Bound(answer) \in Seq(Items) /\ Kept(Bound(answer)) = Kept(answer)
<1>1. PICK f \in [0 .. Len(answer) -> Seq(Items)] :
        /\ f[0] = <<>>
        /\ \A n \in 1 .. Len(answer) : f[n] = Bind(f[n - 1], answer[n])
        /\ FoldLeft(Bind, <<>>, answer) = f[Len(answer)]
  BY BindRun
<1> DEFINE N == Len(answer)
           Passed == {n \in 0 .. N : Kept(f[n]) = Kept(SubSeq(answer, 1, n))}
<1>2. 0 \in Passed
  <2>1. SubSeq(answer, 1, 0) = <<>>
    BY PrefixOf
  <2>2. Kept(f[0]) = Kept(SubSeq(answer, 1, 0))
    BY <1>1, <2>1
  <2>3. 0 \in 0 .. N
    OBVIOUS
  <2> QED
    BY <2>2, <2>3
<1>3. ASSUME NEW n \in 0 .. N - 1, n \in Passed PROVE n + 1 \in Passed
  <2> DEFINE x == answer[n + 1]
  <2>1. /\ n + 1 \in 1 .. N /\ (n + 1) - 1 = n /\ x \in Items /\ f[n] \in Seq(Items)
        /\ <<x>> \in Seq(Items)
    OBVIOUS
  <2>2. f[n + 1] = Bind(f[n], x)
    <3> HIDE DEF x
    <3>1. f[n + 1] = Bind(f[n], answer[n + 1])
      BY <1>1, <2>1
    <3> QED
      BY <3>1 DEF x
  <2>3. SubSeq(answer, 1, n) \in Seq(Items) /\ SubSeq(answer, 1, n + 1) = SubSeq(answer, 1, n) \o <<x>>
    BY <2>1, PrefixOf
  <2>4. Cited(x) \in Items /\ (Sound(x) <=> x.text # Blank /\ Cited(x).refs # {})
    BY <2>1 DEF Cited, Items, Sound
  <2>5. Sound(x) => Sound(Cited(x)) /\ Cited(Cited(x)) = Cited(x)
    BY <2>1 DEF Cited, Items, Sound
  <2> HIDE DEF x
  <2>6. Kept(SubSeq(answer, 1, n + 1)) = Added(Kept(f[n]), Kept(<<x>>))
    <3>1. Kept(SubSeq(answer, 1, n)) = Kept(f[n])
      BY <1>3
    <3>2. Kept(SubSeq(answer, 1, n) \o <<x>>) = Added(Kept(SubSeq(answer, 1, n)), Kept(<<x>>))
      BY <2>1, <2>3, KeptOfBoth
    <3> QED
      BY <2>3, <3>1, <3>2
  <2>7. CASE Sound(x)
    <3>1. f[n + 1] = f[n] \o <<Cited(x)>> /\ <<Cited(x)>> \in Seq(Items)
      BY <2>1, <2>2, <2>4, <2>7 DEF Bind
    <3>2. Kept(<<Cited(x)>>) = Kept(<<x>>)
      BY <2>1, <2>4, <2>5, <2>7, KeptOfOne
    <3>3. Kept(f[n] \o <<Cited(x)>>) = Added(Kept(f[n]), Kept(<<Cited(x)>>))
      BY <2>1, <3>1, KeptOfBoth
    <3>4. Kept(f[n + 1]) = Kept(SubSeq(answer, 1, n + 1))
      BY <2>6, <3>1, <3>2, <3>3
    <3> QED
      BY <2>1, <3>4
  <2>8. CASE ~Sound(x)
    <3>1. f[n + 1] = f[n]
      BY <2>2, <2>4, <2>8 DEF Bind
    <3>2. Kept(<<x>>) = {}
      BY <2>1, <2>8, KeptOfOne
    <3>3. Kept(f[n + 1]) = Kept(SubSeq(answer, 1, n + 1))
      BY <2>6, <3>1, <3>2, AddedOne
    <3> QED
      BY <2>1, <3>3
  <2> QED
    BY <2>7, <2>8
<1>4. \A n \in 0 .. N : n \in Passed
  <2>1. \A n \in 0 .. N - 1 : n \in Passed => n + 1 \in Passed
    BY <1>3
  <2>2. N \in Nat
    OBVIOUS
  <2> HIDE DEF N, Passed
  <2> QED
    BY <1>2, <2>1, <2>2, Induction
<1>5. N \in 0 .. N /\ SubSeq(answer, 1, N) = answer
  BY PrefixOf
<1>6. Kept(f[N]) = Kept(answer)
  BY <1>4, <1>5
<1> QED
  BY <1>1, <1>5, <1>6 DEF Bound

(* So do the claims of all answers.                                        *)
LEMMA StatedKeeps ==
  ASSUME items \in [1 .. Subquestions -> Seq(Items)]
  PROVE  /\ FlattenSeq(items) \in Seq(Items) /\ Stated \in Seq(Items)
         /\ Kept(Stated) = Kept(FlattenSeq(items))
<1> DEFINE N == Subquestions
           parts == [k \in 1 .. N |-> Bound(items[k])]
<1>1. N \in Nat
  BY ShapeAssumption
<1>2. items \in Parts(N, Items) /\ parts \in Parts(N, Items)
  BY BoundKeeps DEF Parts
<1>3. PICK f \in Joins(N, Items, items) : f[N] = FlattenSeq(items)
  BY <1>1, <1>2, Flattening
<1>4. PICK g \in Joins(N, Items, parts) : g[N] = FlattenSeq(parts)
  <2> HIDE DEF parts
  <2> QED
    BY <1>1, <1>2, Flattening
<1> DEFINE Passed == {n \in 0 .. N : Kept(f[n]) = Kept(g[n])}
<1>5. 0 \in Passed
  BY <1>1, <1>3, <1>4 DEF Joins
<1>6. ASSUME NEW n \in 0 .. N - 1, n \in Passed PROVE n + 1 \in Passed
  <2>1. n + 1 \in 1 .. N /\ (n + 1) - 1 = n
    BY <1>1
  <2>2. f[n] \in Seq(Items) /\ f[n + 1] = f[n] \o items[n + 1]
    <3>1. f \in [0 .. N -> Seq(Items)] /\ \A m \in 1 .. N : f[m] = f[m - 1] \o items[m]
      BY <1>3 DEF Joins
    <3>2. f[n + 1] = f[n] \o items[n + 1]
      BY <2>1, <3>1
    <3>3. f[n] \in Seq(Items)
      BY <1>1, <3>1
    <3> QED
      BY <3>2, <3>3
  <2>3. g[n] \in Seq(Items) /\ g[n + 1] = g[n] \o parts[n + 1]
    <3> HIDE DEF parts
    <3>1. g \in [0 .. N -> Seq(Items)] /\ \A m \in 1 .. N : g[m] = g[m - 1] \o parts[m]
      BY <1>4 DEF Joins
    <3>2. g[n + 1] = g[n] \o parts[n + 1]
      BY <2>1, <3>1
    <3>3. g[n] \in Seq(Items)
      BY <1>1, <3>1
    <3> QED
      BY <3>2, <3>3
  <2>4. /\ items[n + 1] \in Seq(Items) /\ parts[n + 1] \in Seq(Items)
        /\ Kept(parts[n + 1]) = Kept(items[n + 1])
    BY <2>1, BoundKeeps
  <2>5. Kept(f[n]) = Kept(g[n])
    BY <1>6
  <2> HIDE DEF parts
  <2>6. Kept(f[n] \o items[n + 1]) = Added(Kept(f[n]), Kept(items[n + 1]))
    BY <2>2, <2>4, KeptOfBoth
  <2>7. Kept(g[n] \o parts[n + 1]) = Added(Kept(g[n]), Kept(parts[n + 1]))
    BY <2>3, <2>4, KeptOfBoth
  <2>8. Kept(f[n + 1]) = Kept(g[n + 1])
    BY <2>2, <2>3, <2>4, <2>5, <2>6, <2>7
  <2> QED
    BY <2>1, <2>8
<1>7. \A n \in 0 .. N : n \in Passed
  <2>1. \A n \in 0 .. N - 1 : n \in Passed => n + 1 \in Passed
    BY <1>6
  <2> HIDE DEF N, Passed
  <2> QED
    BY <1>1, <1>5, <2>1, Induction
<1>8. Kept(f[N]) = Kept(g[N]) /\ f[N] \in Seq(Items) /\ g[N] \in Seq(Items)
  <2>1. N \in 0 .. N
    BY <1>1
  <2>2. f[N] \in Seq(Items) /\ g[N] \in Seq(Items)
    <3> HIDE DEF N, parts
    <3> QED
      BY <1>3, <1>4, <2>1 DEF Joins
  <2> QED
    BY <1>7, <2>1, <2>2
<1>9. Stated = FlattenSeq(parts)
  BY DEF Stated
<1> HIDE DEF N, parts
<1> QED
  BY <1>3, <1>4, <1>8, <1>9

(* _dedupe keeps exactly the first statements.                                *)
LEMMA DedupeKeeps ==
  ASSUME NEW said \in Seq(Grounded)
  PROVE  ToSet(FoldLeft(Dedupe, <<>>, said)) = Kept(said)
<1>1. PICK f \in [0 .. Len(said) -> Seq(Grounded)] :
        /\ f[0] = <<>>
        /\ \A n \in 1 .. Len(said) : f[n] = Dedupe(f[n - 1], said[n])
        /\ FoldLeft(Dedupe, <<>>, said) = f[Len(said)]
  BY DedupeRun
<1> DEFINE N == Len(said)
           Passed == {n \in 0 .. N : ToSet(f[n]) = Kept(SubSeq(said, 1, n))}
<1>2. 0 \in Passed
  <2>1. SubSeq(said, 1, 0) = <<>>
    BY PrefixOf
  <2>2. ToSet(<<>>) = {}
    BY DEF ToSet
  <2> QED
    BY <1>1, <2>1, <2>2, KeptOfNone
<1>3. ASSUME NEW n \in 0 .. N - 1, n \in Passed PROVE n + 1 \in Passed
  <2> DEFINE x == said[n + 1]
  <2>1. n + 1 \in 1 .. N /\ (n + 1) - 1 = n /\ x \in Grounded /\ f[n] \in Seq(Grounded)
    OBVIOUS
  <2>2. f[n + 1] = Dedupe(f[n], x)
    BY <1>1, <2>1
  <2>3. /\ SubSeq(said, 1, n) \in Seq(Grounded)
        /\ SubSeq(said, 1, n + 1) = SubSeq(said, 1, n) \o <<x>>
    BY <2>1, PrefixOf
  <2>4. x \in Items /\ Sound(x) /\ Cited(x) = x /\ <<x>> \in Seq(Items)
    <3>1. x \in Items /\ x.text # Blank /\ x.refs # {} /\ x.refs \subseteq Refs
      BY <2>1 DEF Grounded
    <3>2. x.refs \cap Refs = x.refs
      BY <3>1
    <3>3. Cited(x) = x
      BY <3>1, <3>2 DEF Cited, Items
    <3> HIDE DEF x
    <3> QED
      BY <3>1, <3>2, <3>3 DEF Sound
  <2>5. SubSeq(said, 1, n) \in Seq(Items)
    BY <2>3 DEF Grounded
  <2> HIDE DEF x
  <2>6. Kept(SubSeq(said, 1, n + 1)) = Added(ToSet(f[n]), {x})
    <3>1. Kept(SubSeq(said, 1, n)) = ToSet(f[n])
      BY <1>3
    <3>2. Kept(SubSeq(said, 1, n) \o <<x>>) = Added(Kept(SubSeq(said, 1, n)), Kept(<<x>>))
      BY <2>4, <2>5, KeptOfBoth
    <3>3. Kept(<<x>>) = {x}
      BY <2>4, KeptOfOne
    <3> QED
      BY <2>3, <3>1, <3>2, <3>3
  <2>7. x.text \in Says(ToSet(f[n])) <=> \E k \in DOMAIN f[n] : f[n][k].text = x.text
    BY DEF Says, ToSet
  <2>8. CASE x.text \in Says(ToSet(f[n]))
    <3>1. f[n + 1] = f[n]
      BY <2>2, <2>7, <2>8 DEF Dedupe
    <3>2. ToSet(f[n + 1]) = Kept(SubSeq(said, 1, n + 1))
      BY <2>6, <2>8, <3>1, AddedOne
    <3> QED
      BY <2>1, <3>2
  <2>9. CASE x.text \notin Says(ToSet(f[n]))
    <3>1. f[n + 1] = Append(f[n], x)
      BY <2>2, <2>7, <2>9 DEF Dedupe
    <3>2. ToSet(Append(f[n], x)) = ToSet(f[n]) \cup {x}
      <4>1. ASSUME NEW s \in Seq(Grounded), NEW y \in Grounded
            PROVE  ToSet(Append(s, y)) = ToSet(s) \cup {y}
        BY AppendedSet
      <4> QED
        BY <2>1, <4>1
    <3>3. ToSet(f[n + 1]) = Kept(SubSeq(said, 1, n + 1))
      BY <2>6, <2>9, <3>1, <3>2, AddedOne
    <3> QED
      BY <2>1, <3>3
  <2> QED
    BY <2>8, <2>9
<1>4. \A n \in 0 .. N : n \in Passed
  <2>1. \A n \in 0 .. N - 1 : n \in Passed => n + 1 \in Passed
    BY <1>3
  <2>2. N \in Nat
    OBVIOUS
  <2> HIDE DEF N, Passed
  <2> QED
    BY <1>2, <2>1, <2>2, Induction
<1>5. N \in 0 .. N /\ SubSeq(said, 1, N) = said
  BY PrefixOf
<1>6. ToSet(f[N]) = Kept(said)
  BY <1>4, <1>5
<1> QED
  BY <1>1, <1>6

(* Every text that an answer states with a source that exists becomes one claim, *)
(* the one of its first such statement (analyst._extract, _dedupe).             *)
THEOREM StatementsSurvive == Spec => CitedStatementsSurvive
<1>1. ASSUME IInv, Conclude PROVE FirstStatements(claims', FlattenSeq(items))
  <2> DEFINE said == FlattenSeq(items)
             list == claims'
             cited == {n \in DOMAIN said : said[n].text # Blank /\ said[n].refs \cap Refs # {}}
             firsts == {n \in cited : \A o \in cited : said[o].text = said[n].text => n <= o}
  <2>1. said \in Seq(Items) /\ Stated \in Seq(Items) /\ Kept(Stated) = Kept(said)
    BY <1>1, StatedKeeps DEF IInv, TypeOK
  <2>2. Stated \in Seq(Grounded) /\ Grounded \in SUBSET Items
    BY <1>1, StatedType DEF IInv, TypeOK, Grounded
  <2>3. list = FoldLeft(Dedupe, <<>>, Stated)
    BY <1>1 DEF Conclude, Stated
  <2> HIDE DEF said, list
  <2>4. list \in Seq(Grounded) /\ Single(list) /\ ToSet(list) = Kept(said)
    BY <2>1, <2>2, <2>3, DedupeType, DedupeKeeps
  <2>5. firsts = Firsts(said)
    BY DEF Firsts, FirstOf, Sound
  <2> HIDE DEF firsts
  <2>6. \A n \in firsts : said[n] \in Items
    BY <2>1, <2>5 DEF Firsts
  <2>7. \A x \in Items : Cited(x) = [text |-> x.text, refs |-> x.refs \cap Refs] /\ Cited(x).text = x.text
    BY DEF Cited, Items
  <2>8. ToSet(list) = {[text |-> said[n].text, refs |-> said[n].refs \cap Refs] : n \in firsts}
    <3>1. Kept(said) = {Cited(said[n]) : n \in firsts}
      BY <2>5 DEF Kept
    <3>2. \A n \in firsts : Cited(said[n]) = [text |-> said[n].text, refs |-> said[n].refs \cap Refs]
      BY <2>6, <2>7
    <3> QED
      BY <2>4, <3>1, <3>2
  <2>9. Len(list) = Cardinality(firsts)
    <3>1. Cardinality(ToSet(list)) = Len(list)
      <4>1. \A n, o \in DOMAIN list : list[n] = list[o] => n = o
        BY <2>4 DEF Single
      <4> QED
        BY <2>4, <4>1, Distinct
    <3> DEFINE f == [n \in firsts |-> Cited(said[n])]
    <3>2. IsFiniteSet(firsts)
      <4>1. Len(said) \in Int /\ 1 \in Int /\ firsts \in SUBSET (1 .. Len(said))
        BY <2>1, <2>5 DEF Firsts
      <4>2. IsFiniteSet(1 .. Len(said))
        BY <4>1, FS_Interval
      <4> QED
        BY <4>1, <4>2, FS_Subset
    <3>3. \A n, o \in firsts : f[n] = f[o] => n = o
      <4> SUFFICES ASSUME NEW n \in firsts, NEW o \in firsts, f[n] = f[o] PROVE n = o
        OBVIOUS
      <4>1. said[n].text = said[o].text
        BY <2>6, <2>7
      <4>2. n <= o /\ o <= n /\ n \in Nat /\ o \in Nat
        BY <2>1, <2>5, <4>1 DEF Firsts, FirstOf
      <4> QED
        BY <4>2
    <3>4. {f[n] : n \in firsts} = ToSet(list) /\ DOMAIN f = firsts
      BY <2>4, <2>5 DEF Kept
    <3> HIDE DEF f
    <3>5. Cardinality({f[n] : n \in firsts}) = Cardinality(firsts)
      BY <3>2, <3>3, <3>4, OneToOne
    <3> QED
      BY <3>1, <3>4, <3>5
  <2> QED
    BY <2>8, <2>9 DEF FirstStatements, firsts, said, list
<1>2. IInv /\ [Next]_vars => [Conclude => FirstStatements(claims', FlattenSeq(items))]_vars
  BY <1>1
<1> QED
  BY <1>2, Invariant, PTL DEF Spec, CitedStatementsSurvive

-----------------------------------------------------------------------------
(* The order in which the sources were found.                                *)

(* v occurs before any u does.                                             *)
Before(s, v, u) == \E n \in DOMAIN s : s[n] = v /\ \A o \in 1 .. n : s[o] # u

LEMMA BeforeProperties ==
  ASSUME NEW T, NEW s \in Seq(T), NEW v, NEW u
  PROVE  /\ Before(s, v, u) => v \in ToSet(s) /\ ~Before(s, u, v)
         /\ ~Before(s, v, v)
         /\ v \in ToSet(s) /\ u \notin ToSet(s) => Before(s, v, u)
<1>1. ASSUME Before(s, v, u), Before(s, u, v) PROVE FALSE
  <2>1. PICK n \in DOMAIN s : s[n] = v /\ \A o \in 1 .. n : s[o] # u
    BY <1>1 DEF Before
  <2>2. PICK m \in DOMAIN s : s[m] = u /\ \A o \in 1 .. m : s[o] # v
    BY <1>1 DEF Before
  <2>3. n \in 1 .. m \/ m \in 1 .. n
    OBVIOUS
  <2> QED
    BY <2>1, <2>2, <2>3
<1>2. Before(s, v, u) => v \in ToSet(s)
  BY DEF Before, ToSet
<1>3. ~Before(s, v, v)
  <2>1. \A n \in DOMAIN s : n \in 1 .. n
    OBVIOUS
  <2> QED
    BY <2>1 DEF Before
<1>4. ASSUME v \in ToSet(s), u \notin ToSet(s) PROVE Before(s, v, u)
  <2>1. PICK n \in DOMAIN s : s[n] = v
    BY <1>4 DEF ToSet
  <2>2. \A o \in 1 .. n : o \in DOMAIN s
    OBVIOUS
  <2>3. \A o \in 1 .. n : s[o] # u
    BY <1>4, <2>2 DEF ToSet
  <2> QED
    BY <2>1, <2>3 DEF Before
<1> QED
  BY <1>1, <1>2, <1>3, <1>4

LEMMA BeforeOfBoth ==
  ASSUME NEW T, NEW s \in Seq(T), NEW t \in Seq(T), NEW v, NEW u
  PROVE  Before(s \o t, v, u) <=> Before(s, v, u) \/ (u \notin ToSet(s) /\ Before(t, v, u))
<1> DEFINE w == s \o t
           L == Len(s)
<1>1. /\ w \in Seq(T) /\ DOMAIN w = 1 .. L + Len(t) /\ L \in Nat /\ Len(t) \in Nat
      /\ DOMAIN s = 1 .. L /\ DOMAIN t = 1 .. Len(t)
      /\ \A n \in 1 .. L : w[n] = s[n]
      /\ \A n \in 1 .. Len(t) : w[L + n] = t[n] /\ L + n \in 1 .. L + Len(t)
      /\ \A n \in 1 .. L + Len(t) : n \in 1 .. L \/ \E k \in 1 .. Len(t) : n = L + k
  BY Concatenated
<1> HIDE DEF w, L
<1>2. ASSUME Before(s, v, u) PROVE Before(w, v, u)
  <2>1. PICK n \in DOMAIN s : s[n] = v /\ \A o \in 1 .. n : s[o] # u
    BY <1>2 DEF Before
  <2>2. n \in DOMAIN w /\ w[n] = v /\ \A o \in 1 .. n : o \in 1 .. L
    BY <1>1, <2>1
  <2>3. \A o \in 1 .. n : w[o] # u
    BY <1>1, <2>1, <2>2
  <2> QED
    BY <2>2, <2>3 DEF Before
<1>3. ASSUME u \notin ToSet(s), Before(t, v, u) PROVE Before(w, v, u)
  <2>1. PICK n \in DOMAIN t : t[n] = v /\ \A o \in 1 .. n : t[o] # u
    BY <1>3 DEF Before
  <2>2. L + n \in DOMAIN w /\ w[L + n] = v
    BY <1>1, <2>1
  <2>3. ASSUME NEW o \in 1 .. L + n PROVE w[o] # u
    <3>1. o \in 1 .. L + Len(t)
      BY <1>1
    <3>2. CASE o \in 1 .. L
      BY <1>1, <1>3, <3>2 DEF ToSet
    <3>3. CASE o \notin 1 .. L
      <4>1. PICK k \in 1 .. Len(t) : o = L + k
        BY <1>1, <3>1, <3>3
      <4>2. k \in 1 .. n
        BY <1>1, <4>1
      <4> QED
        BY <1>1, <2>1, <4>1, <4>2
    <3> QED
      BY <3>2, <3>3
  <2> QED
    BY <2>2, <2>3 DEF Before
<1>4. ASSUME Before(w, v, u), ~Before(s, v, u) PROVE u \notin ToSet(s) /\ Before(t, v, u)
  <2>1. PICK n \in DOMAIN w : w[n] = v /\ \A o \in 1 .. n : w[o] # u
    BY <1>4 DEF Before
  <2>2. n \notin 1 .. L
    <3> SUFFICES ASSUME n \in 1 .. L PROVE FALSE
      OBVIOUS
    <3>1. s[n] = v /\ \A o \in 1 .. n : o \in 1 .. L
      BY <1>1, <2>1
    <3>2. \A o \in 1 .. n : s[o] # u
      BY <1>1, <2>1, <3>1
    <3> QED
      BY <1>1, <1>4, <3>1, <3>2 DEF Before
  <2>3. PICK k \in 1 .. Len(t) : n = L + k
    BY <1>1, <2>2
  <2>4. \A o \in 1 .. L : o \in 1 .. n
    BY <1>1, <2>3
  <2>5. u \notin ToSet(s)
    BY <1>1, <2>1, <2>4 DEF ToSet
  <2>6. \A o \in 1 .. k : o \in 1 .. Len(t) /\ L + o \in 1 .. n
    BY <1>1, <2>3
  <2>7. t[k] = v /\ \A o \in 1 .. k : t[o] # u
    BY <1>1, <2>1, <2>3, <2>6
  <2> QED
    BY <1>1, <2>5, <2>7 DEF Before
<1> QED
  BY <1>2, <1>3, <1>4 DEF w

LEMMA BeforeOfOne ==
  ASSUME NEW x, NEW v, NEW u
  PROVE  Before(<<x>>, v, u) <=> x = v /\ v # u
<1>1. DOMAIN <<x>> = {1} /\ <<x>>[1] = x /\ 1 .. 1 = {1}
  OBVIOUS
<1> QED
  BY <1>1 DEF Before

(* Two lists in which the urls let pass occur in the same order.               *)
Alike(s, t) ==
  \A v, u \in Urls \ Blocked :
    (u \in ToSet(s) <=> u \in ToSet(t)) /\ (Before(s, v, u) <=> Before(t, v, u))

LEMMA AlikeOfBoth ==
  ASSUME NEW s \in Seq(Urls), NEW t \in Seq(Urls), NEW s2 \in Seq(Urls), NEW t2 \in Seq(Urls),
         Alike(s, t), Alike(s2, t2)
  PROVE  Alike(s \o s2, t \o t2)
<1> SUFFICES ASSUME NEW v \in Urls \ Blocked, NEW u \in Urls \ Blocked
             PROVE  /\ u \in ToSet(s \o s2) <=> u \in ToSet(t \o t2)
                    /\ Before(s \o s2, v, u) <=> Before(t \o t2, v, u)
  BY DEF Alike
<1>1. /\ u \in ToSet(s) <=> u \in ToSet(t)
      /\ u \in ToSet(s2) <=> u \in ToSet(t2)
      /\ Before(s, v, u) <=> Before(t, v, u)
      /\ Before(s2, v, u) <=> Before(t2, v, u)
  BY DEF Alike
<1>2. ToSet(s \o s2) = ToSet(s) \cup ToSet(s2) /\ ToSet(t \o t2) = ToSet(t) \cup ToSet(t2)
  BY Concatenated
<1>3. /\ Before(s \o s2, v, u) <=> Before(s, v, u) \/ (u \notin ToSet(s) /\ Before(s2, v, u))
      /\ Before(t \o t2, v, u) <=> Before(t, v, u) \/ (u \notin ToSet(t) /\ Before(t2, v, u))
  BY BeforeOfBoth
<1> QED
  BY <1>1, <1>2, <1>3

(* _filter drops only what is there already or is blocked.                    *)
LEMMA FilteredAlike ==
  ASSUME NEW found \in Seq(Urls)
  PROVE  Alike(found, Filtered(found)) /\ Filtered(found) \in Seq(Urls)
<1>1. PICK f \in [0 .. Len(found) -> Seq(Urls)] :
        /\ f[0] = <<>>
        /\ \A n \in 1 .. Len(found) : f[n] = Keep(f[n - 1], found[n])
        /\ FoldLeft(Keep, <<>>, found) = f[Len(found)]
  BY KeepRun
<1> DEFINE N == Len(found)
           Passed == {n \in 0 .. N : Alike(SubSeq(found, 1, n), f[n])}
<1>2. 0 \in Passed
  <2>1. SubSeq(found, 1, 0) = f[0]
    BY <1>1, PrefixOf
  <2>2. Alike(SubSeq(found, 1, 0), f[0])
    BY <2>1 DEF Alike
  <2>3. 0 \in 0 .. N
    OBVIOUS
  <2> QED
    BY <2>2, <2>3
<1>3. ASSUME NEW n \in 0 .. N - 1, n \in Passed PROVE n + 1 \in Passed
  <2> DEFINE x == found[n + 1]
             p == SubSeq(found, 1, n)
             l == f[n]
  <2>1. n + 1 \in 1 .. N /\ (n + 1) - 1 = n /\ x \in Urls /\ l \in Seq(Urls) /\ <<x>> \in Seq(Urls)
    OBVIOUS
  <2>2. f[n + 1] = Keep(l, x)
    <3> HIDE DEF x
    <3>1. f[n + 1] = Keep(f[n], found[n + 1])
      BY <1>1, <2>1
    <3> QED
      BY <3>1 DEF x
  <2>3. p \in Seq(Urls) /\ SubSeq(found, 1, n + 1) = p \o <<x>> /\ Alike(p, l)
    BY <1>3, <2>1, PrefixOf
  <2>4. ToSet(<<x>>) = {x}
    BY DEF ToSet
  <2> HIDE DEF x, p, l
  <2>5. CASE x \in ToSet(l) \/ x \in Blocked
    <3>1. f[n + 1] = l
      BY <2>2, <2>5 DEF Keep
    <3>2. ASSUME NEW v \in Urls \ Blocked, NEW u \in Urls \ Blocked
          PROVE  /\ u \in ToSet(p \o <<x>>) <=> u \in ToSet(l)
                 /\ Before(p \o <<x>>, v, u) <=> Before(l, v, u)
      <4>1. /\ ToSet(p \o <<x>>) = ToSet(p) \cup {x}
            /\ Before(p \o <<x>>, v, u) <=> Before(p, v, u) \/ (u \notin ToSet(p) /\ x = v /\ v # u)
        <5>1. ToSet(p \o <<x>>) = ToSet(p) \cup {x}
          BY <2>1, <2>3, JoinedOne
        <5>2. Before(p \o <<x>>, v, u) <=> Before(p, v, u) \/ (u \notin ToSet(p) /\ Before(<<x>>, v, u))
          BY <2>1, <2>3, BeforeOfBoth
        <5> QED
          BY <2>4, <5>1, <5>2, BeforeOfOne
      <4>2. /\ u \in ToSet(p) <=> u \in ToSet(l)
            /\ v \in ToSet(p) <=> v \in ToSet(l)
            /\ Before(p, v, u) <=> Before(l, v, u)
        BY <2>3 DEF Alike
      <4>3. v \in ToSet(p) /\ u \notin ToSet(p) => Before(p, v, u)
        BY <2>3, BeforeProperties
      <4> QED
        BY <2>5, <4>1, <4>2, <4>3
    <3>3. Alike(p \o <<x>>, l)
      BY <3>2 DEF Alike
    <3>4. Alike(SubSeq(found, 1, n + 1), f[n + 1])
      BY <2>3, <3>1, <3>3
    <3> QED
      BY <2>1, <3>4
  <2>6. CASE ~(x \in ToSet(l) \/ x \in Blocked)
    <3>1. f[n + 1] = l \o <<x>>
      BY <2>1, <2>2, <2>6 DEF Keep
    <3>2. Alike(<<x>>, <<x>>)
      BY DEF Alike
    <3>3. Alike(p \o <<x>>, l \o <<x>>)
      BY <2>1, <2>3, <3>2, AlikeOfBoth
    <3>4. Alike(SubSeq(found, 1, n + 1), f[n + 1])
      BY <2>3, <3>1, <3>3
    <3> QED
      BY <2>1, <3>4
  <2> QED
    BY <2>5, <2>6
<1>4. \A n \in 0 .. N : n \in Passed
  <2>1. \A n \in 0 .. N - 1 : n \in Passed => n + 1 \in Passed
    BY <1>3
  <2>2. N \in Nat
    OBVIOUS
  <2> HIDE DEF N, Passed
  <2> QED
    BY <1>2, <2>1, <2>2, Induction
<1>5. N \in 0 .. N /\ SubSeq(found, 1, N) = found
  BY PrefixOf
<1>6. Alike(found, f[N]) /\ f[N] \in Seq(Urls)
  BY <1>4, <1>5
<1> QED
  BY <1>1, <1>6 DEF Filtered

LEMMA MergedAlike ==
  ASSUME results \in [1 .. Queries -> Seq(Urls)]
  PROVE  FlattenSeq(results) \in Seq(Urls) /\ Alike(FlattenSeq(results), Merged)
<1> DEFINE N == Queries
           parts == [k \in 1 .. N |-> Filtered(results[k])]
<1>1. N \in Nat
  BY ShapeAssumption
<1>2. results \in Parts(N, Urls) /\ parts \in Parts(N, Urls)
  BY FilteredAlike DEF Parts
<1>3. PICK f \in Joins(N, Urls, results) : f[N] = FlattenSeq(results)
  BY <1>1, <1>2, Flattening
<1>4. PICK g \in Joins(N, Urls, parts) : g[N] = FlattenSeq(parts)
  <2> HIDE DEF parts
  <2> QED
    BY <1>1, <1>2, Flattening
<1> DEFINE Passed == {n \in 0 .. N : Alike(f[n], g[n])}
<1>5. 0 \in Passed
  <2>1. f[0] = g[0]
    <3> HIDE DEF parts
    <3> QED
      BY <1>3, <1>4 DEF Joins
  <2>2. Alike(f[0], g[0])
    BY <2>1 DEF Alike
  <2> QED
    BY <1>1, <2>2
<1>6. ASSUME NEW n \in 0 .. N - 1, n \in Passed PROVE n + 1 \in Passed
  <2>1. n + 1 \in 1 .. N /\ (n + 1) - 1 = n
    BY <1>1
  <2>2. f[n] \in Seq(Urls) /\ f[n + 1] = f[n] \o results[n + 1]
    <3>1. f \in [0 .. N -> Seq(Urls)] /\ \A m \in 1 .. N : f[m] = f[m - 1] \o results[m]
      BY <1>3 DEF Joins
    <3>2. f[n + 1] = f[n] \o results[n + 1]
      BY <2>1, <3>1
    <3>3. f[n] \in Seq(Urls)
      BY <1>1, <3>1
    <3> QED
      BY <3>2, <3>3
  <2>3. g[n] \in Seq(Urls) /\ g[n + 1] = g[n] \o parts[n + 1]
    <3> HIDE DEF parts
    <3>1. g \in [0 .. N -> Seq(Urls)] /\ \A m \in 1 .. N : g[m] = g[m - 1] \o parts[m]
      BY <1>4 DEF Joins
    <3>2. g[n + 1] = g[n] \o parts[n + 1]
      BY <2>1, <3>1
    <3>3. g[n] \in Seq(Urls)
      BY <1>1, <3>1
    <3> QED
      BY <3>2, <3>3
  <2>4. /\ results[n + 1] \in Seq(Urls) /\ parts[n + 1] \in Seq(Urls)
        /\ Alike(results[n + 1], parts[n + 1])
    BY <2>1, FilteredAlike
  <2>5. Alike(f[n], g[n])
    BY <1>6
  <2> HIDE DEF parts
  <2>6. Alike(f[n + 1], g[n + 1])
    BY <2>2, <2>3, <2>4, <2>5, AlikeOfBoth
  <2> QED
    BY <2>1, <2>6
<1>7. \A n \in 0 .. N : n \in Passed
  <2>1. \A n \in 0 .. N - 1 : n \in Passed => n + 1 \in Passed
    BY <1>6
  <2> HIDE DEF N, Passed
  <2> QED
    BY <1>1, <1>5, <2>1, Induction
<1>8. Alike(f[N], g[N]) /\ f[N] \in Seq(Urls)
  <2>1. N \in 0 .. N
    BY <1>1
  <2>2. f[N] \in Seq(Urls)
    <3> HIDE DEF N
    <3> QED
      BY <1>3, <2>1 DEF Joins
  <2> QED
    BY <1>7, <2>1, <2>2
<1>9. Merged = FlattenSeq(parts)
  BY DEF Merged
<1> HIDE DEF N, parts
<1> QED
  BY <1>3, <1>4, <1>8, <1>9

-----------------------------------------------------------------------------
(* The urls that the searcher picks.                                        *)

Passing == Urls \ Blocked

(* The urls of u's domain in a list, how many of them come before u, and the    *)
(* places that a list gives to the domain.                                   *)
Peers(s, u) == {v \in ToSet(s) : Domain[v] = Domain[u]}
Rank(s, u) == Cardinality({v \in Peers(s, u) : Before(s, v, u)})
Places(list, u) == {n \in DOMAIN list : Domain[list[n]] = Domain[u]}

(* What Collect has made of the results p: the first of each domain, in their  *)
(* order, and as many of a domain as there are and may be.                   *)
Picked(p, list) ==
  /\ ToSet(list) = {u \in ToSet(p) : Rank(p, u) < DomainCap}
  /\ \A n, o \in DOMAIN list : n < o => Before(p, list[n], list[o])
  /\ \A u \in Passing :
       Cardinality(Places(list, u)) = IF Cardinality(Peers(p, u)) < DomainCap
                                      THEN Cardinality(Peers(p, u)) ELSE DomainCap

LEMMA PeersFinite ==
  ASSUME NEW p \in Seq(Passing), NEW u
  PROVE  /\ IsFiniteSet(ToSet(p)) /\ IsFiniteSet(Peers(p, u))
         /\ Cardinality(Peers(p, u)) \in Nat
         /\ Rank(p, u) \in Nat /\ Rank(p, u) <= Cardinality(Peers(p, u))
<1>1. IsFiniteSet(ToSet(p))
  <2>1. Len(p) \in Int /\ 1 \in Int /\ DOMAIN p = 1 .. Len(p)
    OBVIOUS
  <2>2. IsFiniteSet(DOMAIN p)
    BY <2>1, FS_Interval
  <2>3. p \in Surjection(DOMAIN p, ToSet(p))
    BY DEF Surjection, ToSet
  <2> QED
    BY <2>2, <2>3, FS_Surjection
<1>2. IsFiniteSet(Peers(p, u))
  <2>1. Peers(p, u) \in SUBSET ToSet(p)
    BY DEF Peers
  <2> QED
    BY <1>1, <2>1, FS_Subset
<1>3. Rank(p, u) <= Cardinality(Peers(p, u)) /\ Rank(p, u) \in Nat
  <2> DEFINE E == {v \in Peers(p, u) : Before(p, v, u)}
  <2>1. E \in SUBSET Peers(p, u)
    OBVIOUS
  <2> HIDE DEF E
  <2>2. IsFiniteSet(E) /\ Cardinality(E) <= Cardinality(Peers(p, u))
    BY <1>2, <2>1, FS_Subset
  <2>3. Cardinality(E) \in Nat
    BY <2>2, FS_CardinalityType
  <2> QED
    BY <2>2, <2>3 DEF Rank, E
<1> QED
  BY <1>1, <1>2, <1>3, FS_CardinalityType

LEMMA PlacesFinite ==
  ASSUME NEW list \in Seq(Passing), NEW u
  PROVE  IsFiniteSet(Places(list, u)) /\ Cardinality(Places(list, u)) \in Nat
<1>1. Len(list) \in Int /\ 1 \in Int /\ Places(list, u) \in SUBSET (1 .. Len(list))
  BY DEF Places
<1>2. IsFiniteSet(1 .. Len(list))
  BY <1>1, FS_Interval
<1> QED
  BY <1>1, <1>2, FS_Subset, FS_CardinalityType

(* A result that was there already changes nothing.                          *)
LEMMA PickedAgain ==
  ASSUME NEW p \in Seq(Passing), NEW list \in Seq(Passing), NEW x \in Passing,
         Picked(p, list), x \in ToSet(p)
  PROVE  Picked(p \o <<x>>, Collect(list, x))
<1> DEFINE q == p \o <<x>>
<1>1. <<x>> \in Seq(Passing) /\ ToSet(<<x>>) = {x}
  BY DEF ToSet
<1>2. ToSet(q) = ToSet(p)
  <2>1. ToSet(p \o <<x>>) = ToSet(p) \cup {x}
    BY JoinedOne
  <2> QED
    BY <2>1
<1>3. ASSUME NEW v, NEW u PROVE Before(q, v, u) <=> Before(p, v, u)
  <2>1. Before(q, v, u) <=> Before(p, v, u) \/ (u \notin ToSet(p) /\ Before(<<x>>, v, u))
    BY <1>1, BeforeOfBoth
  <2>2. Before(<<x>>, v, u) => v = x
    BY BeforeOfOne
  <2>3. v \in ToSet(p) /\ u \notin ToSet(p) => Before(p, v, u)
    BY BeforeProperties
  <2> QED
    BY <2>1, <2>2, <2>3
<1> HIDE DEF q
<1>4. \A u : Peers(q, u) = Peers(p, u) /\ Rank(q, u) = Rank(p, u)
  <2>1. \A u : Peers(q, u) = Peers(p, u)
    BY <1>2 DEF Peers
  <2>2. \A u : {v \in Peers(q, u) : Before(q, v, u)} = {v \in Peers(p, u) : Before(p, v, u)}
    BY <1>3, <2>1
  <2> QED
    BY <2>1, <2>2 DEF Rank
<1>5. Picked(q, list)
  BY <1>2, <1>3, <1>4 DEF Picked
<1>6. Collect(list, x) = list
  <2>1. CASE x \in ToSet(list)
    BY <2>1 DEF Collect
  <2>2. CASE x \notin ToSet(list)
    <3>1. ~(Rank(p, x) < DomainCap)
      BY <2>2 DEF Picked
    <3>2. Rank(p, x) \in Nat /\ Cardinality(Peers(p, x)) \in Nat /\ Rank(p, x) <= Cardinality(Peers(p, x))
      BY PeersFinite
    <3>3. Cardinality(Places(list, x)) = IF Cardinality(Peers(p, x)) < DomainCap
                                         THEN Cardinality(Peers(p, x)) ELSE DomainCap
      BY DEF Picked
    <3>4. DomainCap \in Nat
      BY ShapeAssumption
    <3>5. Cardinality(Places(list, x)) >= DomainCap
      BY <3>1, <3>2, <3>3, <3>4
    <3> QED
      BY <3>5 DEF Collect, Places
  <2> QED
    BY <2>1, <2>2
<1> QED
  BY <1>5, <1>6 DEF q

(* A new result is the last of its domain, and joins unless that is full.       *)
LEMMA PickedNew ==
  ASSUME NEW p \in Seq(Passing), NEW list \in Seq(Passing), NEW x \in Passing,
         Picked(p, list), x \notin ToSet(p)
  PROVE  Picked(p \o <<x>>, Collect(list, x))
<1> DEFINE q == p \o <<x>>
<1>1. <<x>> \in Seq(Passing) /\ ToSet(<<x>>) = {x}
  BY DEF ToSet
<1>2. q \in Seq(Passing) /\ ToSet(q) = ToSet(p) \cup {x}
  <2>1. p \o <<x>> \in Seq(Passing) /\ ToSet(p \o <<x>>) = ToSet(p) \cup {x}
    BY JoinedOne
  <2> QED
    BY <2>1
<1>3. ASSUME NEW v, NEW u
      PROVE  Before(q, v, u) <=> Before(p, v, u) \/ (u \notin ToSet(p) /\ x = v /\ v # u)
  <2>1. Before(q, v, u) <=> Before(p, v, u) \/ (u \notin ToSet(p) /\ Before(<<x>>, v, u))
    BY <1>1, BeforeOfBoth
  <2> QED
    BY <2>1, BeforeOfOne
<1> HIDE DEF q
<1>4. \A v, u : u \in ToSet(p) => (Before(q, v, u) <=> Before(p, v, u))
  BY <1>3
<1>5. \A v : Before(q, v, x) <=> v \in ToSet(p)
  <2> TAKE v
  <2>1. Before(q, v, x) <=> Before(p, v, x)
    BY <1>3
  <2>2. Before(p, v, x) <=> v \in ToSet(p)
    BY BeforeProperties
  <2> QED
    BY <2>1, <2>2
<1>6. \A u \in ToSet(p) : Rank(q, u) = Rank(p, u)
  <2> TAKE u \in ToSet(p)
  <2>1. ~Before(p, x, u)
    BY BeforeProperties
  <2>2. {v \in Peers(q, u) : Before(q, v, u)} = {v \in Peers(p, u) : Before(p, v, u)}
    BY <1>2, <1>4, <2>1 DEF Peers
  <2> QED
    BY <2>2 DEF Rank
<1>7. Rank(q, x) = Cardinality(Peers(p, x))
  <2>1. {v \in Peers(q, x) : Before(q, v, x)} = Peers(p, x)
    BY <1>2, <1>5 DEF Peers
  <2> QED
    BY <2>1 DEF Rank
<1>8. ASSUME NEW u \in Passing
      PROVE  Cardinality(Peers(q, u)) = IF Domain[u] = Domain[x] THEN Cardinality(Peers(p, u)) + 1
                                        ELSE Cardinality(Peers(p, u))
  <2>1. Peers(q, u) = IF Domain[u] = Domain[x] THEN Peers(p, u) \cup {x} ELSE Peers(p, u)
    BY <1>2 DEF Peers
  <2>2. x \notin Peers(p, u) /\ IsFiniteSet(Peers(p, u))
    BY PeersFinite DEF Peers
  <2> QED
    BY <2>1, <2>2, FS_AddElement
<1>9. /\ ToSet(list) = {u \in ToSet(p) : Rank(p, u) < DomainCap} /\ x \notin ToSet(list)
      /\ \A n, o \in DOMAIN list : n < o => Before(p, list[n], list[o])
      /\ \A n \in DOMAIN list : list[n] \in ToSet(p)
      /\ DomainCap \in Nat
  BY ShapeAssumption DEF Picked, ToSet
<1>10. ASSUME NEW u \in Passing
       PROVE  /\ Cardinality(Places(list, u)) = IF Cardinality(Peers(p, u)) < DomainCap
                                               THEN Cardinality(Peers(p, u)) ELSE DomainCap
              /\ Cardinality(Peers(p, u)) \in Nat /\ Cardinality(Places(list, u)) \in Nat
              /\ Domain[u] = Domain[x] => Peers(p, u) = Peers(p, x) /\ Places(list, u) = Places(list, x)
  BY PeersFinite, PlacesFinite DEF Picked, Peers, Places
<1>11. CASE Cardinality(Places(list, x)) >= DomainCap
  <2>1. Collect(list, x) = list
    BY <1>11 DEF Collect, Places
  <2>2. Rank(q, x) >= DomainCap /\ Rank(q, x) \in Nat
    BY <1>7, <1>9, <1>10, <1>11
  <2>3. ToSet(list) = {u \in ToSet(q) : Rank(q, u) < DomainCap}
    BY <1>2, <1>6, <1>9, <2>2
  <2>4. \A n, o \in DOMAIN list : n < o => Before(q, list[n], list[o])
    BY <1>4, <1>9
  <2>5. ASSUME NEW u \in Passing
        PROVE  Cardinality(Places(list, u)) = IF Cardinality(Peers(q, u)) < DomainCap
                                              THEN Cardinality(Peers(q, u)) ELSE DomainCap
    <3>1. CASE Domain[u] = Domain[x]
      BY <1>8, <1>9, <1>10, <1>11, <3>1
    <3>2. CASE Domain[u] # Domain[x]
      BY <1>8, <1>10, <3>2
    <3> QED
      BY <3>1, <3>2
  <2> QED
    BY <2>1, <2>3, <2>4, <2>5 DEF Picked, q
<1>12. CASE ~(Cardinality(Places(list, x)) >= DomainCap)
  <2> DEFINE new == Append(list, x)
             L == Len(list)
  <2>1. Collect(list, x) = new
    BY <1>9, <1>12 DEF Collect, Places
  <2>2. /\ L \in Nat /\ DOMAIN list = 1 .. L /\ DOMAIN new = 1 .. L + 1
        /\ new[L + 1] = x /\ \A n \in 1 .. L : new[n] = list[n]
    OBVIOUS
  <2>3. ToSet(new) = ToSet(list) \cup {x}
    BY AppendedSet
  <2> HIDE DEF new, L
  <2>4. Rank(q, x) < DomainCap
    BY <1>7, <1>9, <1>10, <1>12
  <2>5. ToSet(new) = {u \in ToSet(q) : Rank(q, u) < DomainCap}
    BY <1>2, <1>6, <1>9, <2>3, <2>4
  <2>6. ASSUME NEW n \in DOMAIN new, NEW o \in DOMAIN new, n < o
        PROVE  Before(q, new[n], new[o])
    <3>1. n \in 1 .. L /\ new[n] = list[n]
      BY <2>2, <2>6
    <3>2. CASE o = L + 1
      BY <1>5, <1>9, <2>2, <3>1, <3>2
    <3>3. CASE o # L + 1
      <4>1. o \in 1 .. L /\ new[o] = list[o]
        BY <2>2, <3>3
      <4> QED
        BY <1>4, <1>9, <2>2, <2>6, <3>1, <4>1
    <3> QED
      BY <3>2, <3>3
  <2>7. ASSUME NEW u \in Passing
        PROVE  Cardinality(Places(new, u)) = IF Cardinality(Peers(q, u)) < DomainCap
                                             THEN Cardinality(Peers(q, u)) ELSE DomainCap
    <3>1. Places(new, u) = IF Domain[u] = Domain[x] THEN Places(list, u) \cup {L + 1} ELSE Places(list, u)
      BY <2>2 DEF Places
    <3>2. L + 1 \notin Places(list, u) /\ IsFiniteSet(Places(list, u))
      <4>1. L + 1 \notin Places(list, u)
        BY <2>2 DEF Places
      <4> QED
        BY <4>1, PlacesFinite
    <3>3. Cardinality(Places(new, u)) = IF Domain[u] = Domain[x] THEN Cardinality(Places(list, u)) + 1
                                        ELSE Cardinality(Places(list, u))
      BY <3>1, <3>2, FS_AddElement
    <3>4. CASE Domain[u] = Domain[x]
      <4>1. Cardinality(Places(list, u)) < DomainCap
        BY <1>9, <1>10, <1>12, <3>4
      <4> QED
        BY <1>8, <1>9, <1>10, <3>3, <3>4, <4>1
    <3>5. CASE Domain[u] # Domain[x]
      BY <1>8, <1>10, <3>3, <3>5
    <3> QED
      BY <3>4, <3>5
  <2> QED
    BY <2>1, <2>5, <2>6, <2>7 DEF Picked, q
<1> QED
  BY <1>11, <1>12

(* The sources are picked from the merged results.                            *)
LEMMA CollectPicks ==
  ASSUME NEW found \in Seq(Passing)
  PROVE  /\ FoldLeft(Collect, <<>>, found) \in Seq(Passing)
         /\ Picked(found, FoldLeft(Collect, <<>>, found))
<1>1. PICK f \in [0 .. Len(found) -> Seq(Passing)] :
        /\ f[0] = <<>>
        /\ \A n \in 1 .. Len(found) : f[n] = Collect(f[n - 1], found[n])
        /\ FoldLeft(Collect, <<>>, found) = f[Len(found)]
  BY CollectRun
<1> DEFINE N == Len(found)
           Passed == {n \in 0 .. N : Picked(SubSeq(found, 1, n), f[n])}
<1>2. 0 \in Passed
  <2>1. SubSeq(found, 1, 0) = <<>> /\ f[0] = <<>> /\ ToSet(<<>>) = {} /\ DOMAIN <<>> = {}
    BY <1>1, PrefixOf DEF ToSet
  <2>2. \A u : Peers(<<>>, u) = {} /\ Places(<<>>, u) = {}
    BY <2>1 DEF Peers, Places
  <2>3. Cardinality({}) = 0 /\ DomainCap \in Nat
    BY FS_EmptySet, ShapeAssumption
  <2>4. Picked(<<>>, <<>>)
    <3>1. ToSet(<<>>) = {u \in ToSet(<<>>) : Rank(<<>>, u) < DomainCap}
      BY <2>1
    <3>2. \A n, o \in DOMAIN <<>> : n < o => Before(<<>>, <<>>[n], <<>>[o])
      BY <2>1, Zenon
    <3>3. ASSUME NEW u \in Passing
          PROVE  Cardinality(Places(<<>>, u)) = IF Cardinality(Peers(<<>>, u)) < DomainCap
                                                THEN Cardinality(Peers(<<>>, u)) ELSE DomainCap
      <4>1. Cardinality(Places(<<>>, u)) = 0 /\ Cardinality(Peers(<<>>, u)) = 0 /\ 0 < DomainCap
        BY <2>2, <2>3, ShapeAssumption
      <4> QED
        BY <4>1
    <3> QED
      BY <3>1, <3>2, <3>3, Zenon DEF Picked
  <2>5. Picked(SubSeq(found, 1, 0), f[0])
    BY <2>1, <2>4
  <2>6. 0 \in 0 .. N
    OBVIOUS
  <2> QED
    BY <2>5, <2>6
<1>3. ASSUME NEW n \in 0 .. N - 1, n \in Passed PROVE n + 1 \in Passed
  <2> DEFINE x == found[n + 1]
             p == SubSeq(found, 1, n)
  <2>1. n + 1 \in 1 .. N /\ (n + 1) - 1 = n /\ x \in Passing /\ f[n] \in Seq(Passing)
    OBVIOUS
  <2>2. f[n + 1] = Collect(f[n], x)
    <3> HIDE DEF x
    <3>1. f[n + 1] = Collect(f[n], found[n + 1])
      BY <1>1, <2>1
    <3> QED
      BY <3>1 DEF x
  <2>3. p \in Seq(Passing) /\ SubSeq(found, 1, n + 1) = p \o <<x>> /\ Picked(p, f[n])
    BY <1>3, <2>1, PrefixOf
  <2> HIDE DEF x, p
  <2>4. Picked(p \o <<x>>, Collect(f[n], x))
    BY <2>1, <2>3, PickedAgain, PickedNew
  <2>5. Picked(SubSeq(found, 1, n + 1), f[n + 1])
    BY <2>2, <2>3, <2>4
  <2> QED
    BY <2>1, <2>5
<1>4. \A n \in 0 .. N : n \in Passed
  <2>1. \A n \in 0 .. N - 1 : n \in Passed => n + 1 \in Passed
    BY <1>3
  <2>2. N \in Nat
    OBVIOUS
  <2> HIDE DEF N, Passed
  <2> QED
    BY <1>2, <2>1, <2>2, Induction
<1>5. N \in 0 .. N /\ SubSeq(found, 1, N) = found
  BY PrefixOf
<1>6. Picked(found, f[N]) /\ f[N] \in Seq(Passing)
  BY <1>4, <1>5
<1> QED
  BY <1>1, <1>6

(* The place of the first occurrence, and the order of two first occurrences.   *)
FirstPlace(s, u) == CHOOSE n \in DOMAIN s : s[n] = u /\ \A o \in 1 .. n - 1 : s[o] # u

LEMMA FirstPlaceOf ==
  ASSUME NEW T, NEW s \in Seq(T), NEW u \in ToSet(s)
  PROVE  /\ FirstPlace(s, u) \in DOMAIN s /\ s[FirstPlace(s, u)] = u
         /\ \A o \in 1 .. FirstPlace(s, u) - 1 : s[o] # u
<1> DEFINE At == {n \in DOMAIN s : s[n] = u}
<1>1. At \in SUBSET Nat /\ At # {}
  BY DEF ToSet
<1>2. PICK m \in At : \A k \in At : m <= k
  <2> HIDE DEF At
  <2> QED
    BY <1>1, LeastElement
<1>3. \A o \in 1 .. m - 1 : o \in DOMAIN s /\ ~(m <= o)
  OBVIOUS
<1>4. m \in DOMAIN s /\ s[m] = u /\ \A o \in 1 .. m - 1 : s[o] # u
  BY <1>2, <1>3
<1> QED
  BY <1>4 DEF FirstPlace

LEMMA FirstPlaceOrder ==
  ASSUME NEW T, NEW s \in Seq(T), NEW v \in ToSet(s), NEW u \in ToSet(s)
  PROVE  FirstPlace(s, v) < FirstPlace(s, u) <=> Before(s, v, u)
<1> DEFINE n == FirstPlace(s, v)
           m == FirstPlace(s, u)
<1>1. n \in DOMAIN s /\ s[n] = v /\ \A o \in 1 .. n - 1 : s[o] # v
  BY FirstPlaceOf
<1>2. m \in DOMAIN s /\ s[m] = u /\ \A o \in 1 .. m - 1 : s[o] # u
  BY FirstPlaceOf
<1> HIDE DEF n, m
<1>3. n \in Nat /\ m \in Nat /\ m >= 1
  BY <1>1, <1>2
<1>4. ASSUME n < m PROVE Before(s, v, u)
  <2>1. \A o \in 1 .. n : o \in 1 .. m - 1
    BY <1>3, <1>4
  <2> QED
    BY <1>1, <1>2, <2>1 DEF Before
<1>5. ASSUME Before(s, v, u) PROVE n < m
  <2>1. PICK k \in DOMAIN s : s[k] = v /\ \A o \in 1 .. k : s[o] # u
    BY <1>5 DEF Before
  <2>2. m \notin 1 .. k
    BY <1>2, <2>1
  <2>3. k < m /\ k \in Nat
    BY <1>3, <2>1, <2>2
  <2>4. k \notin 1 .. n - 1
    BY <1>1, <2>1
  <2> QED
    BY <1>3, <2>1, <2>3, <2>4
<1> QED
  BY <1>4, <1>5 DEF n, m

(* The first DomainCap urls of each domain that the policy lets pass become the  *)
(* sources, in the order of their first occurrence (searcher.run, _filter).     *)
THEOREM FirstResultsWin == Spec => MergeFirstWins
<1>1. ASSUME IInv, Merge PROVE FirstWins(sources', FlattenSeq(results))
  <2> DEFINE found == FlattenSeq(results)
             list == sources'
             first(u) == CHOOSE n \in DOMAIN found :
                           found[n] = u /\ \A o \in 1 .. n - 1 : found[o] # u
             passed == ToSet(found) \ Blocked
             before(u) == {v \in passed : first(v) < first(u)}
             rank(u) == Cardinality({v \in before(u) : Domain[v] = Domain[u]})
             chosen == {u \in passed : rank(u) < DomainCap}
  <2>1. found \in Seq(Urls) /\ Alike(found, Merged)
    BY <1>1, MergedAlike DEF IInv, TypeOK
  <2>2. Merged \in Seq(Passing)
    BY <1>1, MergedType DEF IInv, TypeOK, Passing
  <2>3. list = FoldLeft(Collect, <<>>, Merged)
    BY <1>1 DEF Merge, Merged
  <2>4. list \in Seq(Passing) /\ Picked(Merged, list)
    BY <2>2, <2>3, CollectPicks
  <2>5. \A u : first(u) = FirstPlace(found, u)
    BY DEF FirstPlace
  <2> HIDE DEF found, list, first
  <2>6. passed = ToSet(Merged) /\ passed \subseteq Passing /\ passed \subseteq ToSet(found)
    <3>1. ToSet(found) \subseteq Urls /\ ToSet(Merged) \subseteq Passing
      BY <2>1, <2>2 DEF ToSet
    <3> QED
      BY <2>1, <3>1 DEF Alike, Passing
  <2> HIDE DEF passed
  <2>7. ASSUME NEW v \in passed, NEW u \in passed
        PROVE  first(v) < first(u) <=> Before(Merged, v, u)
    <3>1. first(v) < first(u) <=> Before(found, v, u)
      BY <2>1, <2>5, <2>6, FirstPlaceOrder
    <3> QED
      BY <2>1, <2>6, <3>1 DEF Alike, Passing
  <2>8. ASSUME NEW u \in passed
        PROVE  /\ before(u) = {v \in passed : Before(Merged, v, u)}
               /\ rank(u) = Rank(Merged, u)
    <3>1. before(u) = {v \in passed : Before(Merged, v, u)}
      BY <2>7
    <3>2. {v \in before(u) : Domain[v] = Domain[u]} = {v \in Peers(Merged, u) : Before(Merged, v, u)}
      BY <2>6, <3>1 DEF Peers
    <3> QED
      BY <3>1, <3>2 DEF Rank
  <2> HIDE DEF before, rank
  <2>9. ToSet(list) = chosen
    BY <2>4, <2>6, <2>8 DEF Picked
  <2>10. ASSUME NEW n \in DOMAIN list PROVE Cardinality(before(list[n]) \cap chosen) = n - 1
    <3> DEFINE head == [o \in 1 .. n - 1 |-> list[o]]
    <3>1. \A o \in DOMAIN list : list[o] \in chosen /\ list[o] \in passed
      BY <2>9 DEF ToSet
    <3>2. ASSUME NEW o \in DOMAIN list, NEW k \in DOMAIN list, o < k
          PROVE  Before(Merged, list[o], list[k])
      BY <2>4, <3>2 DEF Picked
    <3>3. ASSUME NEW o \in DOMAIN list
          PROVE  Before(Merged, list[o], list[n]) <=> o \in 1 .. n - 1
      <4>1. CASE o < n
        BY <2>4, <3>2, <4>1
      <4>2. CASE o = n
        BY <2>2, <4>2, BeforeProperties
      <4>3. CASE n < o
        <5>1. Before(Merged, list[n], list[o])
          BY <3>2, <4>3
        <5>2. ~Before(Merged, list[o], list[n])
          BY <2>2, <5>1, BeforeProperties
        <5> QED
          BY <2>4, <4>3, <5>2
      <4> QED
        BY <2>4, <4>1, <4>2, <4>3
    <3>4. before(list[n]) \cap chosen = {v \in ToSet(list) : Before(Merged, v, list[n])}
      BY <2>8, <2>9, <3>1
    <3>5. \A o \in 1 .. n - 1 : o \in DOMAIN list
      BY <2>4
    <3>6. {v \in ToSet(list) : Before(Merged, v, list[n])} = {head[o] : o \in 1 .. n - 1}
      <4>1. ASSUME NEW v \in ToSet(list), Before(Merged, v, list[n])
            PROVE  v \in {head[o] : o \in 1 .. n - 1}
        <5>1. PICK o \in DOMAIN list : list[o] = v
          BY DEF ToSet
        <5>2. o \in 1 .. n - 1
          BY <3>3, <4>1, <5>1
        <5> QED
          BY <5>1, <5>2
      <4>2. ASSUME NEW o \in 1 .. n - 1
            PROVE  head[o] \in ToSet(list) /\ Before(Merged, head[o], list[n])
        BY <3>3, <3>5 DEF ToSet
      <4> HIDE DEF head
      <4> QED
        BY <4>1, <4>2
    <3>7. \A o, k \in 1 .. n - 1 : head[o] = head[k] => o = k
      <4> SUFFICES ASSUME NEW o \in 1 .. n - 1, NEW k \in 1 .. n - 1, head[o] = head[k] PROVE o = k
        OBVIOUS
      <4>1. o \in DOMAIN list /\ k \in DOMAIN list /\ list[o] = list[k]
        BY <3>5
      <4>2. ~Before(Merged, list[o], list[k]) /\ ~Before(Merged, list[k], list[o])
        BY <2>2, <4>1, BeforeProperties
      <4>3. ~(o < k) /\ ~(k < o)
        BY <3>2, <4>1, <4>2
      <4> QED
        BY <4>3
    <3>8. IsFiniteSet(1 .. n - 1) /\ Cardinality(1 .. n - 1) = n - 1
      <4>1. n \in Int /\ 1 \in Int /\ n - 1 \in Int /\ n >= 1
        BY <2>4
      <4>2. /\ IsFiniteSet(1 .. n - 1)
            /\ Cardinality(1 .. n - 1) = IF 1 > n - 1 THEN 0 ELSE (n - 1) - 1 + 1
        BY <4>1, FS_Interval
      <4> QED
        BY <4>1, <4>2
    <3>9. DOMAIN head = 1 .. n - 1
      OBVIOUS
    <3> DEFINE S == 1 .. n - 1
    <3> HIDE DEF head
    <3>10. Cardinality({head[o] : o \in S}) = Cardinality(S)
      <4>1. IsFiniteSet(S) /\ DOMAIN head = S /\ \A o, k \in S : head[o] = head[k] => o = k
        BY <3>7, <3>8, <3>9
      <4> HIDE DEF S
      <4> QED
        BY <4>1, OneToOne
    <3> QED
      BY <3>4, <3>6, <3>8, <3>10 DEF S
  <2> QED
    BY <2>9, <2>10 DEF FirstWins, chosen, rank, before, passed, first, found, list
<1>2. IInv /\ [Next]_vars => [Merge => FirstWins(sources', FlattenSeq(results))]_vars
  BY <1>1
<1> QED
  BY <1>2, Invariant, PTL DEF Spec, MergeFirstWins

===============================================================================
