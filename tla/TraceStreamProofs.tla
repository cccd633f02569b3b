-------------------------- MODULE TraceStreamProofs --------------------------
(***************************************************************************)
(* Theorems of TraceStream, for any connections, queue size and number of    *)
(* events: the types, that a connection the bus serves loses nothing, that   *)
(* the end of a stream is not told too early, and that the stream implements *)
(* TraceDelivery.                                                          *)
(***************************************************************************)
EXTENDS TraceStream, SequenceTheorems, FiniteSetTheorems, TLAPS

Items(s) == {s[i] : i \in DOMAIN s}
Ascending(s) == \A i, j \in DOMAIN s : i < j => s[i] < s[j]
EndLast(s) == \A i, j \in DOMAIN s : i < j => s[i] # End /\ (s[j] = End \/ s[i] < s[j])

-----------------------------------------------------------------------------
(* Sequences.                                                              *)

LEMMA AppendItems ==
  ASSUME NEW s \in Seq(Nat), NEW e \in Nat
  PROVE  Items(Append(s, e)) = Items(s) \cup {e}
<1>1. /\ Append(s, e) \in Seq(Nat) /\ Len(s) \in Nat
      /\ DOMAIN s = 1 .. Len(s) /\ DOMAIN Append(s, e) = 1 .. Len(s) + 1
  BY LenProperties
<1>2. \A i \in 1 .. Len(s) + 1 : Append(s, e)[i] = IF i = Len(s) + 1 THEN e ELSE s[i]
  OBVIOUS
<1>3. 1 .. Len(s) + 1 = (1 .. Len(s)) \cup {Len(s) + 1}
  BY <1>1
<1> QED
  BY <1>1, <1>2, <1>3 DEF Items

LEMMA TailItems ==
  ASSUME NEW s \in Seq(Nat), s # <<>>
  PROVE  /\ Head(s) \in Nat /\ Tail(s) \in Seq(Nat) /\ Len(Tail(s)) = Len(s) - 1
         /\ Items(s) = {Head(s)} \cup Items(Tail(s))
         /\ DOMAIN Tail(s) = 1 .. Len(s) - 1 /\ Len(s) \in Nat \ {0}
         /\ \A i \in DOMAIN Tail(s) : i + 1 \in DOMAIN s /\ Tail(s)[i] = s[i + 1]
<1>1. /\ Head(s) \in Nat /\ Tail(s) \in Seq(Nat) /\ Len(Tail(s)) = Len(s) - 1
      /\ \A i \in 1 .. Len(Tail(s)) : Tail(s)[i] = s[i + 1]
  BY HeadTailProperties
<1>2. /\ Len(s) \in Nat \ {0} /\ DOMAIN s = 1 .. Len(s)
      /\ DOMAIN Tail(s) = 1 .. Len(s) - 1
  BY <1>1, LenProperties, EmptySeq
<1>3. Head(s) = s[1]
  BY <1>1
<1>4. ASSUME NEW i \in DOMAIN s PROVE s[i] = Head(s) \/ s[i] \in Items(Tail(s))
  <2>1. CASE i # 1
    <3>1. i - 1 \in 1 .. Len(Tail(s)) /\ (i - 1) + 1 = i
      BY <1>1, <1>2, <2>1
    <3>2. Tail(s)[i - 1] = s[i]
      BY <1>1, <3>1
    <3> QED
      BY <1>1, <1>2, <3>1, <3>2 DEF Items
  <2> QED
    BY <1>3, <2>1
<1>5. \A i \in DOMAIN Tail(s) : i + 1 \in DOMAIN s /\ Tail(s)[i] = s[i + 1]
  BY <1>1, <1>2
<1>6. Head(s) \in Items(s)
  BY <1>2, <1>3 DEF Items
<1>7. Items(s) = {Head(s)} \cup Items(Tail(s))
  BY <1>4, <1>5, <1>6 DEF Items
<1> QED
  BY <1>1, <1>2, <1>5, <1>7

LEMMA AppendAscending ==
  ASSUME NEW s \in Seq(Nat), NEW e \in Nat, Ascending(s),
         \A n \in Items(s) : n < e
  PROVE  Ascending(Append(s, e))
<1>1. DOMAIN s = 1 .. Len(s) /\ Len(s) \in Nat /\ DOMAIN Append(s, e) = 1 .. Len(s) + 1
  BY LenProperties
<1>2. \A i \in 1 .. Len(s) + 1 : Append(s, e)[i] = IF i = Len(s) + 1 THEN e ELSE s[i]
  OBVIOUS
<1> QED
  BY <1>1, <1>2 DEF Ascending, Items

LEMMA TailAscending ==
  ASSUME NEW s \in Seq(Nat), s # <<>>, Ascending(s)
  PROVE  Ascending(Tail(s)) /\ \A n \in Items(Tail(s)) : Head(s) < n
<1>1. /\ DOMAIN Tail(s) = 1 .. Len(s) - 1 /\ Len(s) \in Nat \ {0}
      /\ \A i \in DOMAIN Tail(s) : i + 1 \in DOMAIN s /\ Tail(s)[i] = s[i + 1]
  BY TailItems
<1>2. Head(s) = s[1] /\ 1 \in DOMAIN s
  BY <1>1, LenProperties
<1>3. Ascending(Tail(s))
  BY <1>1 DEF Ascending
<1>4. ASSUME NEW i \in DOMAIN Tail(s) PROVE Head(s) < Tail(s)[i]
  <2>1. i + 1 \in DOMAIN s /\ 1 < i + 1 /\ Tail(s)[i] = s[i + 1]
    BY <1>1
  <2> QED
    BY <1>2, <2>1 DEF Ascending
<1> QED
  BY <1>3, <1>4 DEF Items

LEMMA AppendEndLast ==
  ASSUME NEW s \in Seq(Nat), NEW e \in Nat, EndLast(s),
         End \notin Items(s), e = End \/ \A n \in Items(s) : n < e
  PROVE  EndLast(Append(s, e))
<1>1. DOMAIN s = 1 .. Len(s) /\ Len(s) \in Nat /\ DOMAIN Append(s, e) = 1 .. Len(s) + 1
  BY LenProperties
<1>2. \A i \in 1 .. Len(s) + 1 : Append(s, e)[i] = IF i = Len(s) + 1 THEN e ELSE s[i]
  OBVIOUS
<1> QED
  BY <1>1, <1>2 DEF EndLast, Items

(* An end at the head is all there is.                                       *)
LEMMA TailEndLast ==
  ASSUME NEW s \in Seq(Nat), s # <<>>, EndLast(s)
  PROVE  /\ EndLast(Tail(s))
         /\ Head(s) = End => Items(Tail(s)) = {}
         /\ Head(s) # End => \A n \in Items(Tail(s)) : n = End \/ Head(s) < n
<1>1. /\ DOMAIN Tail(s) = 1 .. Len(s) - 1 /\ Len(s) \in Nat \ {0}
      /\ \A i \in DOMAIN Tail(s) : i + 1 \in DOMAIN s /\ Tail(s)[i] = s[i + 1]
  BY TailItems
<1>2. Head(s) = s[1] /\ 1 \in DOMAIN s
  BY <1>1, LenProperties
<1>3. EndLast(Tail(s))
  BY <1>1 DEF EndLast
<1>4. ASSUME NEW i \in DOMAIN Tail(s)
      PROVE  Head(s) # End /\ (Tail(s)[i] = End \/ Head(s) < Tail(s)[i])
  BY <1>1, <1>2 DEF EndLast
<1> QED
  BY <1>3, <1>4 DEF Items

(* A finite set of numbers has an ascending enumeration, and every ascending  *)
(* enumeration of its size is onto.                                          *)
LEMMA SortedItems ==
  ASSUME NEW n \in Nat, NEW S \in SUBSET (1 .. n)
  PROVE  Sorted(S) \in Seq(S) /\ Ascending(Sorted(S)) /\ Items(Sorted(S)) = S
<1> DEFINE N == Cardinality(S)
           Upto(x) == {y \in S : y <= x}
           rank == [x \in S |-> Cardinality(Upto(x))]
           Fits(s) == s \in [1 .. N -> S] /\ \A i, j \in DOMAIN s : i < j => s[i] < s[j]
<1>0. \A x \in S : x \in Nat
  OBVIOUS
<1>1. IsFiniteSet(S) /\ N \in Nat
  <2>1. IsFiniteSet(1 .. n)
    BY FS_Interval
  <2> QED
    BY <2>1, FS_Subset, FS_CardinalityType
<1>2. /\ IsFiniteSet(1 .. N) /\ Cardinality(1 .. N) = N
  BY <1>1, FS_Interval
<1>3. ASSUME NEW x \in S
      PROVE  IsFiniteSet(Upto(x)) /\ Cardinality(Upto(x)) \in 1 .. N
  <2>1. Upto(x) \in SUBSET S /\ x \in Upto(x)
    OBVIOUS
  <2>2. IsFiniteSet(Upto(x)) /\ Cardinality(Upto(x)) <= N
    BY <1>1, <2>1, FS_Subset
  <2>3. Cardinality(Upto(x)) \in Nat /\ Cardinality(Upto(x)) # 0
    BY <2>1, <2>2, FS_CardinalityType, FS_EmptySet
  <2> QED
    BY <1>1, <2>2, <2>3
<1>4. ASSUME NEW x \in S, NEW y \in S, x < y PROVE rank[x] < rank[y]
  <2>1. Upto(x) \in SUBSET Upto(y) /\ y \in Upto(y) /\ y \notin Upto(x)
    <3>1. x \in Nat /\ y \in Nat
      BY <1>0
    <3>2. ASSUME NEW z \in S, z <= x PROVE z <= y
      <4>1. z \in Nat
        BY <1>0
      <4> QED
        BY <1>4, <3>1, <3>2, <4>1
    <3>3. y <= y /\ ~(y <= x)
      BY <1>4, <3>1
    <3> QED
      BY <3>2, <3>3
  <2>2. /\ Cardinality(Upto(x)) <= Cardinality(Upto(y))
        /\ Cardinality(Upto(y)) # Cardinality(Upto(x))
    BY <1>3, <2>1, FS_Subset
  <2>3. Cardinality(Upto(x)) \in Nat /\ Cardinality(Upto(y)) \in Nat
    BY <1>3
  <2> QED
    BY <2>2, <2>3
<1>5. rank \in [S -> 1 .. N]
  BY <1>3
<1>6. rank \in Injection(S, 1 .. N)
  <2>1. \A x, y \in S : x # y => x < y \/ y < x
    OBVIOUS
  <2>2. \A x, y \in S : rank[x] = rank[y] => x = y
    BY <1>4, <1>5, <2>1
  <2> QED
    BY <1>5, <2>2 DEF Injection, IsInjective
<1> HIDE DEF rank
<1>7. rank \in Surjection(S, 1 .. N)
  BY <1>1, <1>2, <1>6, FS_Injection
<1>8. \A i \in 1 .. N : \E x \in S : rank[x] = i
  BY <1>7 DEF Surjection
<1> DEFINE pick == [i \in 1 .. N |-> CHOOSE x \in S : rank[x] = i]
<1>9. \A i \in 1 .. N : pick[i] \in S /\ rank[pick[i]] = i
  BY <1>8
<1> HIDE DEF pick
<1>10. ASSUME NEW i \in 1 .. N, NEW j \in 1 .. N, i < j PROVE pick[i] < pick[j]
  <2>1. pick[i] \in S /\ pick[j] \in S /\ rank[pick[i]] = i /\ rank[pick[j]] = j
    BY <1>9
  <2>2. pick[i] # pick[j]
    BY <1>10, <2>1
  <2>3. ~(pick[j] < pick[i])
    <3>1. SUFFICES ASSUME pick[j] < pick[i] PROVE FALSE
      OBVIOUS
    <3>2. rank[pick[j]] < rank[pick[i]]
      BY <1>4, <2>1, <3>1
    <3> QED
      BY <1>10, <2>1, <3>2
  <2> QED
    <3>1. pick[i] \in Nat /\ pick[j] \in Nat
      BY <1>0, <2>1
    <3> QED
      BY <2>2, <2>3, <3>1
<1>11. Fits(pick)
  BY <1>9, <1>10 DEF pick
<1>12. Fits(Sorted(S))
  BY <1>11 DEF Sorted
<1> DEFINE s == Sorted(S)
<1> HIDE DEF s, N
<1>13. s \in [1 .. N -> S] /\ \A i, j \in 1 .. N : i < j => s[i] < s[j]
  BY <1>12 DEF s
<1>14. s \in Injection(1 .. N, S)
  <2>1. \A i, j \in 1 .. N : i # j => i < j \/ j < i
    BY <1>1
  <2>2. ASSUME NEW i \in 1 .. N, NEW j \in 1 .. N, s[i] = s[j] PROVE i = j
    <3>1. s[i] \in Nat /\ s[j] \in Nat
      BY <1>0, <1>13
    <3>2. ~(s[i] < s[j]) /\ ~(s[j] < s[i])
      BY <2>2, <3>1
    <3> QED
      BY <1>13, <2>1, <3>2
  <2> QED
    BY <1>13, <2>2 DEF Injection, IsInjective
<1>15. s \in Surjection(1 .. N, S)
  BY <1>1, <1>2, <1>14, FS_Injection DEF N
<1>16. Items(s) = S
  BY <1>13, <1>15 DEF Items, Surjection
<1>17. s \in Seq(S)
  BY <1>1, <1>13
<1> QED
  BY <1>13, <1>16, <1>17 DEF s, Ascending
-----------------------------------------------------------------------------
(* The inductive invariant.                                                *)

(* The variables are functions over the connections, of the types in TypeOK;  *)
(* an event is only published once it is committed.                          *)
Typed ==
  /\ status \in {"running", "terminal"} /\ writer \in WriterStates
  /\ seq \in 0 .. MaxEvents
  /\ log \subseteq 1 .. seq /\ torn \subseteq log /\ early \subseteq log
  /\ InFlight \subseteq log
  /\ subscribers \subseteq Clients /\ cut \subseteq Clients
  /\ conn \in [Clients -> ConnStates] /\ terminal \in [Clients -> BOOLEAN]
  /\ queue \in [Clients -> Seq(0 .. MaxEvents)]
  /\ history \in [Clients -> Seq(1 .. MaxEvents)]
  /\ view \in [Clients -> Seq(1 .. MaxEvents)]
  /\ replayed \in [Clients -> SUBSET (1 .. MaxEvents)]
  /\ \A c \in Clients : Len(queue[c]) <= QueueSize

(* A queue holds published events in order, the end last and once.            *)
QueueOrdered(c) ==
  /\ EndLast(queue[c])
  /\ \A n \in Items(queue[c]) : n = End \/ n \in log \ InFlight
  /\ End \in Items(queue[c]) =>
       writer = "closed" /\ (conn[c] \notin {"ended", "gone"} => c \in subscribers)

(* Before its replay a connection has nothing; its subscription comes first.  *)
Opening(c) ==
  /\ conn[c] \in {"idle", "loaded", "subscribed"} =>
       view[c] = <<>> /\ history[c] = <<>> /\ replayed[c] = {}
  /\ conn[c] \in {"idle", "loaded"} => queue[c] = <<>> /\ c \notin subscribers
  /\ conn[c] \in {"live", "ended"} => history[c] = <<>>

(* The replay is the trace up to an event; what it has yet to yield follows    *)
(* what the client has, and so does what waits in the queue.                  *)
Replaying(c) ==
  /\ replayed[c] \subseteq log
  /\ \A k \in replayed[c], m \in log \ replayed[c] : k < m
  /\ Ascending(history[c]) /\ Items(history[c]) \subseteq replayed[c]
  /\ replayed[c] \subseteq Items(view[c]) \cup Items(history[c])
  /\ \A h \in Items(history[c]), r \in Items(view[c]) : r < h
Viewed(c) ==
  /\ Ascending(view[c])
  /\ Items(view[c]) \subseteq replayed[c] \cup (log \ InFlight)
  /\ conn[c] = "replaying" => Items(view[c]) \subseteq replayed[c]
  /\ \A n \in Items(queue[c]) \ replayed[c], r \in Items(view[c]) : n # End => r < n

(* Every committed event has its place, unless it came after the bus dropped   *)
(* the connection.                                                         *)
Placed(c) ==
  conn[c] \in {"replaying", "live"} =>
    \A m \in log \ torn :
      \/ m \in replayed[c] \cup Items(view[c]) \cup Items(queue[c]) \cup InFlight
      \/ c \notin subscribers /\ \A n \in Items(queue[c]) : n < m

(* A run that was terminal when it was loaded is replayed in full, and a        *)
(* stream that ended has it.                                                *)
Closing(c) ==
  /\ terminal[c] => status = "terminal"
  /\ terminal[c] /\ conn[c] \in {"replaying", "live"} => early \subseteq replayed[c]
  /\ conn[c] = "ended" => /\ early \ torn \subseteq Items(view[c])
                          /\ status = "terminal" \/ writer = "closed"

Streaming(c) ==
  QueueOrdered(c) /\ Opening(c) /\ Replaying(c) /\ Viewed(c) /\ Placed(c) /\ Closing(c)
SInv == Typed /\ \A c \in Clients : Streaming(c)
LEMMA InitSInv == Init => SInv
<1> SUFFICES ASSUME Init PROVE SInv
  OBVIOUS
<1>1. \A T : <<>> \in Seq(T) /\ Len(<<>>) = 0
  BY EmptySeq
<1>2. Items(<<>>) = {} /\ Ascending(<<>>)
  BY DEF Items, Ascending
<1>3. Typed
  <2>1. seq \in 0 .. MaxEvents /\ \A c \in Clients : Len(queue[c]) <= QueueSize
    BY <1>1, QueueAssumption, EventsAssumption DEF Init
  <2>2. InFlight = {}
    BY DEF Init, InFlight
  <2> QED
    BY <1>1, <2>1, <2>2 DEF Init, Typed, WriterStates, ConnStates
<1>4. ASSUME NEW c \in Clients PROVE Streaming(c)
  <2>1. /\ queue[c] = <<>> /\ view[c] = <<>> /\ history[c] = <<>> /\ replayed[c] = {}
        /\ conn[c] = "idle" /\ terminal[c] = FALSE /\ subscribers = {}
    BY DEF Init
  <2>2. QueueOrdered(c)
    BY <1>2, <2>1 DEF QueueOrdered, EndLast
  <2>3. Opening(c) /\ Placed(c) /\ Closing(c)
    BY <2>1 DEF Opening, Placed, Closing
  <2>4. Replaying(c) /\ Viewed(c)
    BY <1>2, <2>1 DEF Replaying, Viewed
  <2> QED
    BY <2>2, <2>3, <2>4 DEF Streaming
<1> QED
  BY <1>3, <1>4 DEF SInv

LEMMA ClientSequences ==
  ASSUME Typed, NEW c \in Clients
  PROVE  queue[c] \in Seq(Nat) /\ history[c] \in Seq(Nat) /\ view[c] \in Seq(Nat)
<1>1. 0 .. MaxEvents \subseteq Nat /\ 1 .. MaxEvents \subseteq Nat
  BY EventsAssumption
<1>2. /\ queue[c] \in Seq(0 .. MaxEvents)
      /\ history[c] \in Seq(1 .. MaxEvents) /\ view[c] \in Seq(1 .. MaxEvents)
  BY DEF Typed
<1> QED
  BY <1>1, <1>2, SeqMonotonic

LEMMA EnqueueType ==
  ASSUME Typed, NEW n \in 0 .. MaxEvents, Enqueue(n)
  PROVE  /\ queue' \in [Clients -> Seq(0 .. MaxEvents)]
         /\ \A c \in Clients : Len(queue'[c]) <= QueueSize
<1>1. ASSUME NEW c \in Clients
      PROVE  /\ queue'[c] = IF c \in subscribers /\ ~Full(c) THEN Append(queue[c], n) ELSE queue[c]
             /\ queue[c] \in Seq(0 .. MaxEvents) /\ Len(queue[c]) <= QueueSize
  BY DEF Enqueue, Typed
<1>2. ASSUME NEW c \in Clients
      PROVE  queue'[c] \in Seq(0 .. MaxEvents) /\ Len(queue'[c]) <= QueueSize
  <2>1. Append(queue[c], n) \in Seq(0 .. MaxEvents) /\ Len(Append(queue[c], n)) = Len(queue[c]) + 1
    BY <1>1, AppendItems
  <2>2. Len(queue[c]) \in Nat
    BY <1>1, LenProperties
  <2>3. ~Full(c) => Len(queue[c]) + 1 <= QueueSize
    BY <1>1, <2>2, QueueAssumption DEF Full
  <2>4. CASE c \in subscribers /\ ~Full(c)
    <3>1. queue'[c] = Append(queue[c], n)
      BY <1>1, <2>4
    <3> QED
      BY <2>1, <2>3, <2>4, <3>1
  <2> QED
    BY <1>1, <2>4
<1>3. queue' = [c \in Clients |-> queue'[c]]
  BY DEF Enqueue
<1> QED
  BY <1>2, <1>3

LEMMA StepTyped == SInv /\ [Next]_vars => Typed'
<1> SUFFICES ASSUME SInv, [Next]_vars PROVE Typed'
  OBVIOUS
<1>a. Typed /\ \A c \in Clients : Streaming(c)
  BY DEF SInv
<1>b. MaxEvents \in Nat \ {0} /\ seq \in Nat /\ 0 \in 0 .. MaxEvents
  BY <1>a, EventsAssumption DEF Typed
<1> USE DEF runVars, busVars, connVars
<1>1. CASE UNCHANGED vars
  BY <1>1, <1>a DEF vars, Typed, InFlight
<1>2. CASE Emit
  <2>1. /\ seq' = seq + 1 /\ seq < MaxEvents /\ log' = log \cup {seq'}
        /\ early' \subseteq early \cup {seq'} /\ writer' \in WriterStates
        /\ UNCHANGED <<status, torn, busVars, connVars, cut>>
    BY <1>2 DEF Emit, Persist, Commit, Number, WriterStates
  <2>2. seq' \in 0 .. MaxEvents /\ log' \subseteq 1 .. seq'
    BY <1>a, <1>b, <2>1 DEF Typed
  <2>3. InFlight' \subseteq log' /\ torn' \subseteq log' /\ early' \subseteq log'
    BY <1>a, <2>1 DEF InFlight, Typed
  <2> QED
    BY <1>a, <2>1, <2>2, <2>3 DEF Typed
<1>3. CASE EmitFails
  <2>1. /\ seq' = seq + 1 /\ seq < MaxEvents /\ writer' \in WriterStates /\ InFlight' = {}
        /\ \/ UNCHANGED <<log, torn, early>>
           \/ /\ log' = log \cup {seq'} /\ torn' = torn \cup {seq'}
              /\ early' \subseteq early \cup {seq'}
        /\ UNCHANGED <<status, busVars, connVars, cut>>
    BY <1>3 DEF EmitFails, Commit, Number, WriterStates, InFlight
  <2>2. seq' \in 0 .. MaxEvents /\ log' \subseteq 1 .. seq'
    <3>1. seq' \in 0 .. MaxEvents
      BY <1>a, <1>b, <2>1 DEF Typed
    <3>2. log \cup {seq'} \subseteq 1 .. seq'
      BY <1>a, <1>b, <2>1 DEF Typed
    <3>3. log' \subseteq log \cup {seq'}
      BY <2>1
    <3> QED
      BY <3>1, <3>2, <3>3
  <2>3. torn' \subseteq log' /\ early' \subseteq log' /\ InFlight' \subseteq log'
    BY <1>a, <2>1 DEF Typed
  <2> QED
    BY <1>a, <2>1, <2>2, <2>3 DEF Typed
<1>4. CASE Publish \/ Close
  <2>1. PICK n \in 0 .. MaxEvents : Enqueue(n)
    BY <1>4, <1>a, <1>b DEF Publish, Close, End, Typed
  <2>2. /\ queue' \in [Clients -> Seq(0 .. MaxEvents)]
        /\ \A c \in Clients : Len(queue'[c]) <= QueueSize
    BY <1>a, <2>1, EnqueueType
  <2>3. writer' \in WriterStates /\ InFlight' = {} /\ subscribers' \subseteq subscribers
    BY <1>4 DEF Publish, Close, WriterStates, InFlight
  <2>4. cut' \subseteq Clients
    BY <1>4, <1>a DEF Publish, Close, Dropped, Typed
  <2>5. UNCHANGED <<status, seq, log, torn, early, connVars>>
    BY <1>4 DEF Publish, Close
  <2> QED
    BY <1>a, <2>2, <2>3, <2>4, <2>5 DEF Typed
<1>5. CASE Interrupted \/ Raise \/ SetTerminal \/ SettleFails \/ CloseSkipped
  <2>1. /\ writer' \in WriterStates /\ InFlight' = {} /\ status' \in {"running", "terminal"}
        /\ UNCHANGED <<seq, log, early, busVars, connVars>>
    BY <1>5, <1>a DEF Interrupted, Raise, SetTerminal, SettleFails, CloseSkipped,
                      WriterStates, InFlight, Typed
  <2>2. torn' \subseteq log
    BY <1>5, <1>a DEF Interrupted, Raise, SetTerminal, SettleFails, CloseSkipped, InFlight, Typed
  <2>3. cut' \subseteq Clients
    BY <1>5, <1>a DEF Interrupted, Raise, SetTerminal, SettleFails, CloseSkipped, Typed
  <2> QED
    BY <1>a, <2>1, <2>2, <2>3 DEF Typed
<1>6. ASSUME NEW c \in Clients, Load(c) \/ Subscribe(c) PROVE Typed'
  BY <1>6, <1>a DEF Load, Subscribe, Typed, ConnStates, InFlight
<1>7. ASSUME NEW c \in Clients, ReadHistory(c) PROVE Typed'
  <2>1. /\ log \in SUBSET (1 .. MaxEvents)
    BY <1>a, <1>b DEF Typed
  <2>2. Sorted(log) \in Seq(1 .. MaxEvents)
    BY <1>b, <2>1, SortedItems, SeqMonotonic
  <2> QED
    BY <1>7, <1>a, <2>1, <2>2 DEF ReadHistory, Trace, Typed, ConnStates, InFlight
<1>8. ASSUME NEW c \in Clients, Replay(c) PROVE Typed'
  <2>1. /\ Head(history[c]) \in 1 .. MaxEvents /\ Tail(history[c]) \in Seq(1 .. MaxEvents)
    BY <1>8, <1>a, HeadTailProperties DEF Replay, Typed
  <2>2. Append(view[c], Head(history[c])) \in Seq(1 .. MaxEvents)
    BY <1>a, <2>1, AppendItems DEF Typed
  <2> QED
    BY <1>8, <1>a, <2>1, <2>2 DEF Replay, Typed, InFlight
<1>9. ASSUME NEW c \in Clients, Follow(c) \/ Disconnect(c) PROVE Typed'
  <2>1. conn' \in [Clients -> ConnStates] /\ subscribers' \subseteq subscribers
    BY <1>9, <1>a DEF Follow, Disconnect, Leave, Typed, ConnStates
  <2>2. UNCHANGED <<runVars, queue, terminal, history, replayed, view, cut>>
    BY <1>9 DEF Follow, Disconnect
  <2> QED
    BY <1>a, <2>1, <2>2 DEF Typed, InFlight, runVars
<1>10. ASSUME NEW c \in Clients, Take(c) PROVE Typed'
  <2>1. /\ Head(queue[c]) \in 0 .. MaxEvents /\ Tail(queue[c]) \in Seq(0 .. MaxEvents)
        /\ Len(Tail(queue[c])) <= QueueSize
    <3>1. queue[c] \in Seq(0 .. MaxEvents) /\ queue[c] # <<>> /\ Len(queue[c]) <= QueueSize
      BY <1>10, <1>a DEF Take, Typed
    <3>2. /\ Head(queue[c]) \in 0 .. MaxEvents /\ Tail(queue[c]) \in Seq(0 .. MaxEvents)
          /\ Len(Tail(queue[c])) = Len(queue[c]) - 1 /\ Len(queue[c]) \in Nat
      BY <3>1, HeadTailProperties, LenProperties
    <3>3. Len(queue[c]) - 1 <= QueueSize
      BY <3>1, <3>2, QueueAssumption
    <3> QED
      BY <3>2, <3>3
  <2>2. Head(queue[c]) # End => Append(view[c], Head(queue[c])) \in Seq(1 .. MaxEvents)
    <3>1. Head(queue[c]) # End => Head(queue[c]) \in 1 .. MaxEvents
      BY <2>1, <1>b DEF End
    <3> QED
      BY <1>a, <3>1, AppendItems DEF Typed
  <2>3. view' \in [Clients -> Seq(1 .. MaxEvents)]
    BY <1>10, <1>a, <2>2 DEF Take, Typed
  <2>4. conn' \in [Clients -> ConnStates] /\ subscribers' \subseteq subscribers
    BY <1>10, <1>a DEF Take, Leave, Typed, ConnStates
  <2>5. /\ queue' \in [Clients -> Seq(0 .. MaxEvents)]
        /\ \A d \in Clients : Len(queue'[d]) <= QueueSize
    BY <1>10, <1>a, <2>1 DEF Take, Typed
  <2> QED
    BY <1>10, <1>a, <2>3, <2>4, <2>5 DEF Take, Typed, InFlight
<1> QED
  BY <1>1, <1>2, <1>3, <1>4, <1>5, <1>6, <1>7, <1>8, <1>9, <1>10 DEF Next, Writer, Serve
-----------------------------------------------------------------------------
(* Steps that leave a connection alone.                                      *)

Kept(c) ==
  /\ queue'[c] = queue[c] /\ conn'[c] = conn[c] /\ terminal'[c] = terminal[c]
  /\ history'[c] = history[c] /\ replayed'[c] = replayed[c] /\ view'[c] = view[c]
  /\ c \in subscribers' <=> c \in subscribers

(* The writer's progress: a new event is later than all others and in flight   *)
(* or torn; one that is no longer in flight is published or torn.             *)
Progress ==
  /\ log \subseteq log' /\ torn \subseteq torn' /\ early \subseteq early'
  /\ \A m \in log' \ log : m \in InFlight' \cup torn' /\ \A k \in log : k < m
  /\ InFlight' \cap log \subseteq InFlight
  /\ InFlight \subseteq InFlight' \cup torn'
  /\ writer = "closed" => writer' = "closed" /\ early' = early
  /\ status = "terminal" => status' = "terminal" /\ early' = early

LEMMA KeptStreaming ==
  ASSUME NEW c \in Clients, Typed, Streaming(c), Kept(c), Progress
  PROVE  Streaming(c)'
<1> USE DEF Streaming, Kept, Progress
<1>1. QueueOrdered(c)'
  BY DEF QueueOrdered
<1>2. Opening(c)'
  BY DEF Opening
<1>3. Replaying(c)'
  BY DEF Replaying
<1>4. Viewed(c)'
  BY DEF Viewed
<1>5. Placed(c)'
  BY DEF Placed
<1>6. Closing(c)'
  BY DEF Closing
<1> QED
  BY <1>1, <1>2, <1>3, <1>4, <1>5, <1>6

(* The steps of the writer that neither publish nor close.                    *)
LEMMA WriterProgress ==
  ASSUME Typed, \/ Emit \/ EmitFails \/ Interrupted \/ Raise \/ SetTerminal
                \/ SettleFails \/ CloseSkipped \/ UNCHANGED runVars
  PROVE  Progress
<1>1. ASSUME Number, Commit, InFlight = {}, InFlight' \subseteq {seq'},
             writer # "closed", status' = status, torn \subseteq torn',
             seq' \in InFlight' \cup torn'
      PROVE  Progress
  <2>1. /\ seq' = seq + 1 /\ log' = log \cup {seq'}
        /\ early' = IF status = "running" THEN early \cup {seq'} ELSE early
    BY <1>1 DEF Commit, Number
  <2>2. seq \in Nat /\ log \subseteq 1 .. seq
    BY DEF Typed
  <2>3. ASSUME NEW k \in log PROVE k < seq'
    <3>1. k \in 1 .. seq
      BY <2>2
    <3> QED
      BY <2>1, <2>2, <3>1
  <2>4. seq' \notin log
    <3>1. ~(seq' < seq')
      BY <2>1, <2>2
    <3> QED
      BY <2>3, <3>1
  <2> QED
    BY <1>1, <2>1, <2>3, <2>4 DEF Progress
<1>2. CASE Emit
  <2>1. /\ Number /\ Commit /\ torn' = torn /\ status' = status
        /\ InFlight = {} /\ InFlight' = {seq'} /\ writer # "closed"
    BY <1>2 DEF Emit, Persist, InFlight
  <2> QED
    BY <1>1, <2>1
<1>3. CASE EmitFails /\ Commit
  <2>1. /\ Number /\ (torn' = torn \cup {seq'} \/ log' = log)
        /\ status' = status /\ torn \subseteq torn'
        /\ InFlight = {} /\ InFlight' = {} /\ writer # "closed"
    BY <1>3 DEF EmitFails, InFlight
  <2>2. Number /\ log' = log \cup {seq'} /\ seq' = seq + 1
    BY <1>3 DEF EmitFails, Commit, Number
  <2>3. log' # log
    <3>1. seq \in Nat /\ log \subseteq 1 .. seq
      BY DEF Typed
    <3>2. seq + 1 \notin 1 .. seq
      BY <3>1
    <3> QED
      BY <2>2, <3>1, <3>2
  <2> QED
    BY <1>1, <1>3, <2>1, <2>2, <2>3
<1>4. CASE \/ (EmitFails /\ UNCHANGED <<log, torn, early>>)
           \/ Interrupted \/ Raise \/ SetTerminal
           \/ SettleFails \/ CloseSkipped \/ UNCHANGED runVars
  <2>1. /\ log' = log /\ early' = early /\ torn \subseteq torn'
        /\ status = "terminal" => status' = "terminal"
        /\ writer = "closed" => writer' = "closed"
    BY <1>4 DEF EmitFails, Interrupted, Raise, SetTerminal, SettleFails, CloseSkipped, runVars
  <2>2. InFlight' \subseteq InFlight /\ InFlight \subseteq InFlight' \cup torn'
    BY <1>4 DEF EmitFails, Interrupted, Raise, SetTerminal, SettleFails, CloseSkipped,
                runVars, InFlight
  <2> QED
    BY <2>1, <2>2 DEF Progress
<1> QED
  BY <1>2, <1>3, <1>4 DEF EmitFails

-----------------------------------------------------------------------------
(* Publication and close.                                                    *)

LEMMA PublishStreaming ==
  ASSUME NEW c \in Clients, Typed, Streaming(c), Publish
  PROVE  Streaming(c)'
<1>1. /\ InFlight = {seq} /\ InFlight' = {} /\ writer # "closed" /\ writer' # "closed"
      /\ UNCHANGED <<status, seq, log, torn, early, conn, terminal, history, replayed, view>>
      /\ subscribers' = subscribers \ Dropped
      /\ queue'[c] = IF c \in subscribers /\ ~Full(c) THEN Append(queue[c], seq) ELSE queue[c]
  BY DEF Publish, Enqueue, InFlight, connVars
<1>2. seq \in log /\ seq \in 1 .. MaxEvents /\ log \subseteq 1 .. seq /\ seq \in Nat
  BY <1>1, EventsAssumption DEF Typed
<1>3. queue[c] \in Seq(Nat) /\ seq \in Nat
  BY <1>2, ClientSequences
<1>4. End \notin Items(queue[c]) /\ \A n \in Items(queue[c]) : n \in log /\ n # seq /\ n < seq
  <2>1. \A n \in Items(queue[c]) : n # End /\ n \in log /\ n # seq
    BY <1>1 DEF Streaming, QueueOrdered
  <2>2. ASSUME NEW n \in Items(queue[c]) PROVE n < seq
    <3>1. n \in 1 .. seq /\ n # seq
      BY <1>2, <2>1
    <3> QED
      BY <1>2, <3>1
  <2> QED
    BY <2>1, <2>2
<1>5. Opening(c)'
  BY <1>1 DEF Streaming, Opening
<1>6. Replaying(c)'
  BY <1>1 DEF Streaming, Replaying
<1>7. Closing(c)'
  BY <1>1 DEF Streaming, Closing
<1>8. CASE c \in subscribers /\ ~Full(c)
  <2>1. queue'[c] = Append(queue[c], seq) /\ c \in subscribers'
    BY <1>1, <1>8 DEF Dropped
  <2>2. Items(queue'[c]) = Items(queue[c]) \cup {seq}
    BY <1>3, <2>1, AppendItems
  <2>3. EndLast(queue'[c])
    BY <1>3, <1>4, <2>1, AppendEndLast DEF Streaming, QueueOrdered
  <2>4. QueueOrdered(c)'
    BY <1>1, <1>2, <1>4, <2>2, <2>3 DEF QueueOrdered, End
  <2>5. ASSUME seq \notin replayed[c], NEW r \in Items(view[c]) PROVE r < seq
    <3>1. r \in replayed[c] \/ r \in log \ {seq}
      BY <1>1 DEF Streaming, Viewed
    <3>2. r \in replayed[c] => r < seq
      BY <1>2, <2>5 DEF Streaming, Replaying
    <3>3. r \in log \ {seq} => r < seq
      BY <1>2
    <3> QED
      BY <3>1, <3>2, <3>3
  <2>6. Viewed(c)'
    BY <1>1, <2>2, <2>5 DEF Streaming, Viewed
  <2>7. Placed(c)'
    BY <1>1, <1>8, <2>1, <2>2 DEF Streaming, Placed
  <2> QED
    BY <1>5, <1>6, <1>7, <2>4, <2>6, <2>7 DEF Streaming
<1>9. CASE ~(c \in subscribers /\ ~Full(c))
  <2>1. queue'[c] = queue[c] /\ c \notin subscribers'
    BY <1>1, <1>9 DEF Dropped
  <2>2. QueueOrdered(c)' /\ Viewed(c)'
    BY <1>1, <1>4, <2>1 DEF Streaming, QueueOrdered, Viewed
  <2>3. Placed(c)'
    BY <1>1, <1>4, <2>1 DEF Streaming, Placed
  <2> QED
    BY <1>5, <1>6, <1>7, <2>2, <2>3 DEF Streaming
<1> QED
  BY <1>8, <1>9

LEMMA CloseStreaming ==
  ASSUME NEW c \in Clients, Typed, Streaming(c), Close
  PROVE  Streaming(c)'
<1>1. /\ InFlight = {} /\ InFlight' = {} /\ writer # "closed" /\ writer' = "closed"
      /\ UNCHANGED <<status, log, torn, early, subscribers, conn, terminal, history, replayed, view>>
      /\ queue'[c] = IF c \in subscribers /\ ~Full(c) THEN Append(queue[c], End) ELSE queue[c]
  BY DEF Close, Enqueue, InFlight, connVars
<1>2. queue[c] \in Seq(Nat) /\ End \in Nat
  BY ClientSequences DEF End
<1>3. End \notin Items(queue[c])
  BY <1>1 DEF Streaming, QueueOrdered
<1>4. CASE queue'[c] = queue[c]
  <2>1. Kept(c) /\ Progress
    BY <1>1, <1>4 DEF Kept, Progress
  <2> QED
    BY <2>1, KeptStreaming
<1>5. CASE c \in subscribers /\ queue'[c] = Append(queue[c], End)
  <2>1. Items(queue'[c]) = Items(queue[c]) \cup {End}
    BY <1>2, <1>5, AppendItems
  <2>2. EndLast(queue'[c])
    BY <1>2, <1>3, <1>5, AppendEndLast DEF Streaming, QueueOrdered
  <2>4. QueueOrdered(c)'
    BY <1>1, <1>5, <2>1, <2>2 DEF Streaming, QueueOrdered
  <2>5. Opening(c)' /\ Replaying(c)'
    BY <1>1, <1>5 DEF Streaming, Opening, Replaying
  <2>6. Viewed(c)' /\ Closing(c)'
    BY <1>1, <2>1 DEF Streaming, Viewed, Closing
  <2>7. Placed(c)'
    BY <1>1, <1>5, <2>1 DEF Streaming, Placed
  <2> QED
    BY <2>4, <2>5, <2>6, <2>7 DEF Streaming
<1> QED
  BY <1>1, <1>4, <1>5
-----------------------------------------------------------------------------
(* The steps of a connection.                                                *)

LEMMA OpenStreaming ==
  ASSUME NEW c \in Clients, Typed, Streaming(c), Load(c) \/ Subscribe(c)
  PROVE  Streaming(c)'
<1>1. /\ queue'[c] = queue[c] /\ UNCHANGED <<runVars, history, replayed, view>>
      /\ conn[c] \in {"idle", "loaded"} /\ conn'[c] \in {"loaded", "subscribed"}
      /\ conn'[c] = "loaded" => subscribers' = subscribers
      /\ c \in subscribers => c \in subscribers'
      /\ terminal'[c] => status = "terminal"
  BY DEF Load, Subscribe, Typed, busVars, Streaming, Closing
<1>2. InFlight' = InFlight
  BY <1>1 DEF InFlight, runVars
<1>3. queue[c] = <<>> /\ Items(<<>>) = {} /\ EndLast(<<>>)
  BY <1>1 DEF Streaming, Opening, Items, EndLast
<1>4. QueueOrdered(c)' /\ Viewed(c)'
  BY <1>1, <1>2, <1>3 DEF Streaming, QueueOrdered, Viewed, runVars
<1>5. Opening(c)' /\ Replaying(c)'
  BY <1>1 DEF Streaming, Opening, Replaying, runVars
<1>6. Placed(c)' /\ Closing(c)'
  BY <1>1 DEF Placed, Closing, runVars
<1> QED
  BY <1>4, <1>5, <1>6 DEF Streaming

LEMMA ReadHistoryStreaming ==
  ASSUME NEW c \in Clients, Typed, Streaming(c), ReadHistory(c)
  PROVE  Streaming(c)'
<1>1. /\ UNCHANGED <<runVars, busVars, terminal, view>>
      /\ conn[c] = "subscribed" /\ conn'[c] = "replaying"
      /\ history'[c] = Sorted(log) /\ replayed'[c] = log
  BY DEF ReadHistory, Trace, Typed
<1>2. InFlight' = InFlight
  BY <1>1 DEF InFlight, runVars
<1>3. Ascending(Sorted(log)) /\ Items(Sorted(log)) = log
  <2>1. seq \in Nat /\ log \in SUBSET (1 .. seq)
    BY EventsAssumption DEF Typed
  <2> QED
    BY <2>1, SortedItems
<1>4. view[c] = <<>> /\ Items(<<>>) = {} /\ Ascending(<<>>)
  BY <1>1 DEF Streaming, Opening, Items, Ascending
<1>5. QueueOrdered(c)' /\ Opening(c)'
  BY <1>1, <1>2 DEF Streaming, QueueOrdered, Opening, runVars, busVars
<1>6. Replaying(c)' /\ Viewed(c)' /\ Placed(c)'
  BY <1>1, <1>3, <1>4 DEF Replaying, Viewed, Placed, runVars
<1>7. Closing(c)'
  BY <1>1 DEF Streaming, Closing, runVars, Typed
<1> QED
  BY <1>5, <1>6, <1>7 DEF Streaming

LEMMA ReplayStreaming ==
  ASSUME NEW c \in Clients, Typed, Streaming(c), Replay(c)
  PROVE  Streaming(c)'
<1> DEFINE h == Head(history[c])
<1>1. /\ UNCHANGED <<runVars, busVars, conn, terminal, replayed>>
      /\ conn[c] = "replaying" /\ history[c] # <<>>
      /\ view'[c] = Append(view[c], h) /\ history'[c] = Tail(history[c])
  BY DEF Replay, Typed
<1>2. InFlight' = InFlight
  BY <1>1 DEF InFlight, runVars
<1>3. history[c] \in Seq(Nat) /\ view[c] \in Seq(Nat)
  BY ClientSequences
<1>4. h \in Nat /\ Items(history[c]) = {h} \cup Items(history'[c])
  BY <1>1, <1>3, TailItems
<1>5. Items(view'[c]) = Items(view[c]) \cup {h}
  BY <1>1, <1>3, <1>4, AppendItems
<1>6. Ascending(history'[c]) /\ \A n \in Items(history'[c]) : h < n
  BY <1>1, <1>3, TailAscending DEF Streaming, Replaying
<1>7. h \in replayed[c] /\ \A r \in Items(view[c]) : r < h
  BY <1>4 DEF Streaming, Replaying
<1>8. Ascending(view'[c])
  BY <1>1, <1>3, <1>4, <1>7, AppendAscending DEF Streaming, Viewed
<1> HIDE DEF h
<1>9. QueueOrdered(c)' /\ Opening(c)' /\ Closing(c)'
  BY <1>1, <1>2 DEF Streaming, QueueOrdered, Opening, Closing, runVars, busVars
<1>10. Replaying(c)'
  BY <1>1, <1>4, <1>5, <1>6, <1>7 DEF Streaming, Replaying, runVars
<1>11. Viewed(c)'
  <2>1. ASSUME NEW n \in Items(queue[c]) \ replayed[c], n # End PROVE h < n
    <3>1. n \in log \ replayed[c]
      BY <2>1 DEF Streaming, QueueOrdered
    <3> QED
      BY <1>7, <3>1 DEF Streaming, Replaying
  <2>2. Items(view'[c]) \subseteq replayed[c]
    BY <1>1, <1>5, <1>7 DEF Streaming, Viewed
  <2>3. queue' = queue /\ replayed' = replayed
    BY <1>1 DEF busVars
  <2>4. ASSUME NEW n \in Items(queue[c]) \ replayed[c], NEW r \in Items(view'[c]), n # End
        PROVE  r < n
    BY <1>5, <2>1, <2>4 DEF Streaming, Viewed
  <2> QED
    BY <1>8, <2>2, <2>3, <2>4 DEF Viewed
<1>12. Placed(c)'
  BY <1>1, <1>2, <1>5 DEF Streaming, Placed, runVars, busVars
<1> QED
  BY <1>9, <1>10, <1>11, <1>12 DEF Streaming

LEMMA FollowStreaming ==
  ASSUME NEW c \in Clients, Typed, Streaming(c), Follow(c) \/ Disconnect(c)
  PROVE  Streaming(c)'
<1>1. /\ UNCHANGED <<runVars, queue, terminal, history, replayed, view>>
      /\ conn[c] \in {"replaying", "live"}
      /\ \/ conn'[c] = "live" /\ subscribers' = subscribers /\ history[c] = <<>>
         \/ conn'[c] = "ended" /\ terminal[c] /\ history[c] = <<>>
         \/ conn'[c] = "gone"
  BY DEF Follow, Disconnect, Leave, Finished, Typed
<1>2. InFlight' = InFlight
  BY <1>1 DEF InFlight, runVars
<1>3. history[c] = <<>> => replayed[c] \subseteq Items(view[c])
  BY DEF Streaming, Replaying, Items
<1>4. QueueOrdered(c)' /\ Opening(c)'
  BY <1>1, <1>2 DEF Streaming, QueueOrdered, Opening, runVars
<1>5. Replaying(c)' /\ Viewed(c)'
  BY <1>1, <1>2 DEF Streaming, Replaying, Viewed, runVars
<1>6. Placed(c)' /\ Closing(c)'
  BY <1>1, <1>2, <1>3 DEF Streaming, Placed, Closing, runVars
<1> QED
  BY <1>4, <1>5, <1>6 DEF Streaming

(* What Take reads of the queue.                                             *)
LEMMA TakeFacts ==
  ASSUME NEW c \in Clients, Typed, Streaming(c), Take(c)
  PROVE  /\ UNCHANGED <<runVars, terminal, history, replayed>> /\ InFlight' = InFlight
         /\ conn[c] = "live" /\ history[c] = <<>> /\ replayed[c] \subseteq Items(view[c])
         /\ queue'[c] = Tail(queue[c]) /\ EndLast(queue'[c])
         /\ Head(queue[c]) \in Nat /\ view[c] \in Seq(Nat)
         /\ Items(queue[c]) = {Head(queue[c])} \cup Items(queue'[c])
         /\ Head(queue[c]) = End => Items(queue'[c]) = {}
         /\ Head(queue[c]) # End => \A n \in Items(queue'[c]) : n = End \/ Head(queue[c]) < n
<1>1. /\ UNCHANGED <<runVars, terminal, history, replayed>>
      /\ conn[c] = "live" /\ queue[c] # <<>> /\ queue'[c] = Tail(queue[c])
  BY DEF Take, Typed
<1>2. InFlight' = InFlight
  BY <1>1 DEF InFlight, runVars
<1>3. history[c] = <<>> /\ replayed[c] \subseteq Items(view[c])
  BY <1>1 DEF Streaming, Opening, Replaying, Items
<1>4. queue[c] \in Seq(Nat) /\ view[c] \in Seq(Nat) /\ EndLast(queue[c])
  BY ClientSequences DEF Streaming, QueueOrdered
<1>5. Head(queue[c]) \in Nat /\ Items(queue[c]) = {Head(queue[c])} \cup Items(queue'[c])
  BY <1>1, <1>4, TailItems
<1>6. /\ EndLast(queue'[c])
      /\ Head(queue[c]) = End => Items(queue'[c]) = {}
      /\ Head(queue[c]) # End => \A n \in Items(queue'[c]) : n = End \/ Head(queue[c]) < n
  BY <1>1, <1>4, TailEndLast
<1> QED
  BY <1>1, <1>2, <1>3, <1>4, <1>5, <1>6

LEMMA TakeStreaming ==
  ASSUME NEW c \in Clients, Typed, Streaming(c), Take(c)
  PROVE  Streaming(c)'
<1> DEFINE n == Head(queue[c])
<1>1. /\ UNCHANGED <<runVars, terminal, history, replayed>> /\ InFlight' = InFlight
      /\ conn[c] = "live" /\ history[c] = <<>> /\ replayed[c] \subseteq Items(view[c])
      /\ EndLast(queue'[c]) /\ n \in Nat /\ view[c] \in Seq(Nat)
      /\ Items(queue[c]) = {n} \cup Items(queue'[c])
      /\ n = End => Items(queue'[c]) = {}
      /\ n # End => \A k \in Items(queue'[c]) : k = End \/ n < k
  BY TakeFacts
<1>2. /\ n = End => conn'[c] = "ended" /\ view'[c] = view[c] /\ subscribers' \subseteq subscribers
      /\ n # End => conn' = conn /\ subscribers' = subscribers
      /\ n # End => view'[c] = IF n \in replayed[c] THEN view[c] ELSE Append(view[c], n)
  BY DEF Take, Leave, Skips, Typed
<1>3. /\ n \in Items(queue[c])
      /\ n # End => n \in log \ InFlight
      /\ n = End => writer = "closed" /\ c \in subscribers
  BY <1>1 DEF Streaming, QueueOrdered
<1> HIDE DEF n
<1>4. QueueOrdered(c)' /\ Opening(c)'
  BY <1>1, <1>2 DEF Streaming, QueueOrdered, Opening, runVars
<1>5. CASE n = End
  <2>1. Replaying(c)' /\ Viewed(c)' /\ Placed(c)'
    BY <1>1, <1>2, <1>5 DEF Streaming, Replaying, Viewed, Placed, runVars
  <2>2. ASSUME NEW m \in early \ torn PROVE m \in Items(view[c])
    <3>1. m \in log \ torn /\ m # End
      BY <2>2 DEF Typed, End
    <3>2. m \in replayed[c] \cup Items(view[c]) \cup Items(queue[c]) \cup InFlight
      BY <1>1, <1>3, <1>5, <3>1 DEF Streaming, Placed
    <3>3. InFlight = {} /\ Items(queue[c]) = {End}
      BY <1>1, <1>3, <1>5 DEF InFlight
    <3> QED
      BY <1>1, <3>1, <3>2, <3>3
  <2>3. Closing(c)'
    BY <1>1, <1>2, <1>3, <1>5, <2>2 DEF Streaming, Closing, runVars
  <2> QED
    BY <1>4, <2>1, <2>3 DEF Streaming
<1>6. CASE n # End /\ n \in replayed[c]
  <2>1. Replaying(c)' /\ Viewed(c)' /\ Closing(c)'
    BY <1>1, <1>2, <1>6 DEF Streaming, Replaying, Viewed, Closing, runVars
  <2>2. Placed(c)'
    BY <1>1, <1>2, <1>6 DEF Streaming, Placed, runVars
  <2> QED
    BY <1>4, <2>1, <2>2 DEF Streaming
<1>7. CASE n # End /\ n \notin replayed[c]
  <2>1. view'[c] = Append(view[c], n) /\ conn' = conn /\ subscribers' = subscribers
    BY <1>2, <1>7
  <2>2. Items(view'[c]) = Items(view[c]) \cup {n}
    BY <1>1, <2>1, AppendItems
  <2>3. \A r \in Items(view[c]) : r < n
    BY <1>3, <1>7 DEF Streaming, Viewed
  <2>4. Ascending(view'[c])
    BY <1>1, <2>1, <2>3, AppendAscending DEF Streaming, Viewed
  <2>5. Items(<<>>) = {}
    BY DEF Items
  <2>6. Replaying(c)'
    BY <1>1, <2>2, <2>5 DEF Streaming, Replaying, runVars
  <2>7. Viewed(c)'
    <3>1. ASSUME NEW k \in Items(queue'[c]) \ replayed[c], NEW r \in Items(view'[c]), k # End
          PROVE  r < k
      BY <1>1, <1>7, <2>2, <3>1 DEF Streaming, Viewed
    <3> QED
      BY <1>1, <1>3, <1>7, <2>1, <2>2, <2>4, <3>1 DEF Streaming, Viewed, runVars
  <2>8. Placed(c)'
    BY <1>1, <2>1, <2>2 DEF Streaming, Placed, runVars
  <2>9. Closing(c)'
    BY <1>1, <2>1 DEF Streaming, Closing, runVars
  <2> QED
    BY <1>4, <2>6, <2>7, <2>8, <2>9 DEF Streaming
<1> QED
  BY <1>5, <1>6, <1>7

LEMMA StepSInv == SInv /\ [Next]_vars => SInv'
<1> SUFFICES ASSUME SInv, [Next]_vars, NEW c \in Clients PROVE Streaming(c)'
  BY StepTyped DEF SInv
<1>1. Typed /\ Streaming(c)
  BY DEF SInv
<1>2. ASSUME Progress, Kept(c) PROVE Streaming(c)'
  BY <1>1, <1>2, KeptStreaming
<1>3. CASE UNCHANGED vars
  <2>1. Kept(c) /\ UNCHANGED runVars
    BY <1>3 DEF vars, Kept, busVars, connVars
  <2> QED
    BY <1>1, <1>2, <2>1, WriterProgress
<1>4. CASE Emit \/ EmitFails \/ Interrupted \/ Raise \/ SetTerminal \/ SettleFails \/ CloseSkipped
  <2>1. Kept(c)
    BY <1>4 DEF Emit, Persist, Commit, EmitFails, Interrupted, Raise, SetTerminal, SettleFails,
                CloseSkipped, Kept, busVars, connVars
  <2> QED
    BY <1>1, <1>2, <1>4, <2>1, WriterProgress
<1>5. CASE Publish \/ Close
  BY <1>1, <1>5, PublishStreaming, CloseStreaming
<1>6. ASSUME NEW d \in Clients, Load(d) \/ Serve(d) \/ Disconnect(d) PROVE Streaming(c)'
  <2>1. CASE c = d
    BY <1>1, <1>6, <2>1, OpenStreaming, ReadHistoryStreaming, ReplayStreaming,
       FollowStreaming, TakeStreaming DEF Serve
  <2>2. CASE c # d
    <3>1. UNCHANGED runVars
      BY <1>6 DEF Load, Serve, Subscribe, ReadHistory, Replay, Follow, Take, Disconnect
    <3>2. Kept(c)
      BY <1>1, <1>6, <2>2 DEF Load, Serve, Subscribe, ReadHistory, Replay, Follow, Take, Disconnect,
                              Leave, Kept, busVars, Typed
    <3> QED
      BY <1>1, <1>2, <3>1, <3>2, WriterProgress
  <2> QED
    BY <2>1, <2>2
<1> QED
  BY <1>3, <1>4, <1>5, <1>6 DEF Next, Writer

LEMMA SInvariant == Spec => []SInv
BY InitSInv, StepSInv, PTL DEF Spec
-----------------------------------------------------------------------------
(* Theorems.                                                               *)

(* Every variable keeps its type and no queue exceeds QUEUE_MAXSIZE, for any   *)
(* connections and sizes.                                                  *)
THEOREM StreamTypeCorrect == Spec => []TypeOK
<1>1. SInv => TypeOK
  <2>1. \A c \in Clients : SInv => replayed[c] \subseteq log
    BY DEF SInv, Streaming, Replaying
  <2> QED
    BY <2>1 DEF SInv, Typed, TypeOK
<1> QED
  BY <1>1, SInvariant, PTL

(* Whatever the queues drop and whenever a connection opens, one that is live  *)
(* and still subscribed has received or will find every event in its queue    *)
(* (EventBus.publish, stream_events).                                       *)
THEOREM NoEventLost == Spec => []NothingLost
<1>1. ASSUME SInv, NEW c \in Clients, conn[c] = "live", c \in subscribers
      PROVE  log \ torn \subseteq Received(c) \cup Pending(c) \cup InFlight
  <2>1. history[c] = <<>> /\ replayed[c] \subseteq Items(view[c]) \cup Items(history[c])
    BY <1>1 DEF SInv, Streaming, Opening, Replaying
  <2>2. Items(<<>>) = {}
    BY DEF Items
  <2>3. log \ torn \subseteq replayed[c] \cup Items(view[c]) \cup Items(queue[c]) \cup InFlight
    BY <1>1 DEF SInv, Streaming, Placed
  <2> QED
    BY <2>1, <2>2, <2>3 DEF Items, Received, Pending
<1>2. SInv => NothingLost
  BY <1>1 DEF NothingLost
<1> QED
  BY <1>2, SInvariant, PTL

(* No interleaving of close, replay and subscription ends a stream before the  *)
(* client has what was committed when it read the history, and all up to the   *)
(* terminal status that the task was not kept from publishing since.          *)
THEOREM EndAfterTrace == Spec => []EndIsComplete
<1>1. ASSUME SInv, NEW c \in Clients, conn[c] = "ended"
      PROVE  replayed[c] \cup (early \ torn) \subseteq Received(c)
  <2>1. history[c] = <<>> /\ replayed[c] \subseteq Items(view[c]) \cup Items(history[c])
    BY <1>1 DEF SInv, Streaming, Opening, Replaying
  <2>2. Items(<<>>) = {}
    BY DEF Items
  <2>3. early \ torn \subseteq Items(view[c])
    BY <1>1 DEF SInv, Streaming, Closing
  <2> QED
    BY <2>1, <2>2, <2>3 DEF Items, Received
<1>2. SInv => EndIsComplete
  BY <1>1 DEF EndIsComplete
<1> QED
  BY <1>2, SInvariant, PTL

LEMMA AscendingLast ==
  ASSUME NEW s \in Seq(Nat), Ascending(s)
  PROVE  /\ Delivery!Last(s) \in Nat
         /\ \A r \in Items(s) : r <= Delivery!Last(s)
         /\ s # <<>> => Delivery!Last(s) \in Items(s)
<1>1. Len(s) \in Nat /\ DOMAIN s = 1 .. Len(s) /\ (s # <<>> => Len(s) \in 1 .. Len(s))
  BY LenProperties, EmptySeq
<1>2. CASE s = <<>>
  BY <1>2 DEF Items, Delivery!Last
<1>3. CASE s # <<>>
  <2>1. Delivery!Last(s) = s[Len(s)] /\ s[Len(s)] \in Nat
    BY <1>1, <1>3, ElementOfSeq DEF Delivery!Last
  <2>2. ASSUME NEW i \in DOMAIN s PROVE s[i] <= s[Len(s)]
    <3>1. s[i] \in Nat
      BY <1>1, ElementOfSeq
    <3>2. i < Len(s) \/ i = Len(s)
      BY <1>1
    <3> QED
      BY <1>1, <1>3, <2>1, <3>1, <3>2 DEF Ascending
  <2> QED
    BY <1>1, <1>3, <2>1, <2>2 DEF Items
<1> QED
  BY <1>2, <1>3

(* The client receives the event n: none before it is missing.                 *)
LEMMA Delivered ==
  ASSUME SInv, NEW c \in Clients, NEW n \in log, UNCHANGED <<log, torn>>,
         view' = [view EXCEPT ![c] = Append(@, n)],
         \A r \in Items(view[c]) : r < n,
         \A m \in log \ torn : m \in Items(view[c]) \/ n <= m
  PROVE  Delivery!Next
<1>1. view[c] \in Seq(Nat) /\ Ascending(view[c])
  BY ClientSequences DEF SInv, Streaming, Viewed
<1>2. \A m \in log : m \in Nat /\ m > 0
  BY DEF SInv, Typed
<1>3. /\ Delivery!Last(view[c]) \in Nat
      /\ \A r \in Items(view[c]) : r <= Delivery!Last(view[c])
      /\ view[c] # <<>> => Delivery!Last(view[c]) \in Items(view[c])
      /\ view[c] = <<>> => Delivery!Last(view[c]) = 0
  BY <1>1, AscendingLast DEF Delivery!Last
<1>4. n > Delivery!Last(view[c])
  BY <1>2, <1>3
<1>5. ASSUME NEW m \in log, Delivery!Last(view[c]) < m, m < n PROVE m \in torn
  <2>1. m \in Nat /\ n \in Nat
    BY <1>2
  <2>2. m \notin Items(view[c]) /\ ~(n <= m)
    BY <1>3, <1>5, <2>1
  <2> QED
    BY <2>2
<1>6. Delivery!Deliver(c, n)
  BY <1>4, <1>5 DEF Delivery!Deliver
<1> QED
  BY <1>6 DEF Delivery!Next

LEMMA StepDelivers ==
  SInv /\ [Next]_vars => [Delivery!Next]_<<log, torn, view>>
<1> SUFFICES ASSUME SInv, [Next]_vars
             PROVE  Delivery!Next \/ UNCHANGED <<log, torn, view>>
  OBVIOUS
<1>a. Typed /\ \A c \in Clients : Streaming(c)
  BY DEF SInv
<1>1. CASE UNCHANGED vars
  BY <1>1 DEF vars, runVars, connVars
<1>2. CASE Emit \/ (EmitFails /\ Commit)
  <2>1. /\ seq' = seq + 1 /\ log' = log \cup {seq'} /\ view' = view
        /\ torn' \in {torn, torn \cup {seq'}}
    BY <1>2 DEF Emit, EmitFails, Persist, Commit, Number, connVars
  <2>2. seq \in Nat /\ log \subseteq 1 .. seq
    BY <1>a DEF Typed
  <2>3. ASSUME NEW m \in log PROVE m < seq'
    <3>1. m \in 1 .. seq
      BY <2>2
    <3> QED
      BY <2>1, <2>2, <3>1
  <2>4. seq' \in log' \ log
    <3>1. ~(seq' < seq')
      BY <2>1, <2>2
    <3> QED
      BY <2>1, <2>3, <3>1
  <2>5. Delivery!Record(seq')
    BY <2>1, <2>3 DEF Delivery!Record
  <2> QED
    BY <2>4, <2>5 DEF Delivery!Next
<1>3. CASE Interrupted
  <2>1. torn' = torn \cup {seq} /\ seq \in log /\ UNCHANGED <<log, view>>
    BY <1>3, <1>a DEF Interrupted, InFlight, Typed, connVars
  <2>2. CASE seq \in torn
    BY <2>1, <2>2
  <2>3. CASE seq \notin torn
    <3>1. Delivery!Tear(seq) /\ seq \in torn' \ torn
      BY <2>1, <2>3 DEF Delivery!Tear
    <3> QED
      BY <3>1 DEF Delivery!Next
  <2> QED
    BY <2>2, <2>3
<1>4. CASE \/ (EmitFails /\ UNCHANGED <<log, torn, early>>)
           \/ Publish \/ Raise \/ SetTerminal \/ SettleFails \/ Close \/ CloseSkipped
  BY <1>4 DEF EmitFails, Publish, Raise, SetTerminal, SettleFails, Close, CloseSkipped, connVars
<1>5. ASSUME NEW c \in Clients, \/ Load(c) \/ Subscribe(c) \/ ReadHistory(c)
                                \/ Follow(c) \/ Disconnect(c)
      PROVE  UNCHANGED <<log, torn, view>>
  BY <1>5 DEF Load, Subscribe, ReadHistory, Follow, Disconnect, runVars
<1>6. ASSUME NEW c \in Clients, Replay(c) PROVE Delivery!Next
  <2> DEFINE h == Head(history[c])
  <2>1. /\ UNCHANGED <<log, torn>> /\ view' = [view EXCEPT ![c] = Append(@, h)]
        /\ history[c] # <<>>
    BY <1>6 DEF Replay, runVars
  <2>2. history[c] \in Seq(Nat) /\ Ascending(history[c])
    BY <1>a, ClientSequences DEF Streaming, Replaying
  <2>3. /\ Items(history[c]) = {h} \cup Items(Tail(history[c])) /\ h \in Nat
        /\ \A k \in Items(Tail(history[c])) : h < k
    BY <2>1, <2>2, TailItems, TailAscending
  <2> HIDE DEF h
  <2>4. h \in replayed[c] /\ replayed[c] \subseteq log /\ \A r \in Items(view[c]) : r < h
    BY <1>a, <2>3 DEF Streaming, Replaying
  <2>5. ASSUME NEW m \in log, m \notin Items(view[c]) PROVE h <= m
    <3>1. m \in Nat
      BY <1>a DEF Typed
    <3>2. CASE m \in replayed[c]
      <4>1. m \in Items(history[c])
        BY <1>a, <2>5, <3>2 DEF Streaming, Replaying
      <4> QED
        BY <2>3, <3>1, <4>1
    <3>3. CASE m \notin replayed[c]
      <4>1. h < m
        BY <1>a, <2>4, <3>3 DEF Streaming, Replaying
      <4> QED
        BY <2>3, <3>1, <4>1
    <3> QED
      BY <3>2, <3>3
  <2> QED
    BY <2>1, <2>4, <2>5, Delivered
<1>7. ASSUME NEW c \in Clients, Take(c) PROVE Delivery!Next \/ UNCHANGED <<log, torn, view>>
  <2> DEFINE n == Head(queue[c])
  <2>1. /\ UNCHANGED runVars /\ conn[c] = "live" /\ replayed[c] \subseteq Items(view[c])
        /\ n \in Nat /\ Items(queue[c]) = {n} \cup Items(queue'[c])
        /\ n # End => \A k \in Items(queue'[c]) : k = End \/ n < k
    BY <1>7, <1>a, TakeFacts
  <2>2. CASE n = End \/ n \in replayed[c]
    <3>1. view' = view
      BY <1>7, <1>a, <2>2 DEF Take, Skips, Typed
    <3> QED
      BY <2>1, <3>1 DEF runVars
  <2>3. CASE n # End /\ n \notin replayed[c]
    <3>1. view' = [view EXCEPT ![c] = Append(@, n)] /\ UNCHANGED <<log, torn>>
      BY <1>7, <2>1, <2>3 DEF Take, Skips, runVars
    <3> HIDE DEF n
    <3>2. n \in log \ InFlight /\ \A r \in Items(view[c]) : r < n
      BY <1>a, <2>1, <2>3 DEF Streaming, QueueOrdered, Viewed
    <3>3. ASSUME NEW m \in log \ torn, m \notin Items(view[c]) PROVE n <= m
      <4>1. m \in 1 .. seq /\ n \in 1 .. seq /\ seq \in Nat /\ m # End
        BY <1>a, <3>2 DEF Typed, End
      <4>2. CASE m \in Items(queue[c])
        BY <2>1, <2>3, <4>1, <4>2
      <4>3. CASE m \in InFlight
        <5>1. m = seq
          BY <4>3 DEF InFlight
        <5> QED
          BY <4>1, <5>1
      <4>4. CASE \A k \in Items(queue[c]) : k < m
        BY <2>1, <4>1, <4>4
      <4> QED
        BY <1>a, <2>1, <3>3, <4>2, <4>3, <4>4 DEF Streaming, Placed
    <3> QED
      BY <3>1, <3>2, <3>3, Delivered
  <2> QED
    BY <2>2, <2>3
<1>8. CASE EmitFails
  BY <1>2, <1>4, <1>8 DEF EmitFails
<1> QED
  BY <1>1, <1>2, <1>3, <1>4, <1>5, <1>6, <1>7, <1>8 DEF Next, Writer, Serve

(* The replay, the queue and the skipped duplicates implement delivery in       *)
(* order, once and without gaps, for any number of connections and any queue. *)
THEOREM StreamImplementsDelivery == Spec => ImplementsDelivery
<1>1. Init => Delivery!Init
  BY DEF Init, Delivery!Init
<1> QED
  BY <1>1, SInvariant, StepDelivers, PTL DEF Spec, ImplementsDelivery, Delivery!Spec
===============================================================================
