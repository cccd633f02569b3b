-------------------------- MODULE RunLifecycleProofs --------------------------
(***************************************************************************)
(* Safety of RunLifecycle for every set of runs, every number of permits,   *)
(* checkpoints, crashes and failing transactions.                           *)
(***************************************************************************)
EXTENDS RunLifecycle, FiniteSetTheorems, TLAPS

(* A task that exists has a process that is not down, a task at a           *)
(* checkpoint has not passed the last one, and nothing precedes the row.    *)
Placed ==
  \A r \in Runs :
    /\ pc[r] \in InTasksPcs \cup {"submit"} =>
         home[r] \in Replicas /\ mode[home[r]] # "down"
    /\ pc[r] = "check" => stage[r] <= Checkpoints
    /\ pc[r] = "none" <=> row[r] = "none"
    /\ cancelling[r] # NoReplica \/ deleting[r] # NoReplica => row[r] # "none"

(* The part of the state the first invariant is about, but for the permits. *)
Types ==
  /\ row \in [Runs -> RowStates]
  /\ children \in [Runs -> ChildStates]
  /\ mode \in [Replicas -> Modes]
  /\ permits \in [Replicas -> Nat]
  /\ home \in [Runs -> Replicas \cup {NoReplica}]
  /\ pc \in [Runs -> Locations]
  /\ stage \in [Runs -> 1 .. Checkpoints + 1]
  /\ found \in [Runs -> {"unread", "found", "missing"}]
  /\ flagged \subseteq Runs /\ killed \subseteq Runs
  /\ asked \subseteq Runs /\ heard \subseteq Runs
  /\ cancelling \in [Runs -> Replicas \cup {NoReplica}]
  /\ deleting \in [Runs -> Replicas \cup {NoReplica}]
  /\ errors \in 0 .. MaxDbErrors
  /\ stops \in 0 .. MaxStops

TInv == Types /\ Placed

USE DEF Active, Terminal, RowStates, ChildStates, Modes, TryBody, Handlers,
        Finally, Holding, Live, InTasksPcs, Locations

LEMMA WritesType ==
  /\ DOMAIN Writes = {"starting", "persisting", "cancelling", "failing", "interrupted"}
  /\ \A l \in DOMAIN Writes :
       /\ Writes[l] \in {"running"} \cup Terminal
       /\ OnSuccess[l] \in {"working", "final", "cancelNote", "failNote"}
       /\ OnError[l] \in {"failing", "final"}
BY DEF Writes, OnSuccess, OnError

(* The requests keep the types and the placement.                           *)
LEMMA UserTypes ==
  ASSUME TInv, NEW r \in Runs, UserStep(r)
  PROVE  TInv'
<1> USE DEF TInv, Types, Placed
<1>1. CASE \E p \in Replicas : Create(r, p)
  BY <1>1 DEF Create, procVars, userVars
<1>2. CASE \E p \in Replicas : CancelRead(r, p)
  BY <1>2 DEF CancelRead, procVars, taskVars
<1>3. CASE \E p \in Replicas : DeleteRequest(r, p)
  BY <1>3 DEF DeleteRequest, Flag, Reaches, InTasks, procVars, taskVars
<1>4. CASE CancelApply(r)
  BY <1>4, NoReplicaAssumption DEF CancelApply, Flag, Reaches, InTasks, procVars, taskVars
<1>5. CASE DeleteCommit(r)
  BY <1>5 DEF DeleteCommit, procVars, taskVars
<1>6. CASE DeleteAbort(r)
  BY <1>6, SizeAssumption DEF DeleteAbort, Reclaim, procVars, taskVars
<1> QED
  BY <1>1, <1>2, <1>3, <1>4, <1>5, <1>6 DEF UserStep

(* So do the steps of a task.                                               *)
LEMMA TaskTypes ==
  ASSUME TInv, NEW r \in Runs, TaskStep(r)
  PROVE  TInv'
<1> USE SizeAssumption, WritesType
        DEF TInv, Types, Placed, Goto, procVars, taskVars, userVars
<1>1. CASE Submit(r)
  BY <1>1 DEF Submit
<1>2. CASE Start(r)
  BY <1>2 DEF Start
<1>3. CASE ReadRow(r)
  BY <1>3 DEF ReadRow
<1>4. CASE Commit(r)
  BY <1>4 DEF Commit, Applied, AddChildren, Orphaned
<1>5. CASE StaleCommit(r)
  BY <1>5 DEF StaleCommit
<1>6. CASE TxnError(r)
  BY <1>6 DEF TxnError, Applied, AddChildren, Orphaned
<1>7. CASE Work(r)
  BY <1>7 DEF Work, AddChildren, Orphaned
<1>8. CASE WorkRaises(r)
  BY <1>8 DEF WorkRaises, MayAddChildren, AddChildren, Orphaned
<1>9. CASE Check(r)
  BY <1>9 DEF Check, AfterCheck, Cancelled
<1>10. CASE Note(r)
  BY <1>10 DEF Note, AddChildren, Orphaned
<1>11. CASE NoteError(r)
  BY <1>11 DEF NoteError, MayAddChildren, AddChildren, Orphaned
<1>12. CASE Final(r)
  BY <1>12 DEF Final
<1>13. CASE Close(r)
  BY <1>13 DEF Close, Release
<1>14. CASE Reap(r)
  BY <1>14 DEF Reap
<1>15. CASE InterruptBody(r)
  BY <1>15 DEF InterruptBody, MayApply, MayAddChildren, Applied, AddChildren, Orphaned
<1>16. CASE InterruptEdge(r)
  BY <1>16 DEF InterruptEdge, Release
<1> QED
  BY <1>1, <1>2, <1>3, <1>4, <1>5, <1>6, <1>7, <1>8, <1>9, <1>10, <1>11,
     <1>12, <1>13, <1>14, <1>15, <1>16 DEF TaskStep

(* And the steps of a process.                                              *)
LEMMA ProcessTypes ==
  ASSUME TInv, NEW p \in Replicas, ProcessStep(p)
  PROVE  TInv'
<1> USE SizeAssumption DEF TInv, Types, Placed, procVars, taskVars, userVars
<1>1. CASE Shutdown(p)
  BY <1>1 DEF Shutdown, TasksOf
<1>2. CASE CancelTasks(p)
  BY <1>2 DEF CancelTasks, TasksOf
<1>3. ASSUME Vanish(p), UNCHANGED <<row, permits, home, stage, found, asked, heard, errors>>
      PROVE  /\ pc' \in [Runs -> Locations] /\ mode' \in [Replicas -> Modes]
             /\ children' \in [Runs -> ChildStates]
             /\ flagged' \subseteq Runs /\ killed' \subseteq Runs
             /\ cancelling' \in [Runs -> Replicas \cup {NoReplica}]
             /\ deleting' \in [Runs -> Replicas \cup {NoReplica}]
             /\ Placed'
  BY <1>3 DEF Vanish, Reclaim
<1>4. CASE Halt(p)
  BY <1>3, <1>4 DEF Halt
<1>5. CASE Crash(p)
  BY <1>3, <1>5 DEF Crash
<1>6. CASE Restart(p)
  BY <1>6 DEF Restart, Recovered
<1> QED
  BY <1>1, <1>2, <1>4, <1>5, <1>6 DEF ProcessStep

LEMMA TypesHold == Spec => []TInv
<1>1. Init => TInv
  BY SizeAssumption DEF Init, TInv, Types, Placed
<1>2. TInv /\ [Next]_vars => TInv'
  <2>1. ASSUME TInv, UNCHANGED vars
        PROVE  TInv'
    BY <2>1 DEF TInv, Types, Placed, vars, procVars, taskVars, userVars
  <2> QED
    BY <2>1, UserTypes, TaskTypes, ProcessTypes DEF Next
<1> QED
  BY <1>1, <1>2, PTL DEF Spec

-----------------------------------------------------------------------------
(* The semaphore.                                                          *)

PermitsBounded == \A p \in Replicas : permits[p] <= MaxConcurrent
PInv == TInv /\ PermitsAccounted /\ PermitsBounded

LEMMA HoldersFinite ==
  ASSUME NEW p
  PROVE  /\ IsFiniteSet(Holders(p)) /\ Cardinality(Holders(p)) \in Nat
BY FiniteRuns, FS_Subset, FS_CardinalityType DEF Holders

(* A step after which every process that is not down was not down before,   *)
(* with the same holders and the same free permits.                        *)
Kept ==
  /\ \A p \in Replicas : mode'[p] # "down" =>
       mode[p] # "down" /\ permits'[p] = permits[p] /\ Holders(p)' = Holders(p)
  /\ \A p \in Replicas : permits'[p] = permits[p]

LEMMA KeptPermits ==
  ASSUME PInv, Kept
  PROVE  PermitsAccounted' /\ PermitsBounded'
<1>1. PermitsAccounted'
  <2>1. SUFFICES ASSUME NEW p \in Replicas, mode'[p] # "down"
                 PROVE  permits'[p] + Cardinality(Holders(p))' = MaxConcurrent
    BY <2>1 DEF PermitsAccounted
  <2> QED
    <3>1. permits[p] + Cardinality(Holders(p)) = MaxConcurrent /\ permits'[p] = permits[p]
      BY <2>1 DEF PInv, PermitsAccounted, Kept
    <3>2. Holders(p)' = Holders(p)
      BY <2>1 DEF Kept
    <3> QED
      BY <3>1, <3>2
<1> QED
  BY <1>1 DEF Kept, PInv, PermitsBounded

(* A task that takes a permit joins the holders of its process ...          *)
LEMMA StartPermits ==
  ASSUME PInv, NEW r \in Runs, Start(r)
  PROVE  PermitsAccounted' /\ PermitsBounded'
<1> DEFINE h == home[r]
<1>1. h \in Replicas /\ r \notin Holders(h) /\ permits[h] > 0
  BY DEF PInv, TInv, Placed, Types, Start, Holders
<1>2. permits' = [permits EXCEPT ![h] = @ - 1] /\ UNCHANGED <<mode, home>>
  BY DEF Start
<1>3. \A p \in Replicas : Holders(p)' = IF p = h THEN Holders(p) \cup {r} ELSE Holders(p)
  BY DEF PInv, TInv, Types, Start, Goto, Holders
<1>4. Cardinality(Holders(h) \cup {r}) = Cardinality(Holders(h)) + 1
  BY <1>1, HoldersFinite, FS_AddElement
<1>5. PermitsAccounted'
  <2>1. SUFFICES ASSUME NEW p \in Replicas, mode'[p] # "down"
                 PROVE  permits'[p] + Cardinality(Holders(p))' = MaxConcurrent
    BY <2>1 DEF PermitsAccounted
  <2>2. permits[p] + Cardinality(Holders(p)) = MaxConcurrent
    BY <2>1, <1>2 DEF PInv, PermitsAccounted
  <2>3. Cardinality(Holders(p)) \in Nat /\ permits[p] \in Nat
    BY HoldersFinite DEF PInv, TInv, Types
  <2>4. CASE p = h
    <3>1. permits'[p] = permits[p] - 1
      BY <1>2, <2>4 DEF PInv, TInv, Types
    <3>2. Cardinality(Holders(p))' = Cardinality(Holders(p)) + 1
      BY <1>3, <1>4, <2>4
    <3> QED
      BY <2>2, <2>3, <3>1, <3>2, SizeAssumption
  <2>5. CASE p # h
    <3>1. permits'[p] = permits[p] /\ Cardinality(Holders(p))' = Cardinality(Holders(p))
      BY <1>2, <1>3, <2>5 DEF PInv, TInv, Types
    <3> QED
      BY <2>2, <3>1
  <2> QED
    BY <2>4, <2>5
<1> QED
  BY <1>1, <1>2, <1>5, SizeAssumption DEF PInv, TInv, Types, PermitsBounded

(* ... and one that gives it back leaves them.                              *)
LEMMA ReleasePermits ==
  ASSUME PInv, NEW r \in Runs, pc[r] \in Finally, Release(r), Goto(r, "ended"),
         UNCHANGED <<mode, home>>
  PROVE  PermitsAccounted' /\ PermitsBounded'
<1> DEFINE h == home[r]
<1>1. h \in Replicas /\ r \in Holders(h) /\ mode[h] # "down"
  BY DEF PInv, TInv, Placed, Types, Holders
<1>2. permits' = [permits EXCEPT ![h] = @ + 1]
  BY DEF Release
<1>3. \A p \in Replicas : Holders(p)' = IF p = h THEN Holders(p) \ {r} ELSE Holders(p)
  BY DEF PInv, TInv, Types, Goto, Holders
<1>4. Cardinality(Holders(h) \ {r}) = Cardinality(Holders(h)) - 1
  BY <1>1, HoldersFinite, FS_RemoveElement
<1>5. permits[h] + Cardinality(Holders(h)) = MaxConcurrent
  BY <1>1 DEF PInv, PermitsAccounted
<1>6. Cardinality(Holders(h)) - 1 \in Nat
  BY <1>1, <1>4, HoldersFinite, FS_RemoveElement, FS_CardinalityType
<1>7. PermitsAccounted'
  <2>1. SUFFICES ASSUME NEW p \in Replicas, mode'[p] # "down"
                 PROVE  permits'[p] + Cardinality(Holders(p))' = MaxConcurrent
    BY <2>1 DEF PermitsAccounted
  <2>2. CASE p = h
    <3>1. permits'[p] = permits[p] + 1
      BY <1>2, <2>2 DEF PInv, TInv, Types
    <3>2. Cardinality(Holders(p))' = Cardinality(Holders(p)) - 1
      BY <1>3, <1>4, <2>2
    <3>3. permits[p] \in Nat
      BY DEF PInv, TInv, Types
    <3>4. Cardinality(Holders(p)) \in Nat
      BY HoldersFinite
    <3> QED
      BY <1>5, <2>2, <3>1, <3>2, <3>3, <3>4, SizeAssumption
  <2>3. CASE p # h
    <3>1. permits'[p] = permits[p] /\ Cardinality(Holders(p))' = Cardinality(Holders(p))
      BY <1>2, <1>3, <2>3 DEF PInv, TInv, Types
    <3> QED
      BY <2>1, <3>1 DEF PInv, PermitsAccounted
  <2> QED
    BY <2>2, <2>3
<1>8. permits[h] < MaxConcurrent
  <2>1. Cardinality(Holders(h)) \in Nat /\ permits[h] \in Nat
    BY <1>1, HoldersFinite DEF PInv, TInv, Types
  <2> QED
    BY <2>1, <1>5, <1>6, SizeAssumption
<1>9. \A p \in Replicas : permits[p] \in Nat /\ permits[p] <= MaxConcurrent
  BY DEF PInv, TInv, Types, PermitsBounded
<1>10. \A p \in Replicas : permits'[p] = IF p = h THEN permits[h] + 1 ELSE permits[p]
  BY <1>2 DEF PInv, TInv, Types
<1>11. PermitsBounded'
  BY <1>8, <1>9, <1>10, SizeAssumption DEF PermitsBounded
<1> QED
  BY <1>7, <1>11

(* Every other step of a task stays on its side of the semaphore.           *)
LEMMA TaskPermits ==
  ASSUME PInv, NEW r \in Runs, TaskStep(r)
  PROVE  PermitsAccounted' /\ PermitsBounded'
<1>1. CASE Start(r)
  BY <1>1, StartPermits
<1>2. CASE Close(r)
  BY <1>2, ReleasePermits DEF Close
<1>3. CASE InterruptEdge(r) /\ pc[r] \in Finally
  BY <1>3, ReleasePermits DEF InterruptEdge
<1>4. ASSUME UNCHANGED <<mode, permits, home>>,
             \E l \in Locations : /\ pc' = [pc EXCEPT ![r] = l]
                                  /\ pc[r] \in Holding <=> l \in Holding
      PROVE  PermitsAccounted' /\ PermitsBounded'
  <2>1. \A p \in Replicas : Holders(p)' = Holders(p)
    BY <1>4 DEF Holders, PInv, TInv, Types
  <2> QED
    BY <1>4, <2>1, KeptPermits DEF Kept
<1>5. CASE Submit(r) \/ Reap(r) \/ ReadRow(r)
  <2>1. UNCHANGED <<mode, permits, home>>
    BY <1>5 DEF Submit, Reap, ReadRow, procVars
  <2>2. CASE ReadRow(r)
    BY <2>1, <2>2, KeptPermits DEF ReadRow, Kept, Holders
  <2>3. CASE Submit(r)
    BY <1>4, <2>1, <2>3 DEF Submit
  <2>4. CASE Reap(r)
    BY <1>4, <2>1, <2>4 DEF Reap
  <2> QED
    BY <1>5, <2>2, <2>3, <2>4
<1>6. CASE Commit(r) \/ StaleCommit(r) \/ TxnError(r)
  <2>1. UNCHANGED <<mode, permits, home>>
    BY <1>6 DEF Commit, StaleCommit, TxnError, procVars
  <2>2. pc[r] \in Holding
    BY <1>6, WritesType DEF Commit, StaleCommit, TxnError
  <2>3. \E l \in Holding : pc' = [pc EXCEPT ![r] = l]
    BY <1>6, WritesType DEF Commit, StaleCommit, TxnError, Goto
  <2> QED
    BY <1>4, <2>1, <2>2, <2>3
<1>7. CASE Work(r) \/ WorkRaises(r) \/ Check(r) \/ Note(r) \/ NoteError(r)
           \/ Final(r) \/ InterruptBody(r)
  <2>1. UNCHANGED <<mode, permits, home>>
    BY <1>7 DEF Work, WorkRaises, Check, Note, NoteError, Final, InterruptBody, procVars
  <2>2. pc[r] \in Holding
    BY <1>7 DEF Work, WorkRaises, Check, Note, NoteError, Final, InterruptBody
  <2>3. \E l \in Holding : pc' = [pc EXCEPT ![r] = l]
    BY <1>7 DEF Work, WorkRaises, Check, AfterCheck, Note, NoteError, Final,
                InterruptBody, Goto
  <2> QED
    BY <1>4, <2>1, <2>2, <2>3
<1>8. CASE InterruptEdge(r) /\ pc[r] = "waiting"
  <2>1. UNCHANGED <<mode, permits, home>> /\ pc' = [pc EXCEPT ![r] = "ended"]
    BY <1>8 DEF InterruptEdge, Goto
  <2> QED
    BY <1>4, <1>8, <2>1
<1>9. InterruptEdge(r) => pc[r] = "waiting" \/ pc[r] \in Finally
  BY DEF InterruptEdge
<1> QED
  BY <1>1, <1>2, <1>3, <1>5, <1>6, <1>7, <1>8, <1>9 DEF TaskStep

(* The requests and the stops.                                              *)
LEMMA UserPermits ==
  ASSUME PInv, NEW r \in Runs, UserStep(r)
  PROVE  PermitsAccounted' /\ PermitsBounded'
<1>1. CASE \E p \in Replicas : Create(r, p)
  <2>1. pc[r] = "none" /\ pc' = [pc EXCEPT ![r] = "submit"] /\ UNCHANGED <<mode, permits>>
    BY <1>1 DEF Create, PInv, TInv, Placed
  <2>2. \A q \in Runs : q # r => pc'[q] = pc[q] /\ home'[q] = home[q]
    BY <1>1 DEF Create, PInv, TInv, Types
  <2>3. \A p \in Replicas : Holders(p)' = Holders(p)
    BY <2>1, <2>2 DEF Holders, PInv, TInv, Types
  <2> QED
    BY <2>1, <2>3, KeptPermits DEF Kept
<1>2. CASE \/ \E p \in Replicas : CancelRead(r, p) \/ DeleteRequest(r, p)
           \/ CancelApply(r) \/ DeleteCommit(r) \/ DeleteAbort(r)
  <2>1. UNCHANGED <<mode, permits, home, pc>>
    BY <1>2 DEF CancelRead, DeleteRequest, CancelApply, DeleteCommit, DeleteAbort,
                procVars, taskVars
  <2> QED
    BY <2>1, KeptPermits DEF Kept, Holders
<1> QED
  BY <1>1, <1>2 DEF UserStep

LEMMA ProcessPermits ==
  ASSUME PInv, NEW p \in Replicas, ProcessStep(p)
  PROVE  PermitsAccounted' /\ PermitsBounded'
<1>1. CASE Shutdown(p) \/ CancelTasks(p)
  <2>1. UNCHANGED <<permits, home, pc>> /\ mode[p] # "down"
    BY <1>1 DEF Shutdown, CancelTasks
  <2>2. \A q \in Replicas : q # p => mode'[q] = mode[q]
    BY <1>1 DEF Shutdown, CancelTasks, PInv, TInv, Types
  <2> QED
    BY <2>1, <2>2, KeptPermits DEF Kept, Holders
<1>2. CASE Halt(p) \/ Crash(p)
  <2>1. UNCHANGED <<permits, home>> /\ Vanish(p)
    BY <1>2 DEF Halt, Crash
  <2>2. mode' = [mode EXCEPT ![p] = "down"]
        /\ \A r \in Runs : home[r] # p => pc'[r] = pc[r]
    BY <2>1 DEF Vanish, PInv, TInv, Types
  <2>3. \A q \in Replicas : q # p => mode'[q] = mode[q] /\ Holders(q)' = Holders(q)
    BY <2>1, <2>2 DEF Holders, PInv, TInv, Types
  <2>4. mode'[p] = "down"
    BY <2>2 DEF PInv, TInv, Types
  <2> QED
    BY <2>1, <2>3, <2>4, KeptPermits DEF Kept
<1>3. CASE Restart(p)
  <2>1. /\ permits' = [permits EXCEPT ![p] = MaxConcurrent]
        /\ UNCHANGED <<home, pc>> /\ mode[p] = "down"
        /\ mode' = [mode EXCEPT ![p] = "up"]
    BY <1>3 DEF Restart, taskVars
  <2>2. Holders(p) = {}
    BY <2>1 DEF Holders, PInv, TInv, Placed
  <2>3. PermitsAccounted'
    <3>1. SUFFICES ASSUME NEW q \in Replicas, mode'[q] # "down"
                   PROVE  permits'[q] + Cardinality(Holders(q))' = MaxConcurrent
      BY <3>1 DEF PermitsAccounted
    <3>2. Holders(q)' = Holders(q)
      BY <2>1 DEF Holders
    <3>3. CASE q = p
      BY <2>1, <2>2, <3>2, <3>3, FS_EmptySet, SizeAssumption DEF PInv, TInv, Types
    <3>4. CASE q # p
      <4>1. mode[q] # "down" /\ permits'[q] = permits[q]
        BY <2>1, <3>1, <3>4 DEF PInv, TInv, Types
      <4> QED
        BY <3>2, <4>1 DEF PInv, PermitsAccounted
    <3> QED
      BY <3>3, <3>4
  <2>4. PermitsBounded'
    BY <2>1, SizeAssumption DEF PInv, TInv, Types, PermitsBounded
  <2> QED
    BY <2>3, <2>4
<1> QED
  BY <1>1, <1>2, <1>3 DEF ProcessStep

LEMMA PermitsHold == Spec => []PInv
<1>1. Init => PInv
  <2>1. ASSUME Init
        PROVE  PInv
    <3>1. TInv
      BY <2>1, SizeAssumption DEF Init, TInv, Types, Placed
    <3>2. \A p \in Replicas : Holders(p) = {} /\ permits[p] = MaxConcurrent
      BY <2>1 DEF Init, Holders
    <3>3. \A p \in Replicas : permits[p] + Cardinality(Holders(p)) = MaxConcurrent
      BY <3>2, FS_EmptySet, SizeAssumption
    <3> QED
      BY <3>1, <3>2, <3>3, SizeAssumption DEF PInv, PermitsAccounted, PermitsBounded
  <2> QED
    BY <2>1
<1>2. PInv /\ TInv' /\ [Next]_vars => PInv'
  <2>1. ASSUME PInv, UNCHANGED vars
        PROVE  PermitsAccounted' /\ PermitsBounded'
    BY <2>1, KeptPermits DEF Kept, Holders, vars, procVars, taskVars
  <2> QED
    BY <2>1, UserPermits, TaskPermits, ProcessPermits DEF Next, PInv
<1> QED
  BY <1>1, <1>2, TypesHold, PTL DEF Spec

(* Every variable keeps its type, in particular the permits of a process    *)
(* never exceed MAX_CONCURRENT_RUNS.                                        *)
THEOREM TypeCorrect == Spec => []TypeOK
<1>1. PInv => TypeOK
  BY SizeAssumption DEF PInv, TInv, Types, PermitsBounded, TypeOK
<1> QED
  BY <1>1, PermitsHold, PTL

(* However a task of _execute ends, its process gets exactly one permit     *)
(* back, and only a task inside "async with self._semaphore" holds one.     *)
THEOREM PermitsConserved == Spec => []PermitsAccounted
<1>1. PInv => PermitsAccounted
  BY DEF PInv
<1> QED
  BY <1>1, PermitsHold, PTL

-----------------------------------------------------------------------------
(* Stranded runs.                                                          *)

Calm(r) == mode[home[r]] \in {"up", "draining"}
Dying(r) == mode[home[r]] \in {"stopping", "exiting"}

(* Only a stopping process cancels tasks, a missing row is a deleted one,   *)
(* and past its last transaction a run is not "running".                   *)
Unstranded ==
  \A r \in Runs :
    /\ r \in killed => pc[r] \in Live
    /\ r \in killed \/ pc[r] = "interrupted" => Dying(r)
    /\ found[r] = "missing" => row[r] = "deleted"
    /\ pc[r] \in {"none", "submit", "waiting"} => row[r] # "running"
    /\ /\ errors = 0 /\ Calm(r)
       /\ pc[r] \in {"cancelNote", "failNote", "final", "closing", "ended", "gone"}
       => row[r] # "running"

LEMMA StrandTask ==
  ASSUME TInv, Unstranded, NEW r \in Runs, TaskStep(r)
  PROVE  Unstranded'
<1> USE WritesType, SizeAssumption
        DEF TInv, Types, Placed, Unstranded, Calm, Dying, Exists, Goto, procVars, taskVars, userVars
<1>1. CASE Submit(r)
  BY <1>1 DEF Submit
<1>2. CASE Start(r)
  BY <1>2 DEF Start
<1>3. CASE ReadRow(r)
  BY <1>3 DEF ReadRow
<1>4. CASE Commit(r)
  BY <1>4, SMTT(60) DEF Commit, Applied, AddChildren, Orphaned, Writes, OnSuccess
<1>5. CASE StaleCommit(r)
  BY <1>5 DEF StaleCommit
<1>6. CASE TxnError(r)
  BY <1>6, SMTT(60) DEF TxnError, Applied, AddChildren, Orphaned, Writes, OnError
<1>7. CASE Work(r)
  BY <1>7 DEF Work, AddChildren, Orphaned
<1>8. CASE WorkRaises(r)
  BY <1>8 DEF WorkRaises, MayAddChildren, AddChildren, Orphaned
<1>9. CASE Check(r)
  BY <1>9 DEF Check, AfterCheck, Cancelled
<1>10. CASE Note(r)
  BY <1>10 DEF Note, AddChildren, Orphaned
<1>11. CASE NoteError(r)
  BY <1>11 DEF NoteError, MayAddChildren, AddChildren, Orphaned
<1>12. CASE Final(r)
  BY <1>12 DEF Final
<1>13. CASE Close(r)
  BY <1>13 DEF Close, Release
<1>14. CASE Reap(r)
  BY <1>14 DEF Reap
<1>15. CASE InterruptBody(r)
  BY <1>15, SMTT(60) DEF InterruptBody, MayApply, MayAddChildren, Applied, AddChildren, Orphaned, Writes
<1>16. CASE InterruptEdge(r)
  BY <1>16 DEF InterruptEdge, Release
<1> QED
  BY <1>1, <1>2, <1>3, <1>4, <1>5, <1>6, <1>7, <1>8,
     <1>9, <1>10, <1>11, <1>12, <1>13, <1>14, <1>15, <1>16 DEF TaskStep

LEMMA StrandUser ==
  ASSUME TInv, Unstranded, NEW r \in Runs, UserStep(r)
  PROVE  Unstranded'
<1> USE WritesType, SizeAssumption
        DEF TInv, Types, Placed, Unstranded, Calm, Dying, Exists, Goto, procVars, taskVars, userVars
<1>1. CASE \E p \in Replicas : Create(r, p)
  BY <1>1 DEF Create, procVars, userVars
<1>2. CASE \E p \in Replicas : CancelRead(r, p)
  BY <1>2 DEF CancelRead, procVars, taskVars
<1>3. CASE \E p \in Replicas : DeleteRequest(r, p)
  BY <1>3 DEF DeleteRequest, Flag, Reaches, InTasks, procVars, taskVars
<1>4. CASE CancelApply(r)
  BY <1>4 DEF CancelApply, Flag, Reaches, InTasks, procVars, taskVars
<1>5. CASE DeleteCommit(r)
  BY <1>5 DEF DeleteCommit, procVars, taskVars
<1>6. CASE DeleteAbort(r)
  BY <1>6 DEF DeleteAbort, Reclaim, procVars, taskVars
<1> QED
  BY <1>1, <1>2, <1>3, <1>4, <1>5, <1>6 DEF UserStep

LEMMA StrandProcess ==
  ASSUME TInv, Unstranded, NEW p \in Replicas, ProcessStep(p)
  PROVE  Unstranded'
<1> USE WritesType, SizeAssumption
        DEF TInv, Types, Placed, Unstranded, Calm, Dying, Exists, Goto, procVars, taskVars, userVars
<1>1. CASE Shutdown(p)
  BY <1>1 DEF Shutdown, TasksOf
<1>2. CASE CancelTasks(p)
  BY <1>2 DEF CancelTasks, TasksOf
<1>3. CASE Halt(p)
  BY <1>3 DEF Halt, Vanish, Reclaim
<1>4. CASE Crash(p)
  BY <1>4 DEF Crash, Vanish, Reclaim
<1>5. CASE Restart(p)
  BY <1>5 DEF Restart, Recovered
<1> QED
  BY <1>1, <1>2, <1>3, <1>4, <1>5 DEF ProcessStep

(* While no transaction fails, the database never shows as "running" a run  *)
(* no task of a serving or draining process works on.                      *)
THEOREM NoStranded == Spec => []NoStrandedRun
<1>1. Init => Unstranded
  BY DEF Init, Unstranded
<1>2. TInv /\ Unstranded /\ [Next]_vars => Unstranded'
  <2>1. ASSUME Unstranded, UNCHANGED vars
        PROVE  Unstranded'
    BY <2>1 DEF Unstranded, Calm, Dying, vars, procVars, taskVars
  <2> QED
    BY <2>1, StrandTask, StrandUser, StrandProcess DEF Next
<1>3. TInv /\ Unstranded => NoStrandedRun
  BY DEF TInv, Types, Unstranded, NoStrandedRun, Calm, InTasks
<1> QED
  BY <1>1, <1>2, <1>3, TypesHold, PTL DEF Spec

-----------------------------------------------------------------------------
(* Cancellation.                                                           *)

(* A run whose task heard of its cancellation is flagged while a checkpoint is *)
(* ahead, and never gets past the last one.                                *)
Honoured ==
  \A r \in Runs :
    /\ pc[r] \in {"none", "submit", "waiting", "starting"} => stage[r] = 1
    /\ pc[r] \in {"none", "submit", "waiting", "starting", "working", "check"}
         => row[r] # "completed"
    /\ r \in heard =>
         /\ row[r] # "completed"
         /\ pc[r] \notin {"none", "submit", "persisting"}
         /\ pc[r] = "working" => stage[r] <= Checkpoints
         /\ CheckpointAhead(r) => r \in flagged

LEMMA HonourTask ==
  ASSUME TInv, Honoured, NEW r \in Runs, TaskStep(r)
  PROVE  Honoured'
<1> USE WritesType, SizeAssumption
        DEF TInv, Types, Placed, Honoured, CheckpointAhead, Exists, Goto, procVars, taskVars, userVars
<1>1. CASE Submit(r)
  BY <1>1 DEF Submit
<1>2. CASE Start(r)
  BY <1>2 DEF Start
<1>3. CASE ReadRow(r)
  BY <1>3 DEF ReadRow
<1>4. CASE Commit(r)
  BY <1>4, SMTT(60) DEF Commit, Applied, AddChildren, Orphaned, Writes, OnSuccess
<1>5. CASE StaleCommit(r)
  BY <1>5 DEF StaleCommit
<1>6. CASE TxnError(r)
  BY <1>6, SMTT(60) DEF TxnError, Applied, AddChildren, Orphaned, Writes, OnError
<1>7. CASE Work(r)
  BY <1>7 DEF Work, AddChildren, Orphaned
<1>8. CASE WorkRaises(r)
  BY <1>8 DEF WorkRaises, MayAddChildren, AddChildren, Orphaned
<1>9. CASE Check(r)
  BY <1>9 DEF Check, AfterCheck, Cancelled
<1>10. CASE Note(r)
  BY <1>10 DEF Note, AddChildren, Orphaned
<1>11. CASE NoteError(r)
  BY <1>11 DEF NoteError, MayAddChildren, AddChildren, Orphaned
<1>12. CASE Final(r)
  BY <1>12 DEF Final
<1>13. CASE Close(r)
  BY <1>13 DEF Close, Release
<1>14. CASE Reap(r)
  BY <1>14 DEF Reap
<1>15. CASE InterruptBody(r)
  BY <1>15, SMTT(60) DEF InterruptBody, MayApply, MayAddChildren, Applied, AddChildren, Orphaned, Writes
<1>16. CASE InterruptEdge(r)
  BY <1>16 DEF InterruptEdge, Release
<1> QED
  BY <1>1, <1>2, <1>3, <1>4, <1>5, <1>6, <1>7, <1>8,
     <1>9, <1>10, <1>11, <1>12, <1>13, <1>14, <1>15, <1>16 DEF TaskStep

LEMMA HonourUser ==
  ASSUME TInv, Honoured, NEW r \in Runs, UserStep(r)
  PROVE  Honoured'
<1> USE WritesType, SizeAssumption
        DEF TInv, Types, Placed, Honoured, CheckpointAhead, Exists, Goto, procVars, taskVars, userVars
<1>1. CASE \E p \in Replicas : Create(r, p)
  BY <1>1 DEF Create, procVars, userVars
<1>2. CASE \E p \in Replicas : CancelRead(r, p)
  BY <1>2 DEF CancelRead, procVars, taskVars
<1>3. CASE \E p \in Replicas : DeleteRequest(r, p)
  BY <1>3 DEF DeleteRequest, Flag, Reaches, InTasks, procVars, taskVars
<1>4. CASE CancelApply(r)
  BY <1>4 DEF CancelApply, Flag, Reaches, InTasks, procVars, taskVars
<1>5. CASE DeleteCommit(r)
  BY <1>5 DEF DeleteCommit, procVars, taskVars
<1>6. CASE DeleteAbort(r)
  BY <1>6 DEF DeleteAbort, Reclaim, procVars, taskVars
<1> QED
  BY <1>1, <1>2, <1>3, <1>4, <1>5, <1>6 DEF UserStep

LEMMA HonourProcess ==
  ASSUME TInv, Honoured, NEW p \in Replicas, ProcessStep(p)
  PROVE  Honoured'
<1> USE WritesType, SizeAssumption
        DEF TInv, Types, Placed, Honoured, CheckpointAhead, Exists, Goto, procVars, taskVars, userVars
<1>1. CASE Shutdown(p)
  BY <1>1 DEF Shutdown, TasksOf
<1>2. CASE CancelTasks(p)
  BY <1>2 DEF CancelTasks, TasksOf
<1>3. CASE Halt(p)
  BY <1>3 DEF Halt, Vanish, Reclaim
<1>4. CASE Crash(p)
  BY <1>4 DEF Crash, Vanish, Reclaim
<1>5. CASE Restart(p)
  BY <1>5 DEF Restart, Recovered
<1> QED
  BY <1>1, <1>2, <1>3, <1>4, <1>5 DEF ProcessStep

(* A cancellation that found the run's task with a checkpoint ahead of it is *)
(* never answered by a completed run, for any number of processes.         *)
THEOREM CancelsHonoured == Spec => []CancelHonoured
<1>1. Init => Honoured
  BY DEF Init, Honoured
<1>2. TInv /\ Honoured /\ [Next]_vars => Honoured'
  <2>1. ASSUME Honoured, UNCHANGED vars
        PROVE  Honoured'
    BY <2>1 DEF Honoured, CheckpointAhead, vars, procVars, taskVars, userVars
  <2> QED
    BY <2>1, HonourTask, HonourUser, HonourProcess DEF Next
<1>3. TInv /\ Honoured => CancelHonoured
  BY DEF TInv, Types, Honoured, CancelHonoured
<1> QED
  BY <1>1, <1>2, <1>3, TypesHold, PTL DEF Spec
-----------------------------------------------------------------------------
(* The contract.                                                           *)

SingleReplica == \A p, q \in Replicas : p = q

(* Where a task is says what its row may show: no status is written twice, and *)
(* a row that was missing stays so.                                          *)
Written ==
  \A r \in Runs :
    /\ pc[r] \in {"submit", "waiting", "starting"} => row[r] \in {"queued", "deleted"}
    /\ pc[r] \in {"working", "check", "persisting", "cancelling"}
         => row[r] \in {"running", "deleted"}
    /\ pc[r] \in {"failing", "interrupted"}
         => row[r] \in {"queued", "running", "completed", "deleted"}
    /\ found[r] = "missing" => row[r] = "deleted"

(* What a step may do to the statuses.                                       *)
Lawful == Settled \subseteq Settled' /\ \A r \in Runs : Contract!Moves(r)

LEMMA ContractTask ==
  ASSUME TInv, Written, NEW r \in Runs, TaskStep(r)
  PROVE  Written' /\ Lawful
<1> USE WritesType DEF TInv, Types, Placed, Written, Lawful, Settled, Exists, Goto, procVars, userVars,
        Contract!Moves, Contract!Forward, Contract!Active, Contract!Terminal
<1>1. CASE Submit(r) \/ Start(r) \/ ReadRow(r)
  BY <1>1 DEF Submit, Start, ReadRow
<1>2. CASE Commit(r)
  BY <1>2, SMTT(60) DEF Commit, Applied, AddChildren, Orphaned, Writes, OnSuccess
<1>3. CASE StaleCommit(r)
  BY <1>3, SMTT(60) DEF StaleCommit, OnError
<1>4. CASE TxnError(r)
  BY <1>4, SMTT(60) DEF TxnError, Applied, AddChildren, Orphaned, Writes, OnError
<1>5. CASE Work(r) \/ WorkRaises(r)
  BY <1>5 DEF Work, AddChildren, Orphaned, WorkRaises, MayAddChildren
<1>6. CASE Check(r)
  BY <1>6 DEF Check, AfterCheck, Cancelled
<1>7. CASE Note(r) \/ NoteError(r)
  BY <1>7 DEF Note, NoteError, MayAddChildren, AddChildren, Orphaned
<1>8. CASE Final(r) \/ Close(r) \/ Reap(r)
  BY <1>8 DEF Final, Close, Release, Reap
<1>9. CASE InterruptBody(r)
  BY <1>9, SMTT(60) DEF InterruptBody, MayApply, MayAddChildren, Applied, AddChildren, Orphaned, Writes
<1>10. CASE InterruptEdge(r)
  BY <1>10 DEF InterruptEdge, Release
<1> QED
  BY <1>1, <1>2, <1>3, <1>4, <1>5, <1>6, <1>7, <1>8, <1>9, <1>10 DEF TaskStep

LEMMA ContractUser ==
  ASSUME TInv, Written, NEW r \in Runs, UserStep(r)
  PROVE  Written' /\ Lawful
<1> USE NoReplicaAssumption DEF TInv, Types, Placed, Written, Lawful, Settled, procVars, taskVars, userVars,
        Contract!Moves, Contract!Forward, Contract!Active, Contract!Terminal
<1>1. CASE \E p \in Replicas : Create(r, p)
  BY <1>1 DEF Create
<1>2. CASE \E p \in Replicas : CancelRead(r, p) \/ DeleteRequest(r, p)
  BY <1>2 DEF CancelRead, DeleteRequest
<1>3. CASE CancelApply(r) \/ DeleteAbort(r)
  BY <1>3 DEF CancelApply, DeleteAbort
<1>4. CASE DeleteCommit(r)
  BY <1>4 DEF DeleteCommit
<1> QED
  BY <1>1, <1>2, <1>3, <1>4 DEF UserStep

LEMMA ContractProcess ==
  ASSUME SingleReplica, TInv, Written, NEW p \in Replicas, ProcessStep(p)
  PROVE  Written' /\ Lawful
<1> USE DEF SingleReplica, TInv, Types, Placed, Written, Lawful, Settled, procVars, taskVars, userVars,
        Contract!Moves, Contract!Forward, Contract!Active, Contract!Terminal
<1>1. CASE Shutdown(p) \/ CancelTasks(p)
  BY <1>1 DEF Shutdown, CancelTasks
<1>2. CASE Halt(p) \/ Crash(p)
  BY <1>2 DEF Halt, Crash, Vanish
<1>3. CASE Restart(p)
  BY <1>3 DEF Restart, Recovered
<1> QED
  BY <1>1, <1>2, <1>3 DEF ProcessStep

LEMMA StepWritten ==
  ASSUME SingleReplica
  PROVE  TInv /\ Written /\ [Next]_vars => Written' /\ Lawful
<1>1. ASSUME Written, UNCHANGED vars PROVE Written' /\ Lawful
  BY <1>1 DEF Written, Lawful, Settled, Contract!Moves, vars, procVars, taskVars, userVars
<1> QED
  BY <1>1, ContractTask, ContractUser, ContractProcess DEF Next

(* With one process, the task, its handlers, the requests, crashes and restarts *)
(* together keep RunContract: statuses move forward only, and what a task has *)
(* done with only a deletion changes.                                       *)
THEOREM LifecycleImplementsContract ==
  ASSUME SingleReplica
  PROVE  Spec => ImplementsContract
<1>1. Init => Written /\ Contract!Init
  BY DEF Init, Written, Settled, Contract!Init
<1>2. ASSUME TInv', Lawful PROVE Contract!Next
  <2>1. row' \in [Runs -> Contract!Status]
    BY <1>2 DEF TInv, Types, Contract!Status, Contract!Active, Contract!Terminal
  <2>2. Settled' \subseteq {r \in Runs : row'[r] \in Contract!Terminal \cup {"deleted"}}
    BY DEF Settled, Contract!Terminal
  <2> QED
    BY <1>2, <2>1, <2>2 DEF Lawful, Contract!Next
<1> QED
  BY <1>1, <1>2, StepWritten, TypesHold, PTL DEF Spec, ImplementsContract, Contract!Spec
=============================================================================
