---------------------------- MODULE RunLifecycle ----------------------------
(***************************************************************************)
(* The life of research runs: RunManager and recover_orphaned_runs of       *)
(* services/runs.py, the create, cancel and delete handlers of              *)
(* api/routes_runs.py, the transactions of db.py and the lifespan of        *)
(* main.py.  The unit of interleaving is the code between two awaits: each  *)
(* transaction is a read followed, later, by a commit.                      *)
(***************************************************************************)
EXTENDS Integers, FiniteSets

CONSTANTS
  Runs,           \* the run ids that may be created
  Replicas,       \* API processes that share the database
  MaxConcurrent,  \* settings.max_concurrent_runs
  Checkpoints,    \* orchestrator checkpoints of a pipeline (five in the code)
  ForeignKeys,    \* whether the database enforces ON DELETE CASCADE
  NoReplica,      \* "no request in flight" / "not submitted yet"
  MaxStops,       \* bound: shutdowns and crashes of a behaviour
  MaxDbErrors     \* bound: failing transactions of a behaviour

ASSUME SizeAssumption ==
  /\ MaxConcurrent \in Nat \ {0}
  /\ Checkpoints \in Nat \ {0}
  /\ MaxStops \in Nat
  /\ MaxDbErrors \in Nat
ASSUME FiniteRuns == IsFiniteSet(Runs)
ASSUME KeysAssumption == ForeignKeys \in BOOLEAN
ASSUME NoReplicaAssumption == NoReplica \notin Replicas

VARIABLES
  row,        \* Run.status of the committed row, "none" before, "deleted" after
  children,   \* the run's events, sources and claims (see ChildStates)
  mode,       \* lifespan phase of each process
  permits,    \* free permits of the process's semaphore
  home,       \* the process that holds the run's task
  pc,         \* where the run's task is suspended
  stage,      \* the pipeline stage of the task, 1 .. Checkpoints + 1
  found,      \* what session.get returned in the task's open transaction
  flagged,    \* RunManager._cancelled, over all processes
  killed,     \* tasks with a CancelledError on its way
  cancelling, \* process whose cancel_run handler has read an active status
  deleting,   \* process whose delete_run handler has loaded the run
  asked,      \* history: runs whose cancellation was accepted in time ...
  heard,      \* ... and reached their task
  errors,     \* transactions that failed so far
  stops       \* shutdowns and crashes so far

userVars == <<cancelling, deleting, asked, heard>>
procVars == <<mode, permits, home, stops>>
taskVars == <<pc, stage, found, flagged, killed>>
vars == <<row, children, procVars, taskVars, userVars, errors>>

-----------------------------------------------------------------------------
Active == {"queued", "running"}
Terminal == {"completed", "failed", "cancelled"}
RowStates == {"none", "deleted"} \cup Active \cup Terminal

(* "late": some child row is unknown to the delete that is in flight, or was *)
(* committed after the delete.                                              *)
ChildStates == {"none", "owned", "late"}

Modes == {"up", "draining", "stopping", "exiting", "down"}

TryBody == {"starting", "working", "check", "persisting"}
Handlers == {"cancelling", "cancelNote", "failing", "failNote", "interrupted"}
Finally == {"final", "closing"}
Holding == TryBody \cup Handlers \cup Finally
Live == {"waiting"} \cup Holding
InTasksPcs == Live \cup {"ended"}
Locations == {"none", "submit", "gone"} \cup InTasksPcs

(* manager._tasks has the run: submitted, and the done callback has not run. *)
InTasks(r) == pc[r] \in InTasksPcs
TasksOf(p) == {r \in Runs : home[r] = p /\ InTasks(r)}
HandlersAt(p) ==
  \E r \in Runs : \/ cancelling[r] = p
                  \/ deleting[r] = p
                  \/ home[r] = p /\ pc[r] = "submit"

(* The run still has a checkpoint ahead of it, be its task registered yet  *)
(* or not.                                                                 *)
CheckpointAhead(r) ==
  \/ pc[r] \in {"submit", "waiting", "starting"}
  \/ pc[r] \in {"working", "check"} /\ stage[r] <= Checkpoints

Init ==
  /\ row = [r \in Runs |-> "none"]
  /\ children = [r \in Runs |-> "none"]
  /\ mode = [p \in Replicas |-> "up"]
  /\ permits = [p \in Replicas |-> MaxConcurrent]
  /\ home = [r \in Runs |-> NoReplica]
  /\ pc = [r \in Runs |-> "none"]
  /\ stage = [r \in Runs |-> 1]
  /\ found = [r \in Runs |-> "unread"]
  /\ flagged = {}
  /\ killed = {}
  /\ cancelling = [r \in Runs |-> NoReplica]
  /\ deleting = [r \in Runs |-> NoReplica]
  /\ asked = {}
  /\ heard = {}
  /\ errors = 0
  /\ stops = 0

-----------------------------------------------------------------------------
(* Requests.                                                               *)

(* create_run commits the queued row ...                                   *)
Create(r, p) ==
  /\ mode[p] = "up"
  /\ row[r] = "none"
  /\ row' = [row EXCEPT ![r] = "queued"]
  /\ pc' = [pc EXCEPT ![r] = "submit"]
  /\ home' = [home EXCEPT ![r] = p]
  /\ UNCHANGED <<children, mode, permits, stops, stage, found, flagged, killed,
                 userVars, errors>>

(* ... and then registers the task.                                        *)
Submit(r) ==
  /\ pc[r] = "submit"
  /\ pc' = [pc EXCEPT ![r] = "waiting"]
  /\ UNCHANGED <<row, children, procVars, stage, found, flagged, killed,
                 userVars, errors>>

(* cancel_run reads the status: 409 unless it is active.                   *)
CancelRead(r, p) ==
  /\ mode[p] = "up"
  /\ row[r] \in Active
  /\ cancelling[r] = NoReplica
  /\ cancelling' = [cancelling EXCEPT ![r] = p]
  /\ UNCHANGED <<row, children, procVars, taskVars, deleting, asked, heard, errors>>

(* manager.cancel: effective only in the process that owns the task, and   *)
(* only once the task is registered.                                       *)
Reaches(r, p) == home[r] = p /\ InTasks(r)
Flag(r, p) == flagged' = IF Reaches(r, p) THEN flagged \cup {r} ELSE flagged

(* cancel_run answers 202 whatever manager.cancel returned.                *)
CancelApply(r) ==
  /\ cancelling[r] # NoReplica
  /\ Flag(r, cancelling[r])
  /\ asked' = IF CheckpointAhead(r) THEN asked \cup {r} ELSE asked
  /\ heard' = IF CheckpointAhead(r) /\ Reaches(r, cancelling[r])
              THEN heard \cup {r} ELSE heard
  /\ cancelling' = [cancelling EXCEPT ![r] = NoReplica]
  /\ UNCHANGED <<row, children, procVars, pc, stage, found, killed, deleting,
                 errors>>

(* delete_run flags the task, and session.delete loads the child rows.     *)
DeleteRequest(r, p) ==
  /\ mode[p] = "up"
  /\ row[r] \in Active \cup Terminal
  /\ deleting[r] = NoReplica
  /\ Flag(r, p)
  /\ deleting' = [deleting EXCEPT ![r] = p]
  /\ UNCHANGED <<row, children, procVars, pc, stage, found, killed, cancelling,
                 asked, heard, errors>>

(* The commit when get_session exits.  The ORM deletes the rows it loaded;  *)
(* ON DELETE CASCADE takes the others where the database enforces it.      *)
DeleteCommit(r) ==
  /\ deleting[r] # NoReplica
  /\ row' = [row EXCEPT ![r] = "deleted"]
  /\ children' = [children EXCEPT ![r] =
                    IF @ = "late" /\ ~ForeignKeys THEN "late" ELSE "none"]
  /\ deleting' = [deleting EXCEPT ![r] = NoReplica]
  /\ UNCHANGED <<procVars, taskVars, cancelling, asked, heard, errors>>

(* Rows unknown to an abandoned delete belong to the run again.            *)
Reclaim(rs) ==
  children' = [r \in Runs |-> IF r \in rs /\ children[r] = "late"
                              THEN "owned" ELSE children[r]]

(* The delete transaction fails and rolls back; the flag stays.            *)
DeleteAbort(r) ==
  /\ deleting[r] # NoReplica
  /\ errors < MaxDbErrors
  /\ errors' = errors + 1
  /\ Reclaim({r})
  /\ deleting' = [deleting EXCEPT ![r] = NoReplica]
  /\ UNCHANGED <<row, procVars, taskVars, cancelling, asked, heard>>

-----------------------------------------------------------------------------
(* Steps of a run's task, RunManager._execute.                             *)

(* The semaphore is taken and the try block entered.                       *)
Start(r) ==
  /\ pc[r] = "waiting" /\ r \notin killed
  /\ permits[home[r]] > 0
  /\ permits' = [permits EXCEPT ![home[r]] = @ - 1]
  /\ pc' = [pc EXCEPT ![r] = "starting"]
  /\ found' = [found EXCEPT ![r] = "unread"]
  /\ UNCHANGED <<row, children, mode, home, stops, stage, flagged, killed,
                 userVars, errors>>

(* Locations where the task is inside a transaction on its run's row, and  *)
(* the status that transaction writes.                                     *)
Writes == [starting |-> "running", persisting |-> "completed",
           cancelling |-> "cancelled", failing |-> "failed",
           interrupted |-> "cancelled"]

(* session.get at the start of such a transaction.                         *)
ReadRow(r) ==
  /\ pc[r] \in DOMAIN Writes /\ r \notin killed
  /\ found[r] = "unread"
  /\ found' = [found EXCEPT ![r] = IF row[r] = "deleted" THEN "missing" ELSE "found"]
  /\ UNCHANGED <<row, children, procVars, pc, stage, flagged, killed, userVars,
                 errors>>

(* The task moves on to another location.                                  *)
Goto(r, location) ==
  /\ pc' = [pc EXCEPT ![r] = location]
  /\ found' = [found EXCEPT ![r] = "unread"]

Orphaned(r) == row[r] = "deleted" \/ deleting[r] # NoReplica

(* Child rows of r are committed.                                          *)
AddChildren(r) ==
  children' = [children EXCEPT ![r] =
                 IF Orphaned(r) \/ @ = "late" THEN "late" ELSE "owned"]

(* What the commit of the task's transaction does to its run.              *)
Applied(r) ==
  /\ row' = [row EXCEPT ![r] = Writes[pc[r]]]
  /\ IF pc[r] = "persisting" THEN AddChildren(r) ELSE UNCHANGED children

(* No UPDATE matches a row that was deleted since.                         *)
Exists(r) == row[r] # "deleted"

(* After the transaction: the next location, on success and on an exception. *)
(* Fault: the branch of the cancellation runs on into the one of failures. *)
OnSuccessFallsThrough ==
  [starting |-> "working", persisting |-> "final",
   cancelling |-> "failing", failing |-> "failNote", interrupted |-> "final"]
OnSuccess == [starting |-> "working", persisting |-> "final",
              cancelling |-> "cancelNote", failing |-> "failNote",
              interrupted |-> "final"]
OnError == [starting |-> "failing", persisting |-> "failing",
            cancelling |-> "final", failing |-> "final", interrupted |-> "final"]

(* The transaction ends without an exception: a row that was missing at the *)
(* read is skipped in silence, otherwise the new status is committed.       *)
Commit(r) ==
  /\ pc[r] \in DOMAIN Writes /\ r \notin killed
  /\ \/ found[r] = "missing" /\ UNCHANGED <<row, children>>
     \/ found[r] = "found" /\ Exists(r) /\ Applied(r)
  /\ Goto(r, OnSuccess[pc[r]])
  /\ UNCHANGED <<procVars, stage, flagged, killed, userVars, errors>>

(* The row vanished between the read and the commit: StaleDataError.        *)
StaleCommit(r) ==
  /\ pc[r] \in DOMAIN Writes /\ r \notin killed
  /\ found[r] = "found" /\ ~Exists(r)
  /\ Goto(r, OnError[pc[r]])
  /\ UNCHANGED <<row, children, procVars, stage, flagged, killed, userVars, errors>>

(* The database raises.  When it raises at the commit, the commit may have *)
(* been applied without being acknowledged.                                *)
TxnError(r) ==
  /\ pc[r] \in DOMAIN Writes /\ r \notin killed
  /\ errors < MaxDbErrors
  /\ errors' = errors + 1
  /\ \/ UNCHANGED <<row, children>>
     \/ found[r] = "found" /\ Exists(r) /\ Applied(r)
  /\ Goto(r, OnError[pc[r]])
  /\ UNCHANGED <<procVars, stage, flagged, killed, userVars>>

(* A child row of a deleted run violates the foreign key, where the         *)
(* database enforces it.                                                   *)
Insertable(r) == Exists(r) \/ ~ForeignKeys

(* A pipeline stage runs and commits its trace.  No checkpoint follows the *)
(* last stage, synthesize.                                                 *)
Work(r) ==
  /\ pc[r] = "working" /\ r \notin killed
  /\ Insertable(r)
  /\ AddChildren(r)
  /\ Goto(r, IF stage[r] <= Checkpoints THEN "check" ELSE "persisting")
  /\ UNCHANGED <<row, procVars, stage, flagged, killed, userVars, errors>>

(* Some of the events of a stage or a note may have been committed before  *)
(* it raised, the last of them without being acknowledged.                 *)
MayAddChildren(r) ==
  \/ UNCHANGED children
  \/ Insertable(r) /\ AddChildren(r)

(* A stage raises: a provider error, the wait_for timeout, a failed insert. *)
(* Fault: no except clause catches it.                                     *)
WorkRaisesUncaught(r) ==
  /\ pc[r] = "working" /\ r \notin killed
  /\ MayAddChildren(r)
  /\ Goto(r, "final")
  /\ UNCHANGED <<row, procVars, stage, flagged, killed, userVars, errors>>
WorkRaises(r) ==
  /\ pc[r] = "working" /\ r \notin killed
  /\ MayAddChildren(r)
  /\ Goto(r, "failing")
  /\ UNCHANGED <<row, procVars, stage, flagged, killed, userVars, errors>>

(* ctx.cancelled().  Fault: the last stage has no checkpoint before it.     *)
CancelledUnseen(r) == r \in flagged /\ stage[r] # Checkpoints
Cancelled(r) == r \in flagged

(* Where a checkpoint leads.  Fault: Cancelled is caught and the stage      *)
(* retried.                                                                *)
AfterCheckRetry(r) == "working"
AfterCheck(r) == IF Cancelled(r) THEN "cancelling" ELSE "working"

(* Orchestrator._checkpoint.                                               *)
Check(r) ==
  /\ pc[r] = "check" /\ r \notin killed
  /\ Goto(r, AfterCheck(r))
  /\ stage' = [stage EXCEPT ![r] = IF Cancelled(r) THEN @ ELSE @ + 1]
  /\ UNCHANGED <<row, children, procVars, flagged, killed, userVars, errors>>

(* The closing trace event of a cancelled or failed run; when the insert   *)
(* raises, the finally clause runs all the same.                           *)
Note(r) ==
  /\ pc[r] \in {"cancelNote", "failNote"} /\ r \notin killed
  /\ Goto(r, "final")
  /\ IF Insertable(r) THEN AddChildren(r) ELSE UNCHANGED children
  /\ UNCHANGED <<row, procVars, stage, flagged, killed, userVars, errors>>

NoteError(r) ==
  /\ pc[r] \in {"cancelNote", "failNote"} /\ r \notin killed
  /\ errors < MaxDbErrors
  /\ errors' = errors + 1
  /\ MayAddChildren(r)
  /\ Goto(r, "final")
  /\ UNCHANGED <<row, procVars, stage, flagged, killed, userVars>>

(* The finally clause up to its first await ...                            *)
Final(r) ==
  /\ pc[r] = "final" /\ r \notin killed
  /\ flagged' = flagged \ {r}
  /\ Goto(r, "closing")
  /\ UNCHANGED <<row, children, procVars, stage, killed, userVars, errors>>

(* ... and the rest: providers and bus closed, the permit given back.      *)
(* Faults: the permit is kept, or given back twice.                        *)
ReleaseForgotten(r) == UNCHANGED permits
ReleaseTwice(r) == permits' = [permits EXCEPT ![home[r]] = @ + 2]
Release(r) == permits' = [permits EXCEPT ![home[r]] = @ + 1]

Close(r) ==
  /\ pc[r] = "closing" /\ r \notin killed
  /\ Release(r)
  /\ Goto(r, "ended")
  /\ UNCHANGED <<row, children, mode, home, stops, stage, flagged, killed,
                 userVars, errors>>

(* The done callback pops the task.                                        *)
Reap(r) ==
  /\ pc[r] = "ended"
  /\ pc' = [pc EXCEPT ![r] = "gone"]
  /\ UNCHANGED <<row, children, procVars, stage, found, flagged, killed, userVars,
                 errors>>

-----------------------------------------------------------------------------
(* Shutdown, crash and restart.                                            *)

(* The CancelledError arrives.  A commit or an insert it interrupts may    *)
(* have been applied.  A waiting task has no try block around it; an error *)
(* inside a handler goes to the finally clause; one inside the finally     *)
(* clause leaves it, and the semaphore is released on the way out.         *)
MayApply(r) ==
  \/ UNCHANGED <<row, children>>
  \/ pc[r] \in DOMAIN Writes /\ found[r] = "found" /\ Exists(r) /\ Applied(r)
  \/ /\ pc[r] \in {"working", "cancelNote", "failNote"}
     /\ MayAddChildren(r) /\ UNCHANGED row

InterruptBody(r) ==
  /\ r \in killed
  /\ \/ pc[r] \in TryBody /\ Goto(r, "interrupted")
     \/ pc[r] \in Handlers /\ Goto(r, "final")
  /\ MayApply(r)
  /\ killed' = killed \ {r}
  /\ UNCHANGED <<procVars, stage, flagged, userVars, errors>>

InterruptEdge(r) ==
  /\ r \in killed
  /\ \/ pc[r] = "waiting" /\ UNCHANGED <<permits, flagged>>
     \/ pc[r] \in Finally /\ Release(r) /\ flagged' = flagged \ {r}
  /\ Goto(r, "ended")
  /\ killed' = killed \ {r}
  /\ UNCHANGED <<row, children, mode, home, stops, stage, userVars, errors>>

(* RunManager.shutdown, once the server has no request left: every task is *)
(* flagged ...                                                             *)
Shutdown(p) ==
  /\ mode[p] = "up" /\ stops < MaxStops
  /\ ~HandlersAt(p)
  /\ mode' = [mode EXCEPT ![p] = "draining"]
  /\ stops' = stops + 1
  /\ flagged' = flagged \cup TasksOf(p)
  /\ UNCHANGED <<row, children, permits, home, pc, stage, found, killed,
                 userVars, errors>>

(* ... and after the drain the remaining ones are cancelled, by shutdown   *)
(* itself and once more by asyncio.run when the server has returned.       *)
CancelTasks(p) ==
  /\ mode[p] \in {"draining", "stopping"}
  /\ mode' = [mode EXCEPT ![p] = IF @ = "draining" THEN "stopping" ELSE "exiting"]
  /\ killed' = killed \cup {r \in TasksOf(p) : pc[r] \in Live}
  /\ UNCHANGED <<row, children, permits, home, stops, pc, stage, found, flagged,
                 userVars, errors>>

(* The tasks, flags and requests of a process vanish with it.              *)
Vanish(p) ==
  LET mine == {r \in Runs : home[r] = p /\ pc[r] \notin {"none", "gone"}} IN
  /\ mode' = [mode EXCEPT ![p] = "down"]
  /\ pc' = [r \in Runs |-> IF r \in mine THEN "gone" ELSE pc[r]]
  /\ flagged' = {r \in flagged : home[r] # p}
  /\ killed' = {r \in killed : home[r] # p}
  /\ cancelling' = [r \in Runs |-> IF cancelling[r] = p THEN NoReplica ELSE cancelling[r]]
  /\ deleting' = [r \in Runs |-> IF deleting[r] = p THEN NoReplica ELSE deleting[r]]
  /\ Reclaim({r \in Runs : deleting[r] = p})

(* asyncio.run waits for the cancelled tasks, then the process exits.      *)
Halt(p) ==
  /\ mode[p] = "exiting"
  /\ \A r \in TasksOf(p) : pc[r] = "ended"
  /\ Vanish(p)
  /\ UNCHANGED <<row, permits, home, stops, stage, found, asked, heard, errors>>

Crash(p) ==
  /\ mode[p] # "down" /\ stops < MaxStops
  /\ stops' = stops + 1
  /\ Vanish(p)
  /\ UNCHANGED <<row, permits, home, stage, found, asked, heard, errors>>

(* recover_orphaned_runs.  Fault: it is not called.                        *)
RecoveredAsIs(r) == row[r]
Recovered(r) == IF row[r] = "running" THEN "failed" ELSE row[r]

(* The container is restarted: lifespan runs recover_orphaned_runs before  *)
(* the first request.                                                      *)
Restart(p) ==
  /\ mode[p] = "down"
  /\ mode' = [mode EXCEPT ![p] = "up"]
  /\ permits' = [permits EXCEPT ![p] = MaxConcurrent]
  /\ row' = [r \in Runs |-> Recovered(r)]
  /\ UNCHANGED <<children, home, stops, taskVars, userVars, errors>>

-----------------------------------------------------------------------------
TaskStep(r) ==
  \/ Submit(r) \/ Start(r) \/ ReadRow(r) \/ Commit(r) \/ StaleCommit(r)
  \/ TxnError(r) \/ Work(r) \/ WorkRaises(r) \/ Check(r) \/ Note(r)
  \/ NoteError(r) \/ Final(r) \/ Close(r) \/ Reap(r)
  \/ InterruptBody(r) \/ InterruptEdge(r)

UserStep(r) ==
  \/ \E p \in Replicas : Create(r, p) \/ CancelRead(r, p) \/ DeleteRequest(r, p)
  \/ CancelApply(r) \/ DeleteCommit(r) \/ DeleteAbort(r)

ProcessStep(p) ==
  \/ Shutdown(p) \/ CancelTasks(p) \/ Halt(p) \/ Crash(p) \/ Restart(p)

Next ==
  \/ \E r \in Runs : TaskStep(r) \/ UserStep(r)
  \/ \E p \in Replicas : ProcessStep(p)

Spec == Init /\ [][Next]_vars

(* The event loop runs every task that can run; a shutdown, once begun,    *)
(* ends; the container restarts (restart: unless-stopped).                 *)
Fairness ==
  /\ \A r \in Runs : WF_vars(TaskStep(r))
  /\ \A p \in Replicas : WF_vars(CancelTasks(p)) /\ WF_vars(Halt(p)) /\ WF_vars(Restart(p))

FairSpec == Spec /\ Fairness
-----------------------------------------------------------------------------
(* Properties.                                                             *)

(* Every variable keeps its type.                                          *)
TypeOK ==
  /\ row \in [Runs -> RowStates]
  /\ children \in [Runs -> ChildStates]
  /\ mode \in [Replicas -> Modes]
  /\ permits \in [Replicas -> 0 .. MaxConcurrent]
  /\ home \in [Runs -> Replicas \cup {NoReplica}]
  /\ pc \in [Runs -> Locations]
  /\ stage \in [Runs -> 1 .. Checkpoints + 1]
  /\ found \in [Runs -> {"unread", "found", "missing"}]
  /\ flagged \subseteq Runs /\ killed \subseteq Runs
  /\ asked \subseteq Runs /\ heard \subseteq Runs
  /\ cancelling \in [Runs -> Replicas \cup {NoReplica}]
  /\ deleting \in [Runs -> Replicas \cup {NoReplica}]
  /\ errors \in 0 .. MaxDbErrors
  /\ stops \in 0 .. MaxStops

(* The semaphore is neither leaked nor released twice, whichever await of   *)
(* _execute a failure or a cancellation strikes.                           *)
Holders(p) == {r \in Runs : home[r] = p /\ pc[r] \in Holding}
PermitsAccounted ==
  \A p \in Replicas :
    mode[p] # "down" => permits[p] + Cardinality(Holders(p)) = MaxConcurrent

(* As long as no transaction failed, a row that says "running" has a task   *)
(* behind it in every process that serves or drains.                       *)
NoStrandedRun ==
  \A r \in Runs :
    (row[r] = "running" /\ errors = 0 /\ mode[home[r]] \in {"up", "draining"})
      => InTasks(r)

(* A cancellation that manager.cancel accepted, the task being registered    *)
(* and a checkpoint still ahead of it, is never answered by a completed run. *)
CancelHonoured == \A r \in heard : row[r] # "completed"

(* The same of every cancellation that was answered 202 with a checkpoint    *)
(* ahead.  The code breaks it: between the commit of the queued row and      *)
(* manager.submit there is no task to flag, and the answer is 202 all the    *)
(* same.                                                                   *)
AcceptedCancelHonoured == \A r \in asked : row[r] # "completed"

(* Deleting a run takes its whole trace, also what its task was writing     *)
(* meanwhile.  The code breaks it where the database does not enforce       *)
(* foreign keys, as SQLite does not unless it is asked to.                 *)
NoOrphanChildren == \A r \in Runs : row[r] = "deleted" => children[r] = "none"

(* The status contract: RunManager and the handlers implement RunContract.  *)
Settled ==
  {r \in Runs : /\ row[r] \in Terminal \cup {"deleted"}
                /\ pc[r] \in {"final", "closing", "ended", "gone"}}
Contract == INSTANCE RunContract WITH status <- row, settled <- Settled
ImplementsContract == Contract!Spec

(* Every task that is created ends: no wait on the semaphore, on the        *)
(* database or on a shutdown is for ever.                                  *)
TaskEnds == \A r \in Runs : pc[r] # "none" ~> pc[r] = "gone"

(* A row does not say "running" for ever, crashes included.                *)
NoRunStuckRunning == \A r \in Runs : row[r] = "running" ~> row[r] # "running"

(* A cancellation that reached its task in time, of a run that has started,  *)
(* shows in the status even when the process crashes meanwhile.            *)
CancelTakesEffect ==
  \A r \in Runs : (r \in heard /\ row[r] = "running")
                    ~> row[r] \in {"cancelled", "failed", "deleted"}

(* Every run that was accepted leaves the queue.                           *)
NoRunStuckQueued == \A r \in Runs : row[r] = "queued" ~> row[r] # "queued"
=============================================================================
