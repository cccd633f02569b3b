----------------------------- MODULE RunContract -----------------------------
(***************************************************************************)
(* What the API promises about Run.status, whatever the tasks, handlers and *)
(* restarts behind it do: a status moves forward, an outcome the task has   *)
(* done with never changes, and nothing but the deletion of the run follows *)
(* it.  RunLifecycle implements it with one process.                       *)
(***************************************************************************)
CONSTANT Runs

VARIABLES
  status,   \* Run.status as the API shows it
  settled   \* runs whose task has done with the row

Active == {"queued", "running"}
Terminal == {"completed", "failed", "cancelled"}
Status == {"none", "deleted"} \cup Active \cup Terminal

Init ==
  /\ status = [r \in Runs |-> "none"]
  /\ settled = {}

(* The moves of a status while its task may still write it.  Only          *)
(* "completed" can be overruled: its commit may go unacknowledged, and the *)
(* task then reports the error or the cancellation it got instead.         *)
Forward(from, to) ==
  \/ from = "none" /\ to = "queued"
  \/ from = "queued" /\ to \in {"running", "failed", "cancelled"}
  \/ from = "running" /\ to \in Terminal
  \/ from = "completed" /\ to \in {"failed", "cancelled"}
  \/ from \in Active \cup Terminal /\ to = "deleted"

(* One step moves any number of runs: a restart fails all of them at once. *)
Moves(r) ==
  \/ status'[r] = status[r]
  \/ r \notin settled /\ Forward(status[r], status'[r])
  \/ r \in settled /\ status'[r] = "deleted"

Next ==
  /\ status' \in [Runs -> Status]
  /\ settled' \in SUBSET {r \in Runs : status'[r] \in Terminal \cup {"deleted"}}
  /\ settled \subseteq settled'
  /\ \A r \in Runs : Moves(r)

Spec == Init /\ [][Next]_<<status, settled>>
=============================================================================
