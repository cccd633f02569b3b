----------------------------- MODULE TraceStream -----------------------------
(***************************************************************************)
(* The live trace of one run: RunManager._emit numbers, persists and        *)
(* publishes events, the EventBus of services/events.py fans them out to    *)
(* bounded queues, and each SSE connection of stream_events replays the     *)
(* persisted trace before it follows its queue.  The lock of the bus never  *)
(* suspends its holder, so publish, subscribe and close are single steps.   *)
(* The emissions of one run follow one another: no agent emits from inside  *)
(* a gather.                                                               *)
(***************************************************************************)
EXTENDS Naturals, Sequences, FiniteSets

CONSTANTS
  Clients,    \* SSE connections
  QueueSize,  \* QUEUE_MAXSIZE
  MaxEvents   \* bound: event numbers a run hands out

ASSUME QueueAssumption == QueueSize \in Nat \ {0}
ASSUME EventsAssumption == MaxEvents \in Nat \ {0}

VARIABLES
  status,      \* the run's row: "running" or "terminal"
  writer,      \* where the run's task is
  seq,         \* RunManager._seq
  log,         \* numbers of the committed run_events
  torn,        \* history: committed, but the task was interrupted, or was not
               \* told of the commit, and never published it
  early,       \* history: committed while the run was not yet terminal
  subscribers, \* connections whose queue the bus holds
  queue,       \* each connection's queue of numbers, End for the None of close
  conn,        \* where each connection is
  terminal,    \* the local variable of stream_events, from the row it loaded
  history,     \* events of the replay still to be yielded
  replayed,    \* numbers the replay covers
  view,        \* what the client has received
  cut          \* history: connections the bus will not tell of the end

busVars == <<subscribers, queue>>
connVars == <<conn, terminal, history, replayed, view>>
runVars == <<status, writer, seq, log, torn, early>>
vars == <<runVars, busVars, connVars, cut>>

End == 0
ConnStates == {"idle", "loaded", "subscribed", "replaying", "live", "ended", "gone"}
WriterStates == {"working", "publishing", "failing", "noting", "notePublishing",
                 "closing", "closed"}

Init ==
  /\ status = "running"
  /\ writer = "working"
  /\ seq = 0
  /\ log = {} /\ torn = {} /\ early = {}
  /\ subscribers = {}
  /\ queue = [c \in Clients |-> <<>>]
  /\ conn = [c \in Clients |-> "idle"]
  /\ terminal = [c \in Clients |-> FALSE]
  /\ history = [c \in Clients |-> <<>>]
  /\ replayed = [c \in Clients |-> {}]
  /\ view = [c \in Clients |-> <<>>]
  /\ cut = {}

-----------------------------------------------------------------------------
(* The run's task.                                                         *)

(* _emit takes the next number and commits the row.                        *)
Number ==
  /\ seq < MaxEvents
  /\ seq' = seq + 1

Commit ==
  /\ log' = log \cup {seq'}
  /\ early' = IF status = "running" THEN early \cup {seq'} ELSE early

Persist(next) ==
  /\ Number
  /\ Commit
  /\ writer' = next
  /\ UNCHANGED <<status, torn, busVars, connVars, cut>>

Emit ==
  \/ writer = "working" /\ Persist("publishing")
  \/ writer = "noting" /\ Persist("notePublishing")

(* The database raises, or the task is cancelled in the transaction; the     *)
(* commit may have been applied all the same, and is not published then.    *)
EmitFails ==
  /\ writer \in {"working", "noting"}
  /\ Number
  /\ \/ UNCHANGED <<log, torn, early>>
     \/ Commit /\ torn' = torn \cup {seq'}
  /\ writer' = IF writer = "working" THEN "failing" ELSE "closing"
  /\ UNCHANGED <<status, busVars, connVars, cut>>

(* Fault: one item too many.                                               *)
FullBeyond(c) == Len(queue[c]) > QueueSize
Full(c) == Len(queue[c]) = QueueSize

(* put_nowait on every subscribed queue that has room.                     *)
Enqueue(n) ==
  queue' = [c \in Clients |-> IF c \in subscribers /\ ~Full(c)
                              THEN Append(queue[c], n) ELSE queue[c]]

(* EventBus.publish: a queue that is full loses its subscription.  Fault:   *)
(* it loses the event instead.                                             *)
DroppedNone == {}
Dropped == {c \in subscribers : Full(c)}

Publish ==
  /\ writer \in {"publishing", "notePublishing"}
  /\ Enqueue(seq)
  /\ subscribers' = subscribers \ Dropped
  /\ cut' = cut \cup Dropped
  /\ writer' = IF writer = "publishing" THEN "working" ELSE "closing"
  /\ UNCHANGED <<status, seq, log, torn, early, connVars>>

(* The timeout of _execute, or a hard cancellation, strikes between the      *)
(* commit and the publication; only the latter reaches a closing note.       *)
Interrupted ==
  /\ writer \in {"publishing", "notePublishing"}
  /\ torn' = torn \cup {seq}
  /\ writer' = IF writer = "publishing" THEN "failing" ELSE "closing"
  /\ UNCHANGED <<status, seq, log, early, busVars, connVars, cut>>

(* A stage raises, a checkpoint raises Cancelled, or the time is up.        *)
Raise ==
  /\ writer = "working"
  /\ writer' = "failing"
  /\ UNCHANGED <<status, seq, log, torn, early, busVars, connVars, cut>>

(* _persist after the last event, which fails when its commit is not         *)
(* acknowledged; or the status of the handler, followed by its note unless   *)
(* the commit is not acknowledged or the task is being cancelled.            *)
SetTerminal ==
  /\ writer \in {"working", "failing"}
  /\ status' = "terminal"
  /\ writer' \in IF writer = "working" THEN {"closing", "failing"} ELSE {"closing", "noting"}
  /\ UNCHANGED <<seq, log, torn, early, busVars, connVars, cut>>

(* The write of that status fails, and its note is not written.             *)
SettleFails ==
  /\ writer = "failing"
  /\ writer' = "closing"
  /\ UNCHANGED <<status, seq, log, torn, early, busVars, connVars, cut>>

(* EventBus.close: the None that ends a stream is dropped by a full queue.  *)
Close ==
  /\ \/ writer = "closing"
     \/ writer = "noting" /\ seq = MaxEvents
  /\ Enqueue(End)
  /\ cut' = cut \cup {c \in subscribers : Full(c)}
  /\ writer' = "closed"
  /\ UNCHANGED <<status, seq, log, torn, early, subscribers, connVars>>

(* A provider that cannot be closed ends the finally clause before the bus is *)
(* closed: nobody is told of the end.                                      *)
CloseSkipped ==
  /\ writer = "closing"
  /\ cut' = cut \cup subscribers
  /\ writer' = "closed"
  /\ UNCHANGED <<status, seq, log, torn, early, busVars, connVars>>

-----------------------------------------------------------------------------
(* The connections.                                                        *)

(* stream_events loads the run; its session keeps this status.             *)
Load(c) ==
  /\ conn[c] = "idle"
  /\ conn' = [conn EXCEPT ![c] = "loaded"]
  /\ terminal' = [terminal EXCEPT ![c] = status = "terminal"]
  /\ UNCHANGED <<runVars, busVars, history, replayed, view, cut>>

Subscribe(c) ==
  /\ conn[c] = "loaded"
  /\ subscribers' = subscribers \cup {c}
  /\ cut' = IF writer = "closed" /\ ~terminal[c] THEN cut \cup {c} ELSE cut
  /\ conn' = [conn EXCEPT ![c] = "subscribed"]
  /\ UNCHANGED <<runVars, queue, terminal, history, replayed, view>>

(* The set in ascending order.                                             *)
Sorted(S) == CHOOSE s \in [1 .. Cardinality(S) -> S] :
               \A i, j \in DOMAIN s : i < j => s[i] < s[j]

(* The history query, after the subscription.  Fault: off by one.          *)
TraceButLast == {n \in log : n < seq}
Trace == log

ReadHistory(c) ==
  /\ conn[c] = "subscribed"
  /\ history' = [history EXCEPT ![c] = Sorted(Trace)]
  /\ replayed' = [replayed EXCEPT ![c] = Trace]
  /\ conn' = [conn EXCEPT ![c] = "replaying"]
  /\ UNCHANGED <<runVars, busVars, terminal, view, cut>>

Replay(c) ==
  /\ conn[c] = "replaying" /\ history[c] # <<>>
  /\ view' = [view EXCEPT ![c] = Append(@, Head(history[c]))]
  /\ history' = [history EXCEPT ![c] = Tail(@)]
  /\ UNCHANGED <<runVars, busVars, conn, terminal, replayed, cut>>

(* generate ends: its finally clause unsubscribes.                         *)
Leave(c, state) ==
  /\ conn' = [conn EXCEPT ![c] = state]
  /\ subscribers' = subscribers \ {c}

(* A run that was terminal when it was loaded is not followed.  Fault: it   *)
(* is.                                                                     *)
FinishedNever(c) == FALSE
Finished(c) == terminal[c]

Follow(c) ==
  /\ conn[c] = "replaying" /\ history[c] = <<>>
  /\ IF Finished(c)
     THEN Leave(c, "ended")
     ELSE conn' = [conn EXCEPT ![c] = "live"] /\ UNCHANGED subscribers
  /\ UNCHANGED <<runVars, queue, terminal, history, replayed, view, cut>>

(* Fault: the numbers of the replay are not skipped.                       *)
SkipsNothing(c, n) == FALSE
Skips(c, n) == n \in replayed[c]

(* An item of the queue: the end, a number of the replay, or a new event.  *)
Take(c) ==
  /\ conn[c] = "live" /\ queue[c] # <<>>
  /\ queue' = [queue EXCEPT ![c] = Tail(@)]
  /\ LET n == Head(queue[c]) IN
     IF n = End THEN Leave(c, "ended") /\ UNCHANGED view
     ELSE /\ view' = [view EXCEPT ![c] = IF Skips(c, n) THEN @ ELSE Append(@, n)]
          /\ UNCHANGED <<conn, subscribers>>
  /\ UNCHANGED <<runVars, terminal, history, replayed, cut>>

(* The client goes away.                                                   *)
Disconnect(c) ==
  /\ conn[c] \in {"replaying", "live"}
  /\ Leave(c, "gone")
  /\ UNCHANGED <<runVars, queue, terminal, history, replayed, view, cut>>

-----------------------------------------------------------------------------
Writer ==
  \/ Emit \/ EmitFails \/ Publish \/ Interrupted \/ Raise
  \/ SetTerminal \/ SettleFails \/ Close \/ CloseSkipped
Serve(c) == Subscribe(c) \/ ReadHistory(c) \/ Replay(c) \/ Follow(c) \/ Take(c)

Next == Writer \/ \E c \in Clients : Load(c) \/ Serve(c) \/ Disconnect(c)

Spec == Init /\ [][Next]_vars

(* The task is bounded by wait_for, and a connected client reads.          *)
FairSpec == Spec /\ WF_vars(Writer) /\ \A c \in Clients : WF_vars(Serve(c))

-----------------------------------------------------------------------------
(* Properties.                                                             *)

Received(c) == {view[c][i] : i \in DOMAIN view[c]}

(* Every variable keeps its type; a queue never exceeds QUEUE_MAXSIZE.      *)
TypeOK ==
  /\ status \in {"running", "terminal"}
  /\ writer \in WriterStates
  /\ seq \in 0 .. MaxEvents
  /\ log \subseteq 1 .. seq /\ torn \subseteq log /\ early \subseteq log
  /\ subscribers \subseteq Clients /\ cut \subseteq Clients
  /\ \A c \in Clients :
       /\ conn[c] \in ConnStates
       /\ terminal[c] \in BOOLEAN
       /\ replayed[c] \subseteq log
       /\ queue[c] \in Seq(0 .. MaxEvents) /\ Len(queue[c]) <= QueueSize
       /\ history[c] \in Seq(1 .. MaxEvents) /\ view[c] \in Seq(1 .. MaxEvents)

(* A live connection the bus still serves has lost nothing: every committed *)
(* event was received, waits in its queue, or is about to be published;     *)
(* all but those the task was kept from publishing.                         *)
Pending(c) == {queue[c][i] : i \in DOMAIN queue[c]}
InFlight == IF writer \in {"publishing", "notePublishing"} THEN {seq} ELSE {}
NothingLost ==
  \A c \in Clients : (conn[c] = "live" /\ c \in subscribers)
    => log \ torn \subseteq Received(c) \cup Pending(c) \cup InFlight

(* When the "end" event reaches a client, it has all that was committed when *)
(* it read the history, and every event up to the terminal status but those  *)
(* the task was kept from publishing since.                                 *)
EndIsComplete ==
  \A c \in Clients :
    conn[c] = "ended" => replayed[c] \cup (early \ torn) \subseteq Received(c)

(* When the "end" event reaches a client, it has every event up to the        *)
(* terminal status.  The code breaks it: an event whose _emit is interrupted  *)
(* after the commit is in the trace and never published.                     *)
EndIsWhole == \A c \in Clients : conn[c] = "ended" => early \subseteq Received(c)

(* The stream implements TraceDelivery: in order, without gaps and without  *)
(* repetitions across the switch from replay to live events.               *)
Delivery == INSTANCE TraceDelivery
ImplementsDelivery == Delivery!Spec

(* A stream ends, unless the client leaves or the bus has cut it off: its   *)
(* queue was full, or it subscribed after the run had been closed.         *)
StreamEnds ==
  \A c \in Clients :
    conn[c] = "loaded" ~> (conn[c] \in {"ended", "gone"} \/ c \in cut)

(* Every stream that is opened ends.                                       *)
EveryStreamEnds == \A c \in Clients : conn[c] = "loaded" ~> conn[c] \in {"ended", "gone"}
=============================================================================
