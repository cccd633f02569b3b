---------------------------- MODULE TraceDelivery ----------------------------
(***************************************************************************)
(* What a subscriber of a run's trace is promised: it receives the          *)
(* committed events in the order of their numbers, each at most once, and  *)
(* skips none, except one whose writer was interrupted, or failed, between *)
(* its commit and its publication.  Delivery may stop at any point.                    *)
(***************************************************************************)
EXTENDS Naturals, Sequences

CONSTANT Clients

VARIABLES
  log,   \* the numbers of the committed events
  torn,  \* those that were never published
  view   \* what each client has received

Last(s) == IF s = <<>> THEN 0 ELSE s[Len(s)]

Init ==
  /\ log = {}
  /\ torn = {}
  /\ view = [c \in Clients |-> <<>>]

(* The next event is committed, numbers may be skipped; its writer may not   *)
(* be told of it.                                                          *)
Record(n) ==
  /\ \A m \in log : m < n
  /\ log' = log \cup {n}
  /\ torn' \in {torn, torn \cup {n}}
  /\ UNCHANGED view

Tear(n) ==
  /\ n \in log
  /\ torn' = torn \cup {n}
  /\ UNCHANGED <<log, view>>

Deliver(c, n) ==
  /\ n \in log /\ n > Last(view[c])
  /\ \A m \in log : (Last(view[c]) < m /\ m < n) => m \in torn
  /\ view' = [view EXCEPT ![c] = Append(@, n)]
  /\ UNCHANGED <<log, torn>>

Next ==
  \/ \E n \in log' \ log : Record(n)
  \/ \E n \in torn' \ torn : Tear(n)
  \/ \E c \in Clients, n \in log : Deliver(c, n)

Spec == Init /\ [][Next]_<<log, torn, view>>
=============================================================================
