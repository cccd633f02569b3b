----------------------------- MODULE MCTraceStream -----------------------------
(* Instances of TraceStream for TLC.                                           *)
EXTENDS TraceStream

CONSTANTS c1, c2
OneClient == {c1}
TwoClients == {c1, c2}
=============================================================================
