------------------------------ MODULE MCPipeline ------------------------------
(* Instances of Pipeline for TLC.                                             *)
EXTENDS Pipeline

CONSTANTS q1, q2, k1, k2
TwoQuestions == {q1, q2}
TwoClaims == {k1, k2}
=============================================================================
