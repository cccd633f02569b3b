---------------------------- MODULE MCRunLifecycle ----------------------------
(* Instances of RunLifecycle for TLC.                                         *)
EXTENDS RunLifecycle, TLC

CONSTANTS r1, r2, p1

OneRun == {r1}
TwoRuns == {r1, r2}
OneReplica == {p1}
RunSymmetry == Permutations(TwoRuns)
=============================================================================
