\* Two runs, one permit, no stop: every task gets its turn and ends.
SPECIFICATION FairSpec
CONSTANTS
  r1 = r1
  r2 = r2
  p1 = p1
  Runs <- TwoRuns
  Replicas <- OneReplica
  MaxConcurrent = 1
  Checkpoints = 1
  ForeignKeys = TRUE
  NoReplica = NoReplica
  MaxStops = 0
  MaxDbErrors = 0
PROPERTY TaskEnds
CHECK_DEADLOCK FALSE
