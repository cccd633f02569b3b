\* One run and one stop: the queue after a restart.
SPECIFICATION FairSpec
CONSTANTS
  r1 = r1
  r2 = r2
  p1 = p1
  Runs <- OneRun
  Replicas <- OneReplica
  MaxConcurrent = 1
  Checkpoints = 1
  ForeignKeys = TRUE
  NoReplica = NoReplica
  MaxStops = 1
  MaxDbErrors = 0
PROPERTY NoRunStuckQueued

CHECK_DEADLOCK FALSE
