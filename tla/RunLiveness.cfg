\* One run on the default database, two stops, no failing transaction; what must eventually happen.
SPECIFICATION FairSpec
CONSTANTS
  r1 = r1
  r2 = r2
  p1 = p1
  Runs <- OneRun
  Replicas <- OneReplica
  MaxConcurrent = 1
  Checkpoints = 2
  ForeignKeys = FALSE
  NoReplica = NoReplica
  MaxStops = 2
  MaxDbErrors = 0
PROPERTIES
  TaskEnds
  NoRunStuckRunning
  CancelTakesEffect
CHECK_DEADLOCK FALSE
