\* One run on SQLite, no stop, no error; what a deletion leaves behind.
SPECIFICATION Spec
CONSTANTS
  r1 = r1
  r2 = r2
  p1 = p1
  Runs <- OneRun
  Replicas <- OneReplica
  MaxConcurrent = 1
  Checkpoints = 1
  ForeignKeys = FALSE
  NoReplica = NoReplica
  MaxStops = 0
  MaxDbErrors = 0
INVARIANT NoOrphanChildren
CHECK_DEADLOCK FALSE
