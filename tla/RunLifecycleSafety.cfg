\* Two runs compete for one permit in one process, foreign keys enforced; any two stops, one failing transaction.
SPECIFICATION Spec
CONSTANTS
  r1 = r1
  r2 = r2
  p1 = p1
  Runs <- TwoRuns
  Replicas <- OneReplica
  MaxConcurrent = 1
  Checkpoints = 1
  ForeignKeys = TRUE
  NoReplica = NoReplica
  MaxStops = 2
  MaxDbErrors = 1
SYMMETRY RunSymmetry
INVARIANTS
  TypeOK
  PermitsAccounted
  NoStrandedRun
  CancelHonoured
PROPERTY ImplementsContract
CHECK_DEADLOCK FALSE
