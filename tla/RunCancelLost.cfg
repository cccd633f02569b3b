\* One run, no stop, no error; a cancellation between the commit of the row and its submission.
SPECIFICATION Spec
CONSTANTS
  r1 = r1
  r2 = r2
  p1 = p1
  Runs <- OneRun
  Replicas <- OneReplica
  MaxConcurrent = 1
  Checkpoints = 1
  ForeignKeys = TRUE
  NoReplica = NoReplica
  MaxStops = 0
  MaxDbErrors = 0
INVARIANT AcceptedCancelHonoured
CHECK_DEADLOCK FALSE
