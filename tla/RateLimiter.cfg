\* One user with both buckets, the windows of the default configuration, one sweep.
SPECIFICATION Spec
CONSTANTS
  u1 = u1
  Users <- OneUser
  Limit <- DefaultLimit
  Window <- DefaultWindow
  SweepEvery = 10
  MaxTime = 13
INVARIANTS
  TypeOK
  LastingGrantsBounded
  GrantsUnderSweeps
PROPERTY ImplementsTokenBuckets
CHECK_DEADLOCK FALSE
