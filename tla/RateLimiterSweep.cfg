\* The windows of the default configuration and one sweep; the promise without it.
SPECIFICATION Spec
CONSTANTS
  u1 = u1
  Users <- OneUser
  Limit <- DefaultLimit
  Window <- DefaultWindow
  SweepEvery = 10
  MaxTime = 13
INVARIANT GrantsBounded
CHECK_DEADLOCK FALSE
