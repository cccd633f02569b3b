\* Two addresses, two requests in hand, a lock at the third failure.
SPECIFICATION Spec
CONSTANTS
  Emails = {e1, e2}
  Handlers = {h1, h2}
  MaxFailed = 3
  LockTime = 2
  MaxTime = 4
SYMMETRY Symmetry
INVARIANTS
  TypeOK
  AdminBootstrap
  CounterExact
  CountBound
PROPERTY LockStands
CHECK_DEADLOCK FALSE
