\* One connection with a queue of two, three events; what a stream that ended has not told.
SPECIFICATION Spec
CONSTANTS
  c1 = c1
  c2 = c2
  Clients <- OneClient
  QueueSize = 2
  MaxEvents = 3
INVARIANT EndIsWhole
CHECK_DEADLOCK FALSE
