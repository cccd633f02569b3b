\* One connection with a queue of two, four events: streams that never end.
SPECIFICATION FairSpec
CONSTANTS
  c1 = c1
  c2 = c2
  Clients <- OneClient
  QueueSize = 2
  MaxEvents = 4
PROPERTY EveryStreamEnds
CHECK_DEADLOCK FALSE
