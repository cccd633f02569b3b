\* Two connections with queues of two, three events.
SPECIFICATION FairSpec
CONSTANTS
  c1 = c1
  c2 = c2
  Clients <- TwoClients
  QueueSize = 2
  MaxEvents = 3
INVARIANTS
  TypeOK
  NothingLost
  EndIsComplete
PROPERTIES
  ImplementsDelivery
  StreamEnds
CHECK_DEADLOCK FALSE
