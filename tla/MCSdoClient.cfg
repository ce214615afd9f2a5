SPECIFICATION FairSpec
CONSTANTS
  Clients = {c1, c2}
  Objects = {o1, o2}
  NoFrame = NoFrame
  QueueSize = 3
  MaxRequests = 4
INVARIANTS
  Inv
  NoLostWakeup
  OwnAnswer
PROPERTIES
  ImplementsBox
  RequestReturns
CHECK_DEADLOCK FALSE
