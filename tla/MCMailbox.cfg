SPECIFICATION FairSpec
CONSTANTS
  Depth = 2
  Frames = {f1, f2}
  Empty = Empty
  MaxCalls = 5
  MaxBoots = 1
INVARIANTS
  NoOverrun
  NoTornFrame
  PublishesItsCommand
PROPERTIES
  ImplementsChannel
  CallReturns
CHECK_DEADLOCK FALSE
