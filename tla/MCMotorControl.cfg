SPECIFICATION FairSpec
CONSTANTS
  MboxDepth = 2
  SeqMod = 2
  MgmtCalls = {"estop"}
  FrameKinds = {"control", "mit", "mitMulti", "clearFault"}
  WebCommands = {"enable"}
  SdoPowers = {TRUE}
  MaxCalls = 3
  MaxWeb = 1
  MaxLoss = 1
INVARIANTS
  TypeOK
  LastCommandWins
  
  ClearIsAPulse
PROPERTIES
  CommandIsTaken
CHECK_DEADLOCK FALSE
