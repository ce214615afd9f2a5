SPECIFICATION FairSpec
CONSTANTS
  SeqMod = 2
  Values = {a, wild}
  Refused = {wild}
  MaxForwards = 3
  MaxOthers = 1
INVARIANTS
  TypeOK
  LastForwardedRuns
  TargetInMode
PROPERTIES
  CommandIsAcked
CHECK_DEADLOCK FALSE
