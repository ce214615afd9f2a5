SPECIFICATION WebSpec
CONSTANTS
  Depth = 2
  Motors = {m1, m2}
  Commands = {c1, c2}
  Nothing = nothing
  Frames <- AlgorithmFrames
  Empty <- NoFrame
  MaxCalls = 3
  MaxBoots = 0
  MaxPages = 2
INVARIANTS
  ExecutedAsGiven
CHECK_DEADLOCK FALSE
