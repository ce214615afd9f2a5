SPECIFICATION FootSpec
CONSTANTS
  Byte = 4
  HeadByte = 2
  SrcByte = 1
  TailByte = 3
  ReadMax = 7
  RingSize = 12
  MaxFrames = 3
  MaxFaults = 2
INVARIANTS
  FootInv
  ChunkingIrrelevant
CHECK_DEADLOCK FALSE
