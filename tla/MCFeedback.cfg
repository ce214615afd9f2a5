SPECIFICATION FairSpec
CONSTANTS
  Parts = {p, q}
  MaxCycles = 3
INVARIANTS
  Inv
  InTimeIsWhole
  NeverBack
  ReportNotOlder
PROPERTIES
  NewReportIsSeen
CHECK_DEADLOCK FALSE
