SPECIFICATION FairSpec
CONSTANTS
  Motors = {m1, m2}
  ReportAuto = TRUE
  CalibPolls = 2
  MaxRequests = 4
INVARIANTS
  CalibrationExcludesRt
  SensorFollowsCalibration
  CancelHolds
  ToggleMatches
PROPERTIES
  CalibrationEnds
