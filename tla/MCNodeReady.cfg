SPECIFICATION Spec
CONSTANTS
  Motors = {m1, m2}
  ReportAuto = TRUE
  CalibPolls = 2
  MaxRequests = 4
INVARIANT ReadyIsControllable
