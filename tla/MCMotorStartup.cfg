SPECIFICATION Spec
CONSTANTS
  Motors = {m1, m2}
  AutoEnable = {m1}
  MaxCommands = 2
  MaxFaults = 1
INVARIANTS
  TypeOK
  FlagMatchesDrive
PROPERTIES
  BootupIsServed
  LockComesBack
CHECK_DEADLOCK FALSE
