SPECIFICATION FairSpec
CONSTANTS
  Push = {1, 2, 3}
  Flush = {f1, f2}
  MaxCrashes = 1
  MaxFailures = 1
  MaxHours = 2
INVARIANTS
  Consistent
PROPERTIES
  PushesLeave
CHECK_DEADLOCK FALSE
