SPECIFICATION HostSpec
CONSTANTS
  Process = {p1, p2, p3}
  None = None
  MaxRuns = 3
  MaxCrashes = 2
  SlowHolders = TRUE
SYMMETRY Processes
INVARIANTS
  Consistent
  OneTransaction
CHECK_DEADLOCK FALSE
