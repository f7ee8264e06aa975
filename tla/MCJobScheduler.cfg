SPECIFICATION FairSpec
CONSTANTS
  MaxJobs = 2
  Tick = {t1, t2}
  MaxTime = 1
  MaxCrashes = 1
  Faults = {"busy", "undelivered"}
INVARIANTS
  Consistent
  OncePerSlot
  OneShotKept
PROPERTIES
  DueFires
CHECK_DEADLOCK FALSE
