SPECIFICATION FairSpec
CONSTANTS
  Message = {m1, m2}
  MaxAttempts = 2
  MaxRecords = 2
  MaxDedup = 1
  MaxDead = 1
  MaxFaults = 2
  MaxRequeues = 1
INVARIANTS
  Consistent
  OwedIsOnDisk
PROPERTIES
  AckIsFinal
  HandoffDrains
  ImplementsCustody
CHECK_DEADLOCK FALSE
