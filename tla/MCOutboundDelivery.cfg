SPECIFICATION FairSpec
CONSTANTS
  m1 = m1
  m2 = m2
  o = o
  Message = {m1, m2}
  Origin = {o}
  OriginOf <- MCOriginOf
  NoOrigin = NoOrigin
  Progress = {m1}
  MaxAttempts = 2
  MaxRecords = 2
  MaxQueue = 1
  MaxFaults = 2
  MaxRetries = 1
  NoMessage = NoMessage
INVARIANTS
  Consistent
  OpenIsOwned
PROPERTIES
  OpenIsSettled
  ImplementsReceipts
CHECK_DEADLOCK FALSE
