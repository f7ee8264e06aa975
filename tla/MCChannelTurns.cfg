SPECIFICATION FairTurns
CONSTANTS
  m1 = m1
  m2 = m2
  a = a
  Message = {m1, m2}
  Session = {a}
  SessionOf <- MCSessionOf
  MaxAttempts = 2
  MaxRecords = 2
  MaxDedup = 2
  MaxDead = 2
  MaxFaults = 1
  MaxRequeues = 1
  MaxStoreFaults = 1
  NoTurn = NoTurn
  Orphan = Orphan
INVARIANTS
  TurnsConsistent
  RejectedOnlyAfterFault
PROPERTIES
  TurnsSettle
CHECK_DEADLOCK FALSE
