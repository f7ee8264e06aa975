SPECIFICATION TurnsSpec
CONSTANTS
  m1 = m1
  m2 = m2
  a = a
  Message = {m1, m2}
  Session = {a}
  SessionOf <- MCSessionOf
  MaxAttempts = 2
  MaxRecords = 2
  MaxDedup = 2
  MaxDead = 2
  MaxFaults = 1
  MaxRequeues = 0
  MaxStoreFaults = 0
  NoTurn = NoTurn
  Orphan = Orphan
INVARIANTS
  NoTurnDropped
CHECK_DEADLOCK FALSE
