SPECIFICATION FairSpec
CONSTANTS
  Message <- MCMessage
  Session <- MCSession
  SessionOf <- MCSessionOf
  MaxConcurrent = 2
  NoMessage = NoMessage
INVARIANTS
  Consistent
PROPERTIES
  EveryCallSettles
  ImplementsSessionTurns
CHECK_DEADLOCK FALSE
