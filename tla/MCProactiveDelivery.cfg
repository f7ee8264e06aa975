SPECIFICATION FairSpec
CONSTANTS
  Deliveries = 3
  Targets = 3
  ChatOf <- MCChatOf
  Dead = {3}
  Staged = {1, 2}
  Foreign = {1}
  Proposer = {p1}
  Drain = drain
  None = none
  ReplayLimit = 2
  MaxAttempts = 1
  MaxFaults = 1
  MaxEnds = 1
  MaxPauses = 1
INVARIANTS
  Consistent
  SentOnce
  OwedIsHeld
PROPERTIES
  Delivered
CHECK_DEADLOCK FALSE
