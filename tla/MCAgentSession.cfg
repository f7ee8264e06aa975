SPECIFICATION FairSession
CONSTANTS
  Call = {c1, c2}
  QueuedMsg = {m1}
  None = None
  MaxRetries = 1
  MaxSteps = 1
  MaxAborts = 1
  MaxCompacts = 1
INVARIANTS
  SessionConsistent
  SettledIsClean
PROPERTIES
  ImplementsPrompts
  PromptReturns
CHECK_DEADLOCK FALSE
