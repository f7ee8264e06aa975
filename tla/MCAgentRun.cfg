SPECIFICATION FairSpec
CONSTANTS
  MaxMessages = 3
  MaxCalls = 2
  MaxBatches = 1
  Faults = {"gate", "throw"}
  MaxFaults = 1
  SteeringMode = "one-at-a-time"
  FollowUpMode = "all"
INVARIANTS
  Consistent
  ContextAgrees
  ResultsFollow
PROPERTIES
  AbortedOpensNone
  RunEnds
CHECK_DEADLOCK FALSE
