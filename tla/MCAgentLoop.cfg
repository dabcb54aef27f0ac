\* Two interventions, one retry, one exception or crash.
SPECIFICATION FairSpec
CONSTANTS
  MaxItems = 2
  MaxRetries = 1
  MaxFaults = 1
INVARIANT TurnLeavesNothing
PROPERTIES StopEndsTurn EveryItemServed
CHECK_DEADLOCK FALSE
