CONSTANTS
  MaxCalls = 4
  CancelAt <- Anywhere
SPECIFICATION FairSpec
CHECK_DEADLOCK FALSE
INVARIANTS
  OwnResponse
  MapDrained
PROPERTIES
  KeepsPromise
  ReturnsInStep
