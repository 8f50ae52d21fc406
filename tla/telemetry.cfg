SPECIFICATION FairSpec
CONSTANTS
  Ids = {"7", "8"}
  Origins <- MCOrigins
  Depth = 2
  MaxAttempts = 2
INVARIANTS IInv IdsSurvive TraceIsTrue
PROPERTY TraceIsComplete
CHECK_DEADLOCK FALSE
