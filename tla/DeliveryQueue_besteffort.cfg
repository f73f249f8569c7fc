SPECIFICATION Spec
CONSTANTS
  Ids = {1}
  BestEffort = {1}
  Watched = {1}
  MaxRetries = 2
  MaxCrashes = 1
  MaxFaults = 0
INVARIANTS
  FailedNotAcked
CHECK_DEADLOCK FALSE
