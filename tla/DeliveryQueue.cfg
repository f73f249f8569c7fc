SPECIFICATION FairSpec
CONSTANTS
  Ids = {1, 2}
  BestEffort = {2}
  Watched = {2}
  MaxRetries = 2
  MaxCrashes = 2
  MaxFaults = 1
INVARIANTS
  TypeOK
  SetAsideForCause
PROPERTIES
  Implements
  AckedNotReplayed
  EveryEntryResolved
CHECK_DEADLOCK FALSE
