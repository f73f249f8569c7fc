SPECIFICATION FairSpec
CONSTANTS
  MaxEdits = 3
  MaxRequests = 1
  MaxPolls = 1
  MaxFailures = 3
INVARIANTS
  CleanHandover
PROPERTIES
  EditApplied
CHECK_DEADLOCK FALSE
