SPECIFICATION FairSpec
CONSTANTS
  Instances = {i1, i2}
  MaxAttempts = 1
  Monitored = TRUE
INVARIANTS
  OneInstance
  StopsAreHeard
PROPERTIES
  StoppedStaysStopped
  CrashedComesBack
CHECK_DEADLOCK FALSE
