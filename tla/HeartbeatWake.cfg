SPECIFICATION FairSpec
CONSTANTS
  Targets = {t1, t2}
  Reasons = {"interval", "hook"}
  Priority <- TwoKinds
  Delays = {0, 1}
  Coalesce = 1
  Retry = 2
  Batches = {1, 2}
  MaxRequests = 3
  MaxHandlers = 3
  MaxFailures = 2
INVARIANTS
  NoWakeLost
  OneBatch
PROPERTIES
  CooldownKeptOnceArmed
  EveryWakeServed
CHECK_DEADLOCK FALSE
