SPECIFICATION FairSpec
CONSTANTS
  Lanes = {main, cron}
  NoLane = NoLane
  MaxTasks = 3
  Caps = {0, 2}
  MaxResets = 2
INVARIANTS
  ActiveExact
  WorkConserving
  QueueExact
  NoOvertaking
  DrainedIsHonest
PROPERTIES
  StartsWithinCap
  EveryQueuedTaskLeaves
CHECK_DEADLOCK FALSE
