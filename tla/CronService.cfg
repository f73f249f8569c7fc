SPECIFICATION Spec
CONSTANTS
    j1 = j1
    j2 = j2
    Jobs = {j1, j2}
    Kind <- MCKind
    KeepAfterRun = {}
    Period = 2
    Gap = 1
    Recheck = 3
    Stagger = 1
    BackoffStep = 1
    Stuck = 1
    MaxAttempts = 1
    MaxMissed = 1
    Concurrency = 1
    Results = {"ok", "transient"}
    MaxTime = 3
    MaxEvents = 2
INVARIANTS
      NoOverlap
    MarkerOwned
    SchedulerAlive
PROPERTIES
    SlotKept
    BackoffKept
CHECK_DEADLOCK FALSE
