SPECIFICATION FairSpec
CONSTANTS
  m1 = m1
  m2 = m2
  m3 = m3
  m4 = m4
  Msgs = {m1, m2, m3, m4}
  Settings <- Mixed
  RouteOf <- LastElsewhere
  Unroutable = "unroutable"
  MaxQueues = 2
  Direct = {m1, m2}
  IdOf <- Redelivered
  NoId = NoId
  Expiring = {m2}
  MaxFails = 1
  MaxClears = 1
INVARIANTS
  NoSilentLoss
  RunOnce
  InOrder
  DrainAlive
  ClearedStaysCleared
PROPERTIES
  QueuedGetsRun
CHECK_DEADLOCK FALSE
