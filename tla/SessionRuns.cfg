SPECIFICATION FairSpec
CONSTANTS
  r1 = r1
  r2 = r2
  r3 = r3
  r4 = r4
  s1 = s1
  s2 = s2
  s3 = s3
  Runs = {r1, r2, r3, r4}
  CronRuns = {r4}
  Sessions = {s1, s2, s3}
  SessionOf <- MCSessionOf
  MainCap = 1
  MaxResets = 1
INVARIANTS
  OneRunPerSession
  SlotsAgree
PROPERTIES
  EveryRunSettles
  QueuedWorkStarts
CHECK_DEADLOCK FALSE
