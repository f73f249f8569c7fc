SPECIFICATION Spec
CONSTANTS
  m1 = m1
  m2 = m2
  m3 = m3
  m4 = m4
  Msgs = {m1, m2, m3}
  Settings <- Roomy
  RouteOf <- AllSameRoute
  Unroutable = "unroutable"
  MaxQueues = 3
  Direct = {m1}
  IdOf <- Distinct
  NoId = NoId
  Expiring = {}
  MaxFails = 0
  MaxClears = 1
CHECK_DEADLOCK FALSE
INVARIANTS
  OnlyClearedVanish
