SPECIFICATION FairASpec
CONSTANTS
  Email = {e1}
  Code = {k1, k2, k3}
  Request = {r1, r2}
  None = None
  Throttle = 0
  CodeTTL = 1
  Recovery = 2
  MaxAttempts = 2
  MaxStale = 1
INVARIANTS
  WindowBudget
  SingleUse
  NewestMailMatches
PROPERTIES
  DeadEndsEnd
