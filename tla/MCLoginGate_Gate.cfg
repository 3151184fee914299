SPECIFICATION GSpec
CONSTANTS
  Source = {s1, s2}
  Every = 2
  Burst = 1
  GlobalEvery = 2
  GlobalBurst = 2
  MaxIdle = 1
  NoEntry = NoEntry
  Window = 2
  Request = {r1, r2}
  Idle = Idle
  Limit = 1
  Span = 3
  MaxStale = 1
  Email = {a1, a2}
  None = None
SYMMETRY Symmetry
INVARIANTS
  RTypeOK
  WithinBudgets
  CapHolds
  NeverMailedAgain
PROPERTIES
  Unswept
