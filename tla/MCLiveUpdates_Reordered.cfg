SPECIFICATION LSpec
CONSTANTS
  Tab = {t1}
  Worker = {w1, w2}
  Nobody = Nobody
  Buffer = 2
  MaxWire = 2
  MaxPosts = 2
  MaxBreaks = 0
CHECK_DEADLOCK FALSE
INVARIANTS
  QuietShowsStored
