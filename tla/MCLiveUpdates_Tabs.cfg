SPECIFICATION FairLSpec
CONSTANTS
  Tab = {t1}
  Worker = {w1, w2}
  Nobody = Nobody
  Buffer = 1
  MaxWire = 1
  MaxPosts = 3
  MaxBreaks = 1
CHECK_DEADLOCK FALSE
INVARIANTS
  OnlyCommitted
  QuietShowsOrdered
PROPERTIES
  ReconnectHeals
