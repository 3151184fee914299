SPECIFICATION GSpec
CONSTANTS
  Owner = {o1}
  me = o1
  FirstDay <- MCWholeDay
  BlockId = {i1, i2}
  Label = {l1}
  Blank = Blank
  BlockType = {shallow}
  Shallow = shallow
  Unset = Unset
  Unknown = Unknown
  MinDayStart = 1
  MaxDayEnd = 4
  DefaultDayStart = 1
  DefaultDayEnd = 4
  SlotInput <- MCSlotInput
  SpanInput <- MCSpanInput
  MaxLayout = 2
  NoRow = NoRow
  None = None
  NoLayout = NoLayout
  Pointers = FALSE
  Keyboards = TRUE
  MaxForeign = 1
  MaxInFlight = 1
  MaxPatches = 1
SYMMETRY Symmetry
CHECK_DEADLOCK FALSE
INVARIANTS
  QuietShowsServer
