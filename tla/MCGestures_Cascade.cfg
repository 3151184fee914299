SPECIFICATION GSpec
CONSTANTS
  Owner = {o1}
  me = o1
  FirstDay <- MCAnyDay
  BlockId = {i1, i2, i3}
  Label = {l1}
  Blank = Blank
  BlockType = {shallow}
  Shallow = shallow
  Unset = Unset
  Unknown = Unknown
  MinDayStart = 1
  MaxDayEnd = 7
  DefaultDayStart = 1
  DefaultDayEnd = 7
  SlotInput <- MCSlotInput
  SpanInput <- MCSpanInput
  MaxLayout = 2
  NoRow = NoRow
  None = None
  NoLayout = NoLayout
  Pointers = TRUE
  Keyboards = TRUE
  MaxForeign = 0
  MaxInFlight = 0
  MaxPatches = 0
SYMMETRY Symmetry
CHECK_DEADLOCK FALSE
INVARIANTS
  ProposalsLegal
  PushMinimal
  CompressClosestFirst
  ResizeHasNoHoles
  EveryLayoutReachable
