SPECIFICATION Spec
CONSTANTS
  Owner = {o1, o2}
  BlockId = {i1, i2, i3}
  Label = {l1}
  Blank = Blank
  BlockType = {shallow}
  Shallow = shallow
  Unset = Unset
  Unknown = Unknown
  MinDayStart = 0
  MaxDayEnd = 4
  DefaultDayStart = 1
  DefaultDayEnd = 3
  SlotInput <- MCSlotInput
  SpanInput <- MCSpanInput
  MaxLayout = 2
  NoRow = NoRow
SYMMETRY OwnersToo
INVARIANTS
  TypeOK
  PlanLegal
  LayoutExact
  HoursPickerExact
PROPERTIES
  OwnerIsolation
