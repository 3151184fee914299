SPECIFICATION HSpec
CONSTANTS
  Owner = {o1, o2}
  Name = {n1, n2}
  Unfit = Unfit
  NoHabit = NoHabit
  MaxId = 3
  LastDay = 1
  MaxCheckIns = 1
  Spread = 1
SYMMETRY Symmetry
INVARIANTS
  DenseOrder
  CheckInsInside
  IdsAreFinal
PROPERTIES
  OwnersApart
  ChangesInvalidate
