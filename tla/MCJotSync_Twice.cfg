SPECIFICATION JSpec
CONSTANTS
  Client = {c1, c2}
  Word = {a, b}
  MaxLen = 9
  NoBase = NoBase
  None = None
  MaxErased = 0
  MaxTroubles = 1
SYMMETRY Symmetry
CHECK_DEADLOCK FALSE
INVARIANTS
  NoDuplicates
