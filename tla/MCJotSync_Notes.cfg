SPECIFICATION FairJSpec
CONSTANTS
  Client = {c1, c2}
  Word = {a, b}
  MaxLen = 3
  NoBase = NoBase
  None = None
  MaxErased = 1
  MaxTroubles = 1
CHECK_DEADLOCK FALSE
INVARIANTS
  JTypeOK
  SyncedWasCommitted
  SavedIsStored
  NeitherSideLost
  StoredOnce
PROPERTIES
  Converge
