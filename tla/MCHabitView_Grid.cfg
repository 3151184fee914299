SPECIFICATION VSpec
CONSTANTS
  Habit = {h1, h2, h3}
  LastWeek = 1
  MaxPress = 3
  MaxDrop = 2
  Budget <- MCBudget
  None = None
SYMMETRY Symmetry
CHECK_DEADLOCK FALSE
INVARIANTS
  QuietShowsWeek
  BusyIsWaiting
  IntentKept
PROPERTIES
  SavedWasReadBack
