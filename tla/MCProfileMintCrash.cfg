SPECIFICATION Spec
CONSTANTS
  Coins = {c1, c2, c3}
  Depth = 2
  MaxPeak = 7
  MaxReorgs = 0
  CrashUnsaved = TRUE
  Abandons = FALSE
  Lossy = TRUE
  Empty = Empty
INVARIANT OneIdentity
CHECK_DEADLOCK FALSE
