SPECIFICATION Spec
CONSTANTS
  Coins = {c1, c2, c3}
  Depth = 2
  MaxPeak = 7
  MaxReorgs = 1
  CrashUnsaved = FALSE
  Abandons = FALSE
  Lossy = TRUE
  Empty = Empty
SYMMETRY MCSymmetry
INVARIANTS TypeOK OneIdentity NotLaunchedIsTrue RecordedIsOnChain 
PROPERTIES ImplementsRegistry
CHECK_DEADLOCK FALSE
