SPECIFICATION FairSpec
CONSTANTS
  Coins = {c1, c2}
  Depth = 2
  MaxPeak = 7
  MaxReorgs = 1
  CrashUnsaved = FALSE
  Abandons = TRUE
  Lossy = FALSE
  Empty = Empty
PROPERTY PaidDidBecomesAProfile
CHECK_DEADLOCK FALSE
