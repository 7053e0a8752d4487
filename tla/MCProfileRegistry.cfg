SPECIFICATION Spec
CONSTANTS
  Empty = Empty
  Dids = {d1, d2}
  MaxIx = 2
  MaxFee = 1
  Fees <- MCFees
  Heights <- MCHeights
  MaxLaunches = 2
  MaxLineage = 4
SYMMETRY MCSymmetry
INVARIANTS
  TypeOK
  
  
  ResolutionIsTrue
PROPERTIES
  HistoryIsKept
CHECK_DEADLOCK FALSE
