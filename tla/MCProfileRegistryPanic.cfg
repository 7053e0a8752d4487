SPECIFICATION Spec
CONSTANTS
  Empty = Empty
  Dids = {d1, d2}
  MaxIx = 1
  MaxFee = 1
  Fees <- MCFees
  Heights <- MCHeights
  MaxLaunches = 2
  MaxLineage = 2
SYMMETRY MCSymmetry
INVARIANTS
  NoMutatorPanics
CHECK_DEADLOCK FALSE
