SPECIFICATION Spec
CONSTANTS
  x1 = x1
  x2 = x2
  k1 = k1
  NoRequest = NoRequest
  Builders = {b1, b2}
  Coins <- MCCoins
  CatCoins <- MCCatCoins
  Amount <- MCAmount
  Requests <- MCRequests
  Ttl = 1
  MaxAttempts = 2
  MaxInputs = 2
  MaxAmount = 7
  SampleCoins = {s1, s2, s3}
  SampleAmounts = {1, 2, 3}
  SampleMax = 7
  MaxClock = 2
  MaxId = 2
SYMMETRY MCSymmetry
INVARIANTS
  TypeOK
  NoOrphanReservation
  SelectionIsOptimal
PROPERTIES
  RetakenOnlyAfterLapse
  BuildsRunDown
  ImplementsLock
CHECK_DEADLOCK FALSE
