SPECIFICATION Spec
CONSTANTS
  tip = tip
  Undeclared = Undeclared
  Profiles = {0, 1}
  Classes = {tip}
  MinWindow = 3
  MaxU64 = 7
  g1 = g1
  g2 = g2
  s1 = s1
  None = None
  Attempts <- MCAttempts
  GateAttempts <- MCGateAttempts
  Skew = 1
  Ttl = 1
  MaxWall = 1
  MaxIssued = 2
  MaxCount = 2
  Idle = 1
  MaxNow = 2
SYMMETRY MCSymmetry
INVARIANTS NothingPassesTwice OnlyTheHeldUnlockIsLive CustodyHolds
PROPERTIES LapseIsUndoneOnlyMidTouch
CHECK_DEADLOCK FALSE
