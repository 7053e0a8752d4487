SPECIFICATION Spec
CONSTANTS
  tip = tip
  Undeclared = Undeclared
  Callers = {t1, t2, t3}
  Classes <- MCClasses
  Spends <- MCSpends
  Presented <- MCPresented
  Custodies = {"Hot", "Vault"}
  HotLimit = 3
  Enabled = TRUE
  Limits <- MCLimits
  Period = 2
  Cap = 3
  MaxPrompts = 1
  MaxLedger = 2
  MaxAmount = 9
  MaxClock = 3
  MaxCalls = 3
  Purse <- MCPurse
  Amounts = {0, 1, 2, 4, 7}
  Fees = {0, 1, 2, 3}
  MostInputs = 2
  MaxFee = 2
  Largest = 14
  Reserve = 9
  ShareBps = 5000
  ChainNow = 2
SYMMETRY MCSymmetry
INVARIANTS
  TypeOK
  RollingCap
  PromptCeiling
  PermissionsAreEarned
  BundlesAreExact
  GatesTakeOnlyTheRequest
  SummaryHidesNothing
  CapBoundsTheLoss
PROPERTIES
  OverCapIsTrue
CHECK_DEADLOCK FALSE
