SPECIFICATION Spec
CONSTANTS
  MinConfirmationDepth = 3
  Bundles <- MCBundles
  Coins <- MCCoins
  Spends <- MCSpends
  Makes <- MCMakes
  Reach = 1
  Lag = 1
  MaxPeak = 6
  Transfers = {"T", "U", "N"}
  DidMints = {"D"}
  Distributors = {"L"}
  Watched <- MCWatched
  Funding <- MCFunding
  Replaces <- MCReplaces
  Resends <- MCResends
  NoBundle = "none"
  Families <- Families3
  MinDepth = 4
INVARIANTS TypeOK RecordsAreProven FailedTransferIsDead ConfirmedIsFinal PaidOnce
CONSTRAINT OneCallAtATime
CHECK_DEADLOCK FALSE
