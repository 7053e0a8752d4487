SPECIFICATION Spec
CONSTANTS
  MinConfirmationDepth = 3
  Bundles <- MCBundles
  Coins <- MCCoins
  Spends <- MCSpends
  Makes <- MCMakes
  Reach = 0
  Lag = 0
  MaxPeak = 7
  Transfers = {"T", "U", "N"}
  DidMints = {"D"}
  Distributors = {"L"}
  Watched <- MCWatched
  Funding <- MCFunding
  Replaces <- MCReplaces
  Resends <- MCResends
  NoBundle = "none"
  Families <- FamiliesOfMints
  MinDepth = 2
CHECK_DEADLOCK FALSE
INVARIANTS FailedIsDead
