SPECIFICATION FairSpec
CONSTANTS
  a = a
  b = b
  c = c
  Stocks = {a, b, c}
  Price <- MCPrice
  Portfolios <- MCPortfolios
  Cashes <- MCCashes
  Targets <- MCTargets
  Trackers = {w}
  FaultKinds = {"account", "cash", "queue", "abort", "refused", "snapshot"}
  MaxFaults = 1
INVARIANTS TypeOK BuysCovered NothingLeftBehind CleanRunReachesTarget OneSnapshot
PROPERTIES RunEnds
CHECK_DEADLOCK FALSE
