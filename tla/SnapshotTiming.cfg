SPECIFICATION Spec
CONSTANTS
  a = a
  b = b
  c = c
  Stocks = {a, b, c}
  Price <- MCPrice
  Portfolios <- MCInvested
  Cashes <- MCCashes
  Targets <- MCTargets
  Trackers = {w}
  FaultKinds = {}
  MaxFaults = 0
PROPERTY NoOrderAfterSnapshot
CHECK_DEADLOCK FALSE
