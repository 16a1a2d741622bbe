SPECIFICATION FairSpec
CONSTANTS
  Orders = {o1, o2}
  NoOrder = none
  Submitters = {s1}
  Trackers = {t1}
  Quantities = {1}
  HttpRetryCount = 1
  MaxAttempts = 1
  FaultKinds = {}
  MaxFaults = 0
  MaxRecoveries = 0
PROPERTIES TimeoutCancelsRemainder
