SPECIFICATION FairSpec
CONSTANTS
  Orders = {o1}
  NoOrder = none
  Submitters = {s1}
  Trackers = {t1, t2}
  Quantities = {1}
  HttpRetryCount = 2
  MaxAttempts = 2
  FaultKinds = {"timeout", "server_error", "rate_limit", "query_refused"}
  MaxFaults = 2
  MaxRecoveries = 1
INVARIANTS PendingOrderIsQueued LiveOrderIsTracked
PROPERTIES QueuedOrderIsClaimed LiveOrderSettles
