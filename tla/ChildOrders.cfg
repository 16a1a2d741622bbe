SPECIFICATION Spec
CONSTANTS
  Orders = {o1, o2}
  NoOrder = none
  Submitters = {s1}
  Trackers = {t1}
  Quantities = {1, 2}
  HttpRetryCount = 2
  MaxAttempts = 1
  FaultKinds = {"timeout", "server_error", "query_error"}
  MaxFaults = 1
  MaxRecoveries = 0
SYMMETRY Symmetry
INVARIANTS LedgerSound NoHiddenRemainder
