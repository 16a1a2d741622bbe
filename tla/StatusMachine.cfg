SPECIFICATION Spec
CONSTANTS
  Orders = {o1}
  NoOrder = none
  Submitters = {s1}
  Trackers = {t1, t2}
  Quantities = {2}
  HttpRetryCount = 1
  MaxAttempts = 1
  FaultKinds = {}
  MaxFaults = 0
  MaxRecoveries = 1
SYMMETRY Symmetry
PROPERTIES LegalTransitions
