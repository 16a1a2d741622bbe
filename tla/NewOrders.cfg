SPECIFICATION Spec
CONSTANTS
  Orders = {o1}
  NoOrder = none
  Submitters = {s1, s2}
  Trackers = {t1, t2}
  Quantities = {2}
  HttpRetryCount = 2
  MaxAttempts = 1
  FaultKinds = {"crash", "timeout", "server_error", "rate_limit", "query_error", "query_refused"}
  MaxFaults = 2
  MaxRecoveries = 1
SYMMETRY Symmetry
INVARIANTS TypeOK SubmissionExclusive OneAnsweredSubmission LedgerSound
PROPERTIES TerminalIsFinal RefinesLifecycle
