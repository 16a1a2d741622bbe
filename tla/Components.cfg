SPECIFICATION Spec
CONSTANTS
  Period = 5
  Holidays = {3, 4}
  Interval = 3
  MaxDelay = 1
  Workers = {w1, w2}
  SchedFaults = {"kill", "beat", "crash", "failure", "slow", "operator", "overrun"}
  MaxTroubles = 1
  MaxMessages = 1
  Procs = {p1, p2}
  Creds = {"old", "new"}
  LockTTL = 2
  MaxHold = 1
  Life = 3
  Buffer = 1
  Retries = 2
  Codes = {k1, k2}
  MaxReconnect = 2
  MaxClients = 2
  MaxActors = 3
  MaxChannel = 1
  MaxSessions = 2
  Universe = {"A"}
  Report <- MCReport
  ScreenRuns = {r1, r2}
  Threshold = 4
  TopN = 2
  StockReturns = {0, 5, 9}
  RankedStocks = 4
  Stocks = {"A", "B", "C"}
  MaxPositions = 2
  MaxHolding = 2
  Cooldown = 1
  Lookback = 3
  Gaps = {1, 3}
  Moves <- MCMoves
  MaxDrawdown <- MCMaxDrawdown
  ReversalShare <- MCReversalShare
INVARIANTS
  OneScheduledRun
  ScheduledSpacing
  GoneOnlyAfterAllChances
  OneIssuer
  NoNeedlessIssue
  FeedFollowsCodes
  GivesUpOnlyWhenDown
  BrowsersCatchUp
  OnlyRefusalExcludes
  SelectionSound
  BoughtOnMerit
  BookSound
  NeverOverheld
PROPERTIES
  DueIsDoneWithoutTrouble
  ShutdownEnds
  GoneAreRemoved
CHECK_DEADLOCK FALSE
