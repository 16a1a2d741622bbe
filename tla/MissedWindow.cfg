SPECIFICATION FairScheduleSpec
CONSTANTS
  Period = 7
  Holidays = {5, 6}
  Interval = 4
  MaxDelay = 1
  Workers = {w1}
  SchedFaults = {"kill"}
  MaxTroubles = 1
  MaxMessages = 1
PROPERTY DueIsDone
CHECK_DEADLOCK FALSE
