SPECIFICATION TokenSpec
CONSTANTS
  Procs = {p1, p2}
  Creds = {"old", "new"}
  LockTTL = 2
  MaxHold = 1
  Life = 3
  Buffer = 1
  Retries = 2
INVARIANT ReturnsOwnToken
