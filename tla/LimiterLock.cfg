SPECIFICATION LimiterSpec
CONSTANTS
  Tries = {r1, r2}
  NoEntry = NoEntry
  Max = 3
  Window = 3
  Lock = 2
  MaxClock = 8
SYMMETRY Attempts
CHECK_DEADLOCK FALSE
INVARIANTS EntryOK BurstIsBounded
PROPERTY LockHolds
