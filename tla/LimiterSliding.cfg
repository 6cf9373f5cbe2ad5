SPECIFICATION LimiterSpec
CONSTANTS
  Tries = {r1}
  NoEntry = NoEntry
  Max = 3
  Window = 3
  Lock = 2
  MaxClock = 8
SYMMETRY Attempts
CHECK_DEADLOCK FALSE
INVARIANT MaxFailuresLock
