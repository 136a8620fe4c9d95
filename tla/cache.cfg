SPECIFICATION CacheSpec
CONSTANTS
  Procs = {p1, p2}
  Entries = {e1, e2}
  Files = 3
  Marker = 2
  MaxCalls = 2
  MaxCrashes = 1
  MayFail = TRUE
CHECK_DEADLOCK FALSE
INVARIANTS
  IndexedIsComplete
PROPERTIES
  MarkedIsKept
  CallReturns
