SPECIFICATION CacheSpec
CONSTANTS
  Procs = {p1, p2}
  Entries = {e1, e2}
  Files = 3
  Marker = 2
  MaxCalls = 2
  MaxCrashes = 0
  MayFail = FALSE
CHECK_DEADLOCK FALSE
PROPERTY
  SeesCompletedResult
