SPECIFICATION Spec
CONSTANTS
  Procs = {p, q}
  Count = 3
  Files <- MCFiles
  Directories <- MCDirectories
  Oldest = {1, 2}
  MaxVersion = 1
  MaxCalls = 2
  MaxFaults = 1
CHECK_DEADLOCK FALSE
INVARIANTS TableSettles UndisturbedIsNearest
PROPERTIES CallEnds
