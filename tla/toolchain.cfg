SPECIFICATION Spec
CONSTANTS
  Procs = {p, q}
  Versions = {1, 2}
  Lane <- MCLane
  Nightly = 0
  MaxBuild = 2
  MaxCalls = 1
  MaxCrashes = 1
CHECK_DEADLOCK FALSE
SYMMETRY Symmetry
INVARIANTS SeenIsComplete BuildsDoNotMix
PROPERTIES RunsWhatFits LaneKeepsNewest
