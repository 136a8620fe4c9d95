SPECIFICATION Spec
CONSTANTS
  lib = lib
  mod = mod
  top = top
  c1 = c1
  c2 = c2
  Clones = {c1, c2}
  Packages = {lib, mod, top}
  Boards = {top}
  Graphs <- MCGraphs
  Choices <- MCChoices
  Line = 10
  MaxRuns = 2
  MaxEdits = 1
  MaxCrashes = 1
INVARIANTS TagsAreOnMain VersionsAreUnique RolledBack PinsAreFresh WavesAdvance
SYMMETRY Symmetry
CHECK_DEADLOCK FALSE
