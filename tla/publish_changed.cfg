SPECIFICATION Spec
CONSTANTS
  lib = lib
  mod = mod
  top = top
  c1 = c1
  c2 = c2
  Clones = {c1}
  Packages = {lib, mod}
  Boards = {mod}
  Graphs <- MCGraphs
  Choices <- MCChoices
  Line = 10
  MaxRuns = 2
  MaxEdits = 1
  MaxCrashes = 0
PROPERTIES ChangedIsPlanned
CHECK_DEADLOCK FALSE
