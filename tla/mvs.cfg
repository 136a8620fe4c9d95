SPECIFICATION Spec
CONSTANTS
  a = a
  b = b
  c = c
  std = std
  Ids <- MCIds
  StdlibIds <- MCStdlib
  Versions <- MCVersions
  Registries <- MCRegistries
  Inputs <- MCInputs
INVARIANTS
  ClosureComplete
  Grounded
PROPERTIES
  FulfilsContract
  Terminates
