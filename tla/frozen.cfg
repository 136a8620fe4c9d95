SPECIFICATION Spec
CONSTANTS
  a = a
  b = b
  std = std
  P = P
  Q = Q
  Ids <- MCIds
  StdlibIds <- MCStdlib
  Versions <- MCVersions
  Registries <- MCRegistries
  Packages <- MCPackages
  Workspaces <- MCWorkspaces
INVARIANTS
  SufficientNeverMisses
  BuiltIsComplete
PROPERTIES
  BuildEnds
