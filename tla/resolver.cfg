SPECIFICATION Spec
CONSTANTS
  a = a
  b = b
  c = c
  std = std
  P = P
  Q = Q
  R = R
  Ids <- MCIds
  IdOrder <- MCIdOrder
  StdlibIds <- MCStdlib
  Versions <- MCVersions
  Registries <- MCRegistries
  Packages <- MCPackages
  PackageOrder <- MCPackageOrder
  Workspaces <- MCWorkspaces
  Overrides <- MCOverrides
INVARIANTS
  MarksMatchCalls
  ClosureServesBelow
PROPERTIES
  MemoIsStable
  CallReturns
