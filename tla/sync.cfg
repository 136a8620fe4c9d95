SPECIFICATION Spec
CONSTANTS
  a = a
  b = b
  c = c
  P = P
  Q = Q
  Ids <- MCIds
  IdOrder <- MCIdOrder
  StdlibIds = {}
  Versions <- MCVersions
  Registries <- MCRegistries
  Packages <- MCPackages
  PackageOrder <- MCPackageOrder
  Overrides <- MCOverrides
  Codes <- MCCodes
  Disks <- MCDisks
  Indexes <- MCIndexes
  TagSets <- MCTagSets
  VendorIds <- MCVendorIds
  MaxCommands = 3
CHECK_DEADLOCK FALSE
INVARIANTS
  SyncedIsSufficient
  VendorMatchesClosures
  RefusedChangesNothing
  QuietSyncSettles
PROPERTIES
  PinsOnlyRise
