CONSTANTS
  Names <- MCNames
  Paths <- MCPaths
  Contents = {"f1", "f2"}
  MountPaths <- MCMountPaths
SPECIFICATION Spec
INVARIANTS
  MigratesLayer
CHECK_DEADLOCK FALSE
