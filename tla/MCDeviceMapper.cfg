CONSTANTS
  Names <- MCNames
  Paths <- MCPaths
  Contents = {"f1", "f2"}
  MountPaths <- MCMountPaths
SPECIFICATION Spec
INVARIANTS
  TypeOK
  FilterKeepsLeaves
  UnchangedSurvives
  MigratedWhereParentsExist
CHECK_DEADLOCK FALSE
