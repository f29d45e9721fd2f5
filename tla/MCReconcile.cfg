CONSTANTS
  DockerContainers <- MCDockerContainers
SPECIFICATION Spec
INVARIANTS
  TypeOK
  FilesAgree
  MountsAreThere
  LeavesDockersCgroup
  CompleteDoesNotPanic
CHECK_DEADLOCK FALSE
