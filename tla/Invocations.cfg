CONSTANTS
  Workers = {w1}
  StorageDrivers = {"overlay2", "devicemapper"}
SPECIFICATION FairSpecI
INVARIANTS
  TypeOK
  FailureIsUndone
  SuccessIsComplete
  LateSignalIsAllOrNothing
  MountIsReleased
  SuccessIsForever
PROPERTIES
  PriorBundleUntouched
  UnmountedBeforeRemoved
  RemovedUnmounted
  RetryCompletes
