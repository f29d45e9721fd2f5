\* One instance; one function more than docker.go ever registers.
CONSTANTS
  Rbs = {r1}
  MaxFuncs = 4
SPECIFICATION WaiterFairSpec
INVARIANTS
  TypeOK
  DoubleRunAgrees
  UnsignalledIsExact
  AbortUndoesRegistered
  CrashOnlyInTornRegister
PROPERTIES
  UndoesDownward
  SignalReleasesWaiters
  ImplementsUndoLog
