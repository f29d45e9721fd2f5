\* No undo functions: what happens inside run() is the Rollback run's subject.
CONSTANTS
  w1 = w1
  w2 = w2
  c1 = c1
  c2 = c2
  Workers = {w1, w2}
  Ctrs = {c1, c2}
  Lookups <- MCLookups
  Names <- MCNames
  Setups <- MCSetups
  MaxFuncs = 0
  RetCap = 1
SPECIFICATION FairSpec
INVARIANTS
  TypeOK
  ExitAnswersEveryID
  AllTakesEachOnce
  DriverIsReady
  SkippedIsTakenOn
  NoSendOnClosed
  ExitWaitsForRollback
PROPERTIES
  NoAddAfterWait
  Termination
