CONSTANTS
  Rbs = {r1}
  MaxFuncs = 2
SPECIFICATION Spec
INVARIANT CloseThenCancelRunsNothing
