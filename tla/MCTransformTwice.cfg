CONSTANTS
  w1 = w1
  w2 = w2
  c1 = c1
  c2 = c2
  Workers = {w1, w2}
  Ctrs = {c1, c2}
  Lookups <- MCLookups
  Names <- MCNames
  Setups <- IDsOnly
  MaxFuncs = 0
  RetCap = 1
SPECIFICATION Spec
INVARIANT TakenOnOnce
