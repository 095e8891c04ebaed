\* Three threads compete for two slots.
SPECIFICATION Spec
CONSTANTS
  t1 = t1
  t2 = t2
  t3 = t3
  Threads <- MCThreads
  POOL_LIMIT = 2
  Regions <- MCRegions
SYMMETRY MCSymmetry
INVARIANTS
  SlotsKept
  FaultIsReported
