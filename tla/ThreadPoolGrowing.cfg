\* main: the number of threads grows from call to call.
SPECIFICATION Spec
CONSTANTS
  MAX_THREADS = 2
  Plan <- MCGrowingPlan
  MIN_BLOCK = 1
  SIZE_MOD = 16
INVARIANT
  CopyComplete
CHECK_DEADLOCK FALSE
