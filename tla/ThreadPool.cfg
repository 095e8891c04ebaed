\* Calls with a number of threads that does not grow; workers may start late.
SPECIFICATION FairSpec
CONSTANTS
  MAX_THREADS = 4
  Plan <- MCSteadyPlan
  MIN_BLOCK = 2
  SIZE_MOD = 16
INVARIANTS
  CopyComplete
  NoStaleTask
  CountsOwing
PROPERTIES
  AllCallsReturn
  WorkersLeave
\* a worker that starts after the notification leaves the client waiting
CHECK_DEADLOCK FALSE
