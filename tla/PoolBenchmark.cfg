\* Three threads, six objects of three bytes, guard pages of nine bytes.  The
\* objects fill whole pages, so that rounding makes no difference and one
\* instance serves both constructors.
SPECIFICATION BenchSpec
CONSTANTS
  t1 = t1
  t2 = t2
  t3 = t3
  NoThread = NoThread
  Threads <- MCThreads
  Begin = 16
  PageSize = 9
  Size = 3
  Capacity = 6
  RoundUp = TRUE
SYMMETRY MCSymmetry
INVARIANTS
  NoOverlap
  NeverWild
PROPERTIES
  RefinesBump
  RefinesLockFree
