\* Every kind of object, three allocations: the invariants of the collector,
\* the store that the heap implements, and the end of every allocation.
SPECIFICATION FairSpec
CONSTANTS
  Shapes <- MCShapes
  VSTACK_SIZE = 4
  MaxId = 3
  Bases <- MCBases
INVARIANTS
  TypeOK
  NeverCrashes
  QueueInvariant
  MarkExact
  HeapTiled
  SlideSafe
  OnlyLiveRemains
PROPERTIES
  RefinesStore
  AllocTerminates
