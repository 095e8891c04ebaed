\* Three pools for two slots; reads of anything in between.
SPECIFICATION FairSpec
CONSTANTS
  p1 = p1
  p2 = p2
  p3 = p3
  Pools <- MCPools
  POOL_LIMIT = 2
  Capacity = 1
  NoPool = NoPool
INVARIANTS
  SlotsAccounted
  Diagnosed
  Restored
PROPERTY
  NeverStuck
