SPECIFICATION MMCSFairSpec
CONSTANTS
  t1 = t1
  t2 = t2
  t3 = t3
  NULL = NULL
  Threads <- MCThreads
INVARIANTS
  MutualExclusion
  NodesAlive
  OwnersContext
PROPERTIES
  FifoOrder
  StarvationFree
