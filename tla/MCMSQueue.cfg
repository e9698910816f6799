SPECIFICATION FairSpec
CONSTANTS
  t1 = t1
  t2 = t2
  n1 = n1
  n2 = n2
  n3 = n3
  n4 = n4
  NULL = NULL
  Threads <- MCThreads
  Nodes <- MCNodes
  ScanFactor <- MCScanFactor
  Stalled <- MCStalled
INVARIANTS
  ListOK
  ReclamationSafe
PROPERTIES
  EmptyMeansEmpty
  FifoOrder
  LockFree
