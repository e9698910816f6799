SPECIFICATION FairSpec
CONSTANTS
  p1 = p1
  p2 = p2
  n1 = n1
  n2 = n2
  n3 = n3
  d1 = d1
  d2 = d2
  NULL = NULL
  Producers <- MCProducers
  Nodes <- MCNodes
  Data <- MCData
INVARIANTS
  MemorySafe
  StrongEmptyIsEmpty
PROPERTIES
  MissJustified
  FifoOrder
  Delivered
