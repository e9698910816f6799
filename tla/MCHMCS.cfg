SPECIFICATION FairSpec
CONSTANTS
  t1 = t1
  t2 = t2
  t3 = t3
  root = root
  leafA = leafA
  leafB = leafB
  inner = inner
  NULL = NULL
  Threads <- MCThreads
  HNodes <- MCHNodes
  Levels <- MCLevels
  Path <- MCPath
  Threshold <- MCThreshold
INVARIANTS
  MutualExclusion
  NodeExclusive
  BoundedPassing
  WaitersStay
PROPERTIES
  StarvationFree
