SPECIFICATION ChainFairSpec
CONSTANTS
  Threads <- MCThreads
  M <- MCM
INVARIANTS
  MutualExclusion
  TurnsInOrder
PROPERTIES
  TryFailsOnlyIfHeld
  FifoOrder
  StarvationFree
  EveryTurn
