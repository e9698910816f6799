SPECIFICATION HMPRSpec
CONSTANTS
  t1 = t1
  t2 = t2
  t3 = t3
  t4 = t4
  znode = znode
  NULL = NULL
  Threads <- MCThreads
  LowThreads <- MCLow
  Nodes <- MCNodes
  znodeStatus <- MCZnodeStatus
SYMMETRY Symmetric
INVARIANTS
  OneWakes
  NobodyForgotten
