SPECIFICATION FairSpec
CONSTANTS
  c = c
  p1 = p1
  p2 = p2
  a = a
  b = b
  s1 = s1
  s2 = s2
  s3 = s3
  s4 = s4
  s5 = s5
  NULL = NULL
  Consumer = c
  Threads <- MCThreads
  Nodes <- MCNodes
  Data <- MCData
  Offer <- MCOffer
  Registered <- MCRegistered
  SegSize <- MCSegSize
  MaxTail <- MCMaxTail
  ScanFactor <- MCScanFactor
INVARIANTS
  SegmentsOK
PROPERTIES
  MissJustified
  FifoOrder
  Delivered
