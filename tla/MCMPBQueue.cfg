SPECIFICATION FairSpec
CONSTANTS
  p1 = p1
  p2 = p2
  NULL = NULL
  Producers <- MCProducers
  NSets = 2
  SetSize = 2
  MaxBackoff = 4
  InCounts <- MCInCounts
  FirstSets <- MCFirstSets
  MaxSent = 1
INVARIANTS
  BackoffBounded
  OneByte
PROPERTIES
  Delivered
