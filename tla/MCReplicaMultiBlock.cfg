\* One record changing two blocks, replayed while a backend prefetches
\* both and then reads them.
CONSTANTS
  b1 = b1
  b2 = b2
  NoTag = NoTag
  Blocks <- MCBlocks
  SharedBlocks = {}
  Recs <- MCMultiRecs
  RingSize = 2
  MaxRing = 5
SPECIFICATION Spec
INVARIANT ReplicaFresh
CHECK_DEADLOCK FALSE
