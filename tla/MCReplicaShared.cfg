\* A record changing a block of a shared catalog, which redo never skips.
CONSTANTS
  b1 = b1
  b2 = b2
  NoTag = NoTag
  Blocks <- MCBlocks
  SharedBlocks = {b1}
  Recs <- MCOneRec
  RingSize = 2
  MaxRing = 5
SPECIFICATION Spec
INVARIANT ReplicaFresh
CHECK_DEADLOCK FALSE
