\* A record changing one block while a backend reads it in.
CONSTANTS
  b1 = b1
  b2 = b2
  NoTag = NoTag
  Blocks <- MCBlocks
  SharedBlocks = {}
  Recs <- MCOneRec
  RingSize = 2
  MaxRing = 5
SPECIFICATION Spec
INVARIANT NoRedoReadCycle
CHECK_DEADLOCK FALSE
