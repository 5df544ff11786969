\* Shrinking readahead_buffer_size from 3 to 2 while two prefetches are
\* live, three blocks, no connection drops.
CONSTANTS
  b1 = b1
  b2 = b2
  b3 = b3
  NoTag = NoTag
  Blocks <- MCBlocks3
  InitSize = 3
  Sizes = {2}
  FlushEvery = 1
  Failures = FALSE
  RacyPrefetch = FALSE
  MaxRing = 6
  Recovery = FALSE
  MaxLsn = 3
SPECIFICATION Spec
INVARIANT IndexCoherent
