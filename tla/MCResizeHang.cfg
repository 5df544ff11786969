\* SET readahead_buffer_size while a prefetch request is still unflushed,
\* no threshold flush, no connection drops.
CONSTANTS
  b1 = b1
  b2 = b2
  b3 = b3
  NoTag = NoTag
  Blocks <- MCBlocks2
  InitSize = 3
  Sizes = {3}
  FlushEvery = 0
  Failures = FALSE
  RacyPrefetch = FALSE
  MaxRing = 6
  Recovery = FALSE
  MaxLsn = 3
SPECIFICATION Spec
INVARIANT NoHang
