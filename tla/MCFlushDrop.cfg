\* Threshold flush after every request with connection drops: the flush
\* failure inside prefetch_register_buffer goes unnoticed.
CONSTANTS
  b1 = b1
  b2 = b2
  b3 = b3
  NoTag = NoTag
  Blocks <- MCBlocks2
  InitSize = 3
  Sizes = {}
  FlushEvery = 1
  Failures = TRUE
  RacyPrefetch = FALSE
  MaxRing = 6
  Recovery = FALSE
  MaxLsn = 3
SPECIFICATION Spec




INVARIANT BufferFresh
