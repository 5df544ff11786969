\* No connection drops, a flush after every request, SET readahead_buffer_size
\* to its own value, and PrefetchSharedBuffer racing other backends between
\* its buffer lookup and smgrprefetch.
CONSTANTS
  b1 = b1
  b2 = b2
  b3 = b3
  NoTag = NoTag
  Blocks <- MCBlocks2
  InitSize = 3
  Sizes = {3}
  FlushEvery = 1
  Failures = FALSE
  RacyPrefetch = TRUE
  MaxRing = 6
  Recovery = FALSE
  MaxLsn = 4
SPECIFICATION Spec
INVARIANT TypeOK RingCoherent IndexCoherent BufferFresh StampSound
