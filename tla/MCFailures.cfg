\* The pipeline with connection drops at every flush, send and receive,
\* no threshold flush and a fixed ring of three slots (two live).
CONSTANTS
  b1 = b1
  b2 = b2
  b3 = b3
  NoTag = NoTag
  Blocks <- MCBlocks3
  InitSize = 3
  Sizes = {}
  FlushEvery = 0
  Failures = TRUE
  RacyPrefetch = FALSE
  MaxRing = 6
  Recovery = FALSE
  MaxLsn = 2
SPECIFICATION Spec
INVARIANT TypeOK
INVARIANT RingCoherent
INVARIANT IndexCoherent
INVARIANT BufferFresh
