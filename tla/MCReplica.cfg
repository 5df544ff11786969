\* A standby replaying three single-block records while a backend reads
\* and prefetches both blocks through a ring of two slots.  Redo and a
\* reader can wait for each other (run redo_read_cycle), so the system
\* really may stop: deadlock is not checked here.
CONSTANTS
  b1 = b1
  b2 = b2
  NoTag = NoTag
  Blocks <- MCBlocks
  SharedBlocks = {}
  Recs <- MCSingleRecs
  RingSize = 2
  MaxRing = 5
SPECIFICATION Spec
INVARIANT ReplicaFresh ReadLsnCovers
CHECK_DEADLOCK FALSE
