-------------------------- MODULE MCNeonPrefetch ---------------------------
(* Model-checking instance of NeonPrefetch: two or three blocks, a ring   *)
(* of three or four slots and a few WAL records.                          *)
EXTENDS NeonPrefetch

CONSTANTS b1, b2, b3

MCBlocks2 == {b1, b2}
MCBlocks3 == {b1, b2, b3}
=============================================================================
