---------------------------- MODULE MCReplicaRedo ----------------------------
EXTENDS ReplicaRedo

CONSTANTS b1, b2

MCBlocks == {b1, b2}

(* Records that each change one block. *)
MCSingleRecs == << <<b1>>, <<b2>>, <<b1>> >>

(* One record that changes two blocks, as a heap update moving a tuple to *)
(* another page or a B-tree page split does.                              *)
MCMultiRecs == << <<b1, b2>> >>

(* One record changing one block. *)
MCOneRec == << <<b1>> >>
=============================================================================
