--------------------------- MODULE MCUnloggedBuild ---------------------------
(* The unlogged-build controller for TLC: two permanent relations (so a    *)
(* second build can be attempted on another index) and one unlogged one.   *)
EXTENDS UnloggedBuild, TLC

CONSTANTS p1, p2, u1

MCPermRels == {p1, p2}
MCLocalRels == {u1}

(* The two permanent relations are interchangeable. *)
MCSymmetry == Permutations(MCPermRels)
=============================================================================
