\* Index builds in top-level statements, savepoints around other statements.
CONSTANTS
  p1 = p1
  p2 = p2
  u1 = u1
  NoRel = NoRel
  PermRels <- MCPermRels
  LocalRels <- MCLocalRels
  MaxDepth = 2
  BuildDepth = 1
SYMMETRY MCSymmetry
SPECIFICATION Spec
INVARIANT BuildCoherent
