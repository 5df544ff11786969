\* Index builds inside savepoints that are rolled back.
CONSTANTS
  p1 = p1
  p2 = p2
  u1 = u1
  NoRel = NoRel
  PermRels <- MCPermRels
  LocalRels <- MCLocalRels
  MaxDepth = 2
  BuildDepth = 2
SYMMETRY MCSymmetry
SPECIFICATION Spec
INVARIANT BuildCoherent
