CONSTANTS
  d1 = d1  d2 = d2
  Desc = {d1, d2}
  Pages = 4
  blocks_per_arena <- MCBlocks
SPECIFICATION Spec
INVARIANTS TypeOK ScanFindsFirstFit MapConsistent NoOverlap ArenaCounts
CHECK_DEADLOCK FALSE
SYMMETRY MCSymmetry
