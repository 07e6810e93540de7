SPECIFICATION Spec
CONSTANTS
  NFrames = 26
  MapSizes = {2, 12, 26}
  NBoot = 2
  Cores = {c0, c1, c2}
  BootCore = c0
  Global = Global
  Max = 3
  Spare = 2
  Trim = 1
  BorrowSurplus = 1
  BorrowBatch = 2
  RefillBatch = 2
  Word = 128
  MaxOps = 6
INVARIANTS Conserved GlobalAccounted
CHECK_DEADLOCK FALSE
