SPECIFICATION Spec
CONSTANTS
  NFrames = 26
  MapSizes = {26}
  NBoot = 2
  Cores = {c0, c1}
  BootCore = c0
  Global = Global
  Max = 3
  Spare = 2
  Trim = 1
  BorrowSurplus = 1
  BorrowBatch = 2
  RefillBatch = 2
  Word = 128
  MaxOps = 6
INVARIANTS ChunksFit
CHECK_DEADLOCK FALSE
