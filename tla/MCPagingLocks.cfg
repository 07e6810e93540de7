SPECIFICATION Spec
CONSTANTS
  Cores = {c1, c2}
  c1 = c1
  c2 = c2
  NFrames = 11
  Levels = 3
  Width = 2
  KernelIndexes = {1}
  BootTables <- MCBootTables
  BootRoot = 1
  Scratch = 7
  Image <- MCImage
  Requests <- MCRequests
  MaxCalls = 4
  Cost <- MCCost
INVARIANT LocksHeld
CHECK_DEADLOCK FALSE
SYMMETRY MCSymmetry
