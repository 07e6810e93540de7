SPECIFICATION FairSpec
CONSTANTS
  Cores = {c0, c1, c2}
  BootCore = c0
  MaxDepth = 2
INVARIANTS IInv MutualExclusion NoPanic
PROPERTIES Implements HandedOver
CHECK_DEADLOCK TRUE
