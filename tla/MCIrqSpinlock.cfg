SPECIFICATION FairSpec
CONSTANTS
  Cores = {c0, c1}
  Locks = {1, 2}
INVARIANTS IInv MutualExclusion NoSelfDeadlock FlagRestored
PROPERTIES LockIsFreed
CHECK_DEADLOCK TRUE
