SPECIFICATION FairSpec
CONSTANTS
  NCores = 2
  t1 = t1
  t2 = t2
  t3 = t3
  t4 = t4
  Tasks = {t1, t2, t3, t4}
  Policy <- MCPolicy
  Priority <- MCPriority
  Spawners <- MCSpawners
  Levels = 256
INVARIANTS QueuedOnce ContextsKept BestRuns Proportional
PROPERTY EveryThreadRuns
CHECK_DEADLOCK FALSE
