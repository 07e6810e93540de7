SPECIFICATION Spec
CONSTANTS
  NCores = 1
  t1 = t1
  t2 = t2
  t3 = t3
  t4 = t4
  Tasks = {t1, t2, t3, t4}
  Policy <- MCOnePolicy
  Priority <- MCOnePriority
  Spawners <- MCOneSpawners
  Levels = 8
INVARIANT OneTurn
CHECK_DEADLOCK FALSE
