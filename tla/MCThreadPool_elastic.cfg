SPECIFICATION Spec
CONSTANTS
  Manager = manager
  Owner = owner
  NoThread = none
  Workers = {w1, w2, w3, w4}
  Clients = {c1, c2, c3}
  Min = 1
  Max = 2
  InitExit = {0}
  MaxTasks = 1
SYMMETRY Symmetry
INVARIANTS
  PoolInv
  TasksOnce
  CountersMatch
  ReapFindsAll
  JoinsAllButOne
CHECK_DEADLOCK FALSE
