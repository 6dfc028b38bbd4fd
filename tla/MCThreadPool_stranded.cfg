SPECIFICATION Spec
CONSTANTS
  Manager = manager
  Owner = owner
  NoThread = none
  Workers = {w1, w2, w3}
  Clients = {c1, c2}
  Min = 2
  Max = 3
  InitExit = {0}
  MaxTasks = 2
INVARIANTS
  NoneStranded
CHECK_DEADLOCK FALSE
SYMMETRY Symmetry
