SPECIFICATION FairSpec
CONSTANTS
  Manager = manager
  Owner = owner
  NoThread = none
  Workers = {w1, w2, w3, w4}
  Clients = {c1}
  Min = 1
  Max = 2
  InitExit = {0}
  MaxTasks = 1
PROPERTIES
  ServedInTheEnd
  DestroyCompletes
CHECK_DEADLOCK FALSE
