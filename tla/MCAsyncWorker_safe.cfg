SPECIFICATION FairSpec
CONSTANTS
  Worker = worker
  Owner = owner
  NoThread = none
  Producers = {p1, p2}
  Safe = TRUE
  Destructor = FALSE
  MaxPush = 2
  Lengths = {1, 2}
  BufferSize = 2
  Threshold = 4
  LinearGrowth = 2
INVARIANTS
  IInv
  NoOverrun
  Drained
  CallbackReady
  OrderKept
PROPERTIES
  PipeSpec
  StopCompletes
  ShutdownFlushes
CHECK_DEADLOCK FALSE
