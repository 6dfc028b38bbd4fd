SPECIFICATION Spec
CONSTANTS
  Worker = worker
  Owner = owner
  NoThread = none
  Producers = {p1, p2}
  Safe = FALSE
  Destructor = FALSE
  MaxPush = 2
  Lengths = {1, 2}
  BufferSize = 2
  Threshold = 4
  LinearGrowth = 2
SYMMETRY Symmetry
INVARIANTS
  NoOverrun
PROPERTIES
  PipeSpec
CHECK_DEADLOCK FALSE
