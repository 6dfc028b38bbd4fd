SPECIFICATION FairSpec
CONSTANTS
  Worker = worker
  Owner = owner
  NoThread = none
  Producers = {p1}
  Safe = FALSE
  Destructor = TRUE
  MaxPush = 1
  Lengths = {1}
  BufferSize = 2
  Threshold = 4
  LinearGrowth = 2
PROPERTIES
  NotifiedConsumerReads
CHECK_DEADLOCK FALSE
