SPECIFICATION Spec
CONSTANTS
  e1 = e1
  i2 = i2
  i1 = i1
  c1 = c1
  c2 = c2
  Msg = {e1, i1, i2}
  Bytes <- MCBytes
  Clients = {c1, c2}
  LogCalls <- MCLogCalls
  Urgent = {e1}
  PoolThreads = 1
  Flushes <- MCFlushes
  MaxSize = 2
  FlushLogs = {1, 2}
  LogName = app
  Stamps = {t1}
  MaxCnt = 2
  MaxStarts = 2
  Null = null
  FlushMayFail = TRUE
  PowerMayFail = TRUE
INVARIANTS
  Durable
  ClosedSurvives
  RollBound
  FileOrder
  UrgentSentFirst
  ExitKeepsAll
CHECK_DEADLOCK FALSE
