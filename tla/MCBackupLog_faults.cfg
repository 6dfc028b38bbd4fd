SPECIFICATION BackupFairSpec
CONSTANTS
  short = short
  long = long
  Msg = {short, long}
  Bytes <- MCBytes
  BufSize = 2
  Cnt = 3
  NetMayFail = TRUE
  ServerMayFail = TRUE
INVARIANTS
  BackupTypeOK
  LoggedOnce
  WholeUnlessSplit
PROPERTIES
  SendReturns
  SentIsLogged
CHECK_DEADLOCK FALSE
