SPECIFICATION ServiceSpec
CONSTANTS
  Loop = loop
  Callers = {loop}
  Urls = {u1, u2}
  Large = {}
  MaxVersion = 2
  MayCrash = TRUE
  MayFail = FALSE
  Torn = torn
  NoRequest = none
  DiskMayFail = TRUE
  MaxUploads = 3
  MaxPending = 2
SYMMETRY Symmetry
INVARIANTS
  ServiceTypeOK
  Served
  BodyMatchesETag
  OneReply
  AckedOnDisk
  LookupFindsAcked
  FileIsTable
CHECK_DEADLOCK FALSE
