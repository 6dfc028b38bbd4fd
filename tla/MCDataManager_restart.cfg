SPECIFICATION FairSpec
CONSTANTS
  Callers = {c1}
  Urls = {u1, u2}
  Large = {u2}
  MaxVersion = 1
  MayCrash = TRUE
  MayFail = FALSE
PROPERTIES
  RestartLoads
CHECK_DEADLOCK FALSE
