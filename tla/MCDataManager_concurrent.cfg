SPECIFICATION Spec
CONSTANTS
  Callers = {c1, c2}
  Urls = {u1, u2}
  Large = {}
  MaxVersion = 3
  MayCrash = TRUE
  MayFail = TRUE
SYMMETRY Symmetry
INVARIANTS
  FileNotAhead
CHECK_DEADLOCK FALSE
