SPECIFICATION Spec
CONSTANTS
  Threads = {t1, t2}
  Lengths = {0, 1, 2}
  MaxCookies = 2
  MaxActive = 2
  Unknown = Unknown
  Torn = Torn
SYMMETRY Symmetry
INVARIANTS
  CookiesAreOwn
CHECK_DEADLOCK FALSE
