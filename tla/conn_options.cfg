SPECIFICATION Spec
CONSTANTS
  c1 = c1
  c2 = c2
  Conns = {c1, c2}
  Fds <- TwoFds
  NoConn = NoConn
  MaxClients = 2
  Modulus = 8
  Requests = {"OPTIONS", "ROUTED"}
  Faults = {}
  AtomicRmw = TRUE
  CachedCheck = FALSE
SYMMETRY Symmetry
INVARIANT ResponseIsolation
CHECK_DEADLOCK FALSE
