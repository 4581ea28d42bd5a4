SPECIFICATION FairSpec
CONSTANTS
  c1 = c1
  c2 = c2
  c3 = c3
  Conns = {c1, c2, c3}
  Fds <- TwoFds
  NoConn = NoConn
  MaxClients = 2
  Modulus = 8
  Requests = {"OPTIONS", "GARBAGE"}
  Faults = {}
  AtomicRmw = TRUE
  CachedCheck = FALSE
INVARIANT SlotsExact
INVARIANT WithinLimit
 
 
CHECK_DEADLOCK FALSE
