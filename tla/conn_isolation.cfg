SPECIFICATION Spec
CONSTANTS
  c1 = c1
  c2 = c2
  c3 = c3
  Conns = {c1, c2, c3}
  Fds <- TwoFds
  NoConn = NoConn
  MaxClients = 2
  Modulus = 8
  Requests = {"ROUTED"}
  Faults = {"malloc", "thread", "hangup"}
  AtomicRmw = FALSE
  CachedCheck = TRUE
SYMMETRY Symmetry
 
INVARIANT ResponseIsolation
INVARIANT AnsweredOnce
INVARIANT OpenFdsHaveCloser
PROPERTY OnlyOwnerCloses
CHECK_DEADLOCK FALSE
