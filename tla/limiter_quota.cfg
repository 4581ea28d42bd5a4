SPECIFICATION Spec
CONSTANTS
  t1 = t1
  t2 = t2
  Threads = {t1, t2}
  NoThread = NoThread
  ip1 = ip1
  ip2 = ip2
  Ips = {ip1, ip2}
  NoIp = NoIp
  Slots = {0, 1}
  Hash <- OwnSlots
  ArgMax = 1
  ArgWindow = 2
  U8 = 4
  U16 = 4
  U32 = 8
  ClockBack = FALSE
  MaxCalls = 5
  MaxTime = 3
INVARIANT BurstBound
PROPERTY ImplementsQuota
CHECK_DEADLOCK FALSE
