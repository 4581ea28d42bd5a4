SPECIFICATION FairSpec
CONSTANTS
  t1 = t1
  t2 = t2
  Threads = {t1, t2}
  NoThread = NoThread
  ip1 = ip1
  ip2 = ip2
  Ips = {ip1, ip2}
  NoIp = NoIp
  Slots = {0, 1}
  Hash <- OneSlot
  ArgMax = 1
  ArgWindow = 2
  U8 = 4
  U16 = 4
  U32 = 8
  ClockBack = TRUE
  MaxCalls = 4
  MaxTime = 3
INVARIANTS  NoFalseRefusal
PROPERTY EveryCallDecided
CHECK_DEADLOCK FALSE
