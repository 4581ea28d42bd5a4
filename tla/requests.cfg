SPECIFICATION RequestsSpec
CONSTANTS
  Threads = {t1, t2}
  NoThread = NoThread
  MaxMiddlewares = 2
  MaxUses = 3
  FaultSites = {"middleware", "limiter", "handler", "send", "cleanup"}
  MayShutdown = TRUE
  ContentTypes = {"json", "text", "other"}
  HeaderLens = {2, 4, 6}
  BodyLens <- MCBodyLens
  Extras = {0}
  Cap = 4
  MaxMem = 4
  FileBuffer = 2
  SizeT = 16
  Faults = {"malloc", "fopen", "fwrite"}
  NoBody = NoBody
  NoFile = NoFile
INVARIANTS
  RequestsTypeOK
  ChainInOrder
  AnswerIsOfStopper
  
  LockIsInLimiter
  FileIsBody
  
  BodyDelivered
PROPERTIES
  EveryRequestEnds
  TakingEnds
CHECK_DEADLOCK FALSE
