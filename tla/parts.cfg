SPECIFICATION PartsSpec
CONSTANTS
  Methods = {"GET", "POST"}
  RoutePrefixes <- MCPrefixes
  Templates <- MCTemplates
  RequestPaths <- MCPaths
  ParamNames <- MCParamNames
  MaxPath = 6
  MaxParams = 2
  MaxValue = 3
  FirstCapacity = 1
  MaxCalls = 2
  NeverWritten = NeverWritten
  Threads = {t1, t2}
  Lengths = {0, 1, 2, 3}
  MaxCookies = 2
  MaxActive = 1
  Unknown = Unknown
  Torn = Torn
  Buffers <- MCBuffers
  NoColon = NoColon
  Blank = Blank
  NamesAsked = {"h", "H", "long", "g"}
  ValuesSet = {4, 5}
  FoldName <- MCFoldName
  CutName <- MCCutName
  NoHeader = NoHeader
  MaxHeaders = 3
  MaxSets = 2
  MaxTokens = 9
  NestingLimit = 2
  MallocMayFail = TRUE
  Bodies <- MCBodies
  Opaque = Opaque
  Invalid = Invalid
  Forms <- MCForms
  FoldCase <- MCFold
  Languages = {"ru", "de"}
  Alnum = {"a"}
  AllocMayFail = TRUE
  Directories <- MCDirectories
  NoDirectory = NoDirectory
  Unreadable = Unreadable
  NoText = NoText
  NoEntry = NoEntry
  NoLanguage = NoLanguage
  TextKeys = {"k"}
  Codes = {"en", "ru"}
  MaxLocales = 2
  TextLengths = {1, 3}
  Contents <- MCContents
  Files <- MCFiles
  NoFileThere = NoFileThere
  HeaderFields <- MCFields
  Cookies <- MCCookies
  NoString = NoString
  Origins = {"o", "p"}
  AskedOrigins = {"o", "q", NoString}
  Garbage = Garbage
  TextMax = 2
  HeadMax = 5
  MaxAdded = 2
  MaxSteps = 3
  MaxChanges = 1
  OutOfMemory = TRUE
INVARIANTS
  PartsTypeOK
  FirstMatch
  ParamsAreOwn
  EveryRouteKept
  
  GetIsExpected
  JsonIsUnderstood
  
  VerdictIsRight
  LookupIsRight
  HeadersAreSent
  BodyIsContent
CHECK_DEADLOCK FALSE
