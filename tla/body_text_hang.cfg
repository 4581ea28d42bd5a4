SPECIFICATION BodyFairSpec
CONSTANTS
  ContentTypes = {"text"}
  HeaderLens = {2}
  BodyLens = {3}
  Extras = {0}
  Cap = 4
  MaxMem = 4
  FileBuffer = 2
  SizeT = 16
  Faults = {}
  NoBody = NoBody
  NoFile = NoFile
PROPERTIES
  CompleteIsAnswered
CHECK_DEADLOCK FALSE
