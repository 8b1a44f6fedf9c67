CONSTANTS
  Modules = {"hlx", "a", "b"}
  Loader = "hlx"
  ShortName <- MCShortName
  NULL = NULL
  MaxStack = 2
  MaxLoads = 3
  Confs <- MCConfs
  BufferEnd = 4095
  Configured = {"a"}
  Editions = {"old", "new"}
  Default <- MCDefault
  Saves <- MCSaves
  HandEdits <- MCHandEdits
  Malformed = Malformed
  Fields <- MCFields
  Values = {0, 1, 3, 5, 7, 9}
  PlainObject = PlainObject
  MaxDepth = 2
SPECIFICATION FilesSpec
INVARIANTS
  OwnNameUntilOverflow
  StackConsistent
  LogsConsistent
PROPERTIES
  SettingsSurvive
CHECK_DEADLOCK FALSE
