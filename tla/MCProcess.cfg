CONSTANTS
  Mods <- MCMods
  Parts = 2
  MaxInt = 3
  AppVersions <- MCAppVersions
  ModInfos <- MCModInfos
  GameVersions = {5, 6, 7}
  MaxSupported = 6
  MaxDepth = 3
  Target = 5
  MaxCode = 4
  MaxFunctions = 3
  Nothing = Nothing
  Fault = Fault
  Genuine <- MCGenuine
  Memories <- MCMemories
  Regs <- MCRegs
  TypeOf <- MCTypeOf
  NoReg = NoReg
  Classes <- MCClasses
  Names <- MCNames
  NameOf <- MCNameOf
  Findexes <- MCFindexes
  NArgs <- MCNArgs
  Callable <- MCCallable
  CtorOf <- MCCtorOf
  Bodies <- MCBodies
  Hash <- MCHash
  TableSize = 4
  NULL = NULL
  LongNames <- MCLongNames
  MaxDynArgs = 3
  Arrays <- MCArrays
  TypeTables <- MCTables
  Asked <- MCAsked
  Closures <- MCClosures
  Values <- MCValues
  Chunk = 8
  Points <- MCPoints
  Files <- MCFiles
SPECIFICATION ProcessSpec
INVARIANTS
  BootConsistent
  GateIsWhatIsMeant
  LayoutIsTheGames
  RecoversTheGame
  ScanIsExact
  TableConsistent
  OwnConstructorOrNone
  ResolvesTheCallee
  CompanionIsTheGames
PROPERTIES
  GameStarts
CHECK_DEADLOCK FALSE
