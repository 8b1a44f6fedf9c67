CONSTANTS
  Regs <- MCRegs
  TypeOf <- MCTypeOf
  NoReg = NoReg
  Classes <- MCClasses
  Names <- MCNames
  NameOf <- MCNameOf
  Findexes <- MCFindexes
  NArgs <- MCNArgs
  Callable <- MCCallable
  CtorOf <- MCCtorOf
  Bodies <- MCBodies
  Hash <- MCHash
  TableSize = 4
  NULL = NULL
  LongNames <- MCLongNames
  MaxDynArgs = 3
  Arrays <- MCArrays
  TypeTables <- MCTables
  Asked <- MCAsked
  Closures <- MCClosures
  Values <- MCValues
  Chunk = 8
  Points <- MCPoints
  Files <- MCFiles
SPECIFICATION ReflectionSpec
INVARIANT OnlyFunctions
CHECK_DEADLOCK FALSE
