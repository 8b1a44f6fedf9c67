CONSTANTS
  LastAddr = 47
  LowAddr = 6
  HighAddr = 41
  BlockSize = 3
  Granularity = 6
  MaxRange = 14
  Origins = {20, 26}
  CodeBase = 18
  CodeEnd = 30
  Threads = {t1, t2}
  Bodies <- MCBodies
  Padded <- MCPadded
  ProtectMayFail = TRUE
SPECIFICATION MinHookSpec
INVARIANTS
  BlocksConsistent
  SlotsAreNear
  TrampolineConsistent
PROPERTIES
  GivesUpOnlyWhenFull
  SearchEnds
  FlowIsKept
  AllResume
CHECK_DEADLOCK FALSE
