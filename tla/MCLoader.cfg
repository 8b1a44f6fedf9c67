CONSTANTS
  ModOrder <- MCModOrder
  Hooks <- MCHooks
  Late <- MCLate
  Keys <- MCKeys
  AddrOf <- MCAddrOf
  TooClose = {"addr_tiny"}
  Refused = {"addr_odd"}
  Faulting = {"addr_edge"}
  NULL = NULL
  MaxPatches = 2
  MaxDepth = 2
SPECIFICATION FairSpec
INVARIANTS
  TargetsConsistent
  OneBadTargetIsNotFatal
  OriginalOnceUnlessSkipped
  EveryHandlerOnceInOrder
PROPERTIES
  GameStartsOrSpins
CHECK_DEADLOCK FALSE
