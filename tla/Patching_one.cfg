CONSTANTS
  Callers = {t1}
  Starts = {10, 20, 24, 30, 33, 40}
  Listed = {10, 20, 30, 33}
  Addrs = {10, 20, 30, 40}
  Codes = {r1, r2}
  NULL = NULL
  MaxPatches = 2
  Unrelocatable = {40}
  Faulting = {}
SPECIFICATION FairSpec
INVARIANTS
  TableConsistent
  QuietMeansClean
PROPERTIES
  ListedNeighboursSpared
  InstallReturns
