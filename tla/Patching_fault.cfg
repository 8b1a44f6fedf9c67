CONSTANTS
  Callers = {t1}
  Starts = {10, 20}
  Listed = {10, 20}
  Addrs = {10, 20}
  Codes = {r1}
  NULL = NULL
  MaxPatches = 2
  Unrelocatable = {}
  Faulting = {20}
SPECIFICATION FairSpec
PROPERTIES
  InstallReturns
CHECK_DEADLOCK FALSE
