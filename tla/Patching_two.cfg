CONSTANTS
  Callers = {t1, t2}
  Starts = {10, 20}
  Listed = {10, 20}
  Addrs = {10, 20}
  Codes = {r1, r2}
  NULL = NULL
  MaxPatches = 3
  Unrelocatable = {}
  Faulting = {20}
SPECIFICATION Spec
INVARIANTS
  HooksConsistent
PROPERTIES
  RedirectIsFinal
CHECK_DEADLOCK FALSE
