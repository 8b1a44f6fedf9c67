CONSTANTS
  WideNames <- MCWideNames
  NarrowOf <- MCNarrowOf
  Values = {v1}
  NULL = NULL
  Absent = Absent
  Nodes = {n1, n2, n3}
SPECIFICATION Spec
INVARIANTS
  ListConsistent
  RetainedUntilErased
  UndisturbedListIsExact
PROPERTIES
  ImplementsStore
