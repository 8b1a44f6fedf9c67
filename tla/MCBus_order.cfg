CONSTANTS
  Topics = {t, u}
  Closures <- MCClosures
  MethodOf <- MCMethodOf
  NULL = NULL
  Nodes = {n1, n2, n3}
  MaxDepth = 1
  OwnOnly = TRUE
SPECIFICATION Spec
INVARIANTS
  RegistrationOrder
