SPECIFICATION Spec
CONSTANTS
  Clients = {a1, a2}
  Backends = {b1}
  Kinds = {"query"}
  MaxRequests = 1
  MaxChecks = 0
  None = None
  a1 = a1
  a2 = a2
  b1 = b1
INVARIANT PooledIsClean
