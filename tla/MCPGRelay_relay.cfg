SPECIFICATION FairSpec
CONSTANTS
  Clients = {a1, a2}
  Backends = {b1}
  Kinds = {"begin", "commit", "fail", "set", "prepare"}
  MaxRequests = 2
  MaxChecks = 1
  None = None
  a1 = a1
  a2 = a2
  b1 = b1
INVARIANTS TypeOK IdleIsClean AnswersMatch
PROPERTIES HeldBackendStays RequestsEnd
