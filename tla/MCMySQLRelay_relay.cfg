SPECIFICATION FairSpec
CONSTANTS
  Clients = {a1, a2}
  Backends = {b1}
  Kinds = {"select", "begin", "commit", "fail", "set", "prepare", "stmtclose"}
  MaxCommands = 3
  None = None
INVARIANTS TypeOK IdleIsClean AnswersMatch
PROPERTIES HeldBackendStays CommandsEnd
