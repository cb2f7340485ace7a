SPECIFICATION HandshakeFair
CONSTANTS
  Protocols = {"postgres", "mysql"}
  Logins <- MCLogins
  Tenants <- MCTenants
  MaxQueries = 2
  MaxNotices = 1
  Password = "secret"
  Passwords = {"secret", "other"}
  Sayings <- MCSayings
  MaxTurns = 6
INVARIANTS StreamsFaithful LastWordsArrive GivenIsReady GivenIsProved
PROPERTIES SessionEnds AuthEnds
CHECK_DEADLOCK FALSE
