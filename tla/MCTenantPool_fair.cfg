SPECIFICATION FairSpec
CONSTANTS
  Clients = {p1}
  Checkers = {h}
  Drainers = {d1}
  Conns = {c1, c2}
  MaxConns = 1
  MinConns = 1
  Mode = "transaction"
  DBType = "postgres"
  NoConn = NoConn
  Nobody = Nobody
  p1 = p1
  h = h
  d1 = d1
  c1 = c1
  c2 = c2
PROPERTY AcquireEnds
