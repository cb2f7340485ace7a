SPECIFICATION Spec
CONSTANTS
  Clients = {p1, p2}
  Checkers = {}
  Drainers = {}
  Conns = {c1, c2}
  MaxConns = 1
  MinConns = 0
  Mode = "transaction"
  DBType = "mysql"
  NoConn = NoConn
  Nobody = Nobody
  p1 = p1
  p2 = p2
  c1 = c1
  c2 = c2
INVARIANT NoLostWakeup
