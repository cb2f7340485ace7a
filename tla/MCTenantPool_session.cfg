SPECIFICATION Spec
CONSTANTS
  Clients = {p1, p2}
  Checkers = {}
  Drainers = {d1}
  Conns = {c1, c2, c3}
  MaxConns = 2
  MinConns = 1
  Mode = "session"
  DBType = "mysql"
  NoConn = NoConn
  Nobody = Nobody
  p1 = p1
  p2 = p2
  d1 = d1
  c1 = c1
  c2 = c2
  c3 = c3
SYMMETRY Symmetry
INVARIANTS TypeOK ExclusiveOwnership OpenSocketsTracked TotalAccounts WithinLimit WaitingCounts ClosedStaysEmpty
PROPERTIES ReaperKeepsNewest ImplementsLease
