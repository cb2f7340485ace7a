SPECIFICATION Spec
CONSTANTS
  Tenants = {t1}
  Hosts = {x1}
  Absent = Absent
  Sessions = {s1}
  Admins = {a1}
  PoolObjs = {q1, q2, q3}
  FailureThreshold = 2
  MaxReloads = 1
  NoPool = NoPool
  Nobody = Nobody
SYMMETRY Symmetry
INVARIANT TransactionPoolMatches
