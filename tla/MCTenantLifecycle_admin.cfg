SPECIFICATION Spec
CONSTANTS
  Tenants = {t1}
  Hosts = {x1}
  Absent = Absent
  Sessions = {s1}
  Admins = {a1, a2}
  PoolObjs = {q1, q2}
  FailureThreshold = 2
  MaxReloads = 1
  NoPool = NoPool
  Nobody = Nobody
SYMMETRY Symmetry
INVARIANTS TypeOK RegisteredPoolsOpen OpenPoolsReachable UnhealthyIsEarned
PROPERTY PausesFollowTenants
