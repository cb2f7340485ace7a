SPECIFICATION FairSpec
CONSTANTS
  Listeners = {l1, l2}
  Clients = {c1, c2, c3}
  MaxConns = 1
  NoClient = NoClient
CHECK_DEADLOCK FALSE
INVARIANTS CountsExact LimitNearlyKept QuietBeforePools
PROPERTY ShutdownEnds
