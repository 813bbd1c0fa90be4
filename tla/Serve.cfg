SPECIFICATION FairSpec
CONSTANTS
  c1 = c1
  c2 = c2
  Callers = {c1, c2}
  MaxConns = 2
  MaxRows = 1
  MaxMishaps = 0
  MaxAccounts = 1
  Timeout = 1
  TTL = 0
  KindsOf <- Mixed
INVARIANTS TypeOK ConnectionsInUse StatsAreRecent
PROPERTIES EveryHandlerEnds ShutdownEnds
