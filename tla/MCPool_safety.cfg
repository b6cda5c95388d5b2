SPECIFICATION PoolSpec
CONSTANTS
  Conns = {c1, c2, c3, c4}
  NoConn = NoConn
  Threads = {t1, t2, t3}
  MinConns = 2
  MaxConns = 3
  RetryAttempts = 2
  MaxFaults = 2
  MaxSpawned = 2
  Uses <- AllUses
SYMMETRY PoolSymmetry
INVARIANTS PoolTypeOK Exclusive Accounted PoolWithinMax MinimumKept FailedConnectDrains
PROPERTIES ImplementsLease
CHECK_DEADLOCK FALSE
