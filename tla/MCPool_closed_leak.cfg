SPECIFICATION PoolSpec
CONSTANTS
  Conns = {c1, c2}
  NoConn = NoConn
  Threads = {t1, t2}
  MinConns = 1
  MaxConns = 2
  RetryAttempts = 1
  MaxFaults = 0
  MaxSpawned = 1
  Uses <- AllUses
INVARIANTS ClosedPoolDrains
CHECK_DEADLOCK FALSE
