SPECIFICATION BridgeSpec
CONSTANTS
  Conns = {c1, c2}
  NoConn = NoConn
  Threads = {t1}
  RawThreads <- NoRawThreads
  MinConns = 1
  MaxConns = 2
  RetryAttempts = 1
  MaxFaults = 0
  MaxSpawned = 1
  MaxID = 2
  Uses <- AllUses
  Objects <- BridgeObjects
  Fns <- ForgetFns
INVARIANTS PoolReachable
CHECK_DEADLOCK FALSE
