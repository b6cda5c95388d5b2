SPECIFICATION BridgeSpec
CONSTANTS
  Conns = {c1, c2, c3}
  NoConn = NoConn
  Threads = {t1}
  RawThreads <- AllThreads
  MinConns = 1
  MaxConns = 2
  RetryAttempts = 2
  MaxFaults = 1
  MaxSpawned = 1
  MaxID = 3
  Uses <- AllUses
  Objects <- BridgeObjects
  Fns <- ParamFns
INVARIANTS ResultsReachable
PROPERTIES ImplementsRegistry PoolForgotten
CHECK_DEADLOCK FALSE
