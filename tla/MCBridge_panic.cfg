SPECIFICATION BridgeSpec
CONSTANTS
  Conns = {c1, c2}
  NoConn = NoConn
  Threads = {t1}
  RawThreads <- NoRawThreads
  MinConns = 0
  MaxConns = 2
  RetryAttempts = 0
  MaxFaults = 0
  MaxSpawned = 1
  MaxID = 2
  Uses <- AllUses
  Objects <- BridgeObjects
  Fns <- QueryFns
INVARIANTS NeverPanics
CHECK_DEADLOCK FALSE
