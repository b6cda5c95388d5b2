SPECIFICATION FairBridgeSpec
CONSTANTS
  Conns = {c1, c2, c3}
  NoConn = NoConn
  Threads = {t1, t2}
  RawThreads <- NoRawThreads
  MinConns = 0
  MaxConns = 3
  RetryAttempts = 1
  MaxFaults = 1
  MaxSpawned = 1
  MaxID = 2
  Uses <- AllUses
  Objects <- BridgeObjects
  Fns <- QueryFns
PROPERTIES CallsEnd
CHECK_DEADLOCK FALSE
