SPECIFICATION FairBridgeSpec
CONSTANTS
  Conns = {c1, c2}
  NoConn = NoConn
  Threads = {t1, t2}
  RawThreads <- NoRawThreads
  MinConns = 0
  MaxConns = 1
  RetryAttempts = 1
  MaxFaults = 0
  MaxSpawned = 1
  MaxID = 3
  Uses <- AllUses
  Objects <- BridgeObjects
  Fns <- ResultOnly
PROPERTIES CloseRowsEnds
CHECK_DEADLOCK FALSE
