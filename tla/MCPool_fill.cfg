SPECIFICATION FairPoolSpec
CONSTANTS
  Conns = {c1, c2, c3, c4, c5, c6}
  NoConn = NoConn
  Threads = {t1, t2}
  MinConns = 1
  MaxConns = 0
  RetryAttempts = 1
  MaxFaults = 1
  MaxSpawned = 1
  Uses <- LoopUses
PROPERTIES CallsReturn ConnectReturns
CHECK_DEADLOCK FALSE
