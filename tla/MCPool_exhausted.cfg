SPECIFICATION FairPoolSpec
CONSTANTS
  Conns = {c1, c2}
  NoConn = NoConn
  Threads = {t1, t2}
  MinConns = 0
  MaxConns = 1
  RetryAttempts = 1
  MaxFaults = 0
  MaxSpawned = 1
  Uses <- LoopUses
PROPERTIES CallsReturn
CHECK_DEADLOCK FALSE
