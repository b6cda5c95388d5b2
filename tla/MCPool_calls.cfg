SPECIFICATION FairPoolSpec
CONSTANTS
  Conns = {c1, c2}
  NoConn = NoConn
  Threads = {t1, t2}
  MinConns = 0
  MaxConns = 2
  RetryAttempts = 2
  MaxFaults = 2
  MaxSpawned = 1
  Uses <- LoopUses
PROPERTIES CallsReturn

