SPECIFICATION FairPoolSpec
CONSTANTS
  Conns = {c1, c2, c3}
  NoConn = NoConn
  Threads = {t1, t2}
  MinConns = 2
  MaxConns = 3
  RetryAttempts = 1
  MaxFaults = 0
  MaxSpawned = 1
  Uses <- AllUses
PROPERTIES FillEnds
CHECK_DEADLOCK FALSE
