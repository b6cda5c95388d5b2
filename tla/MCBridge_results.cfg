SPECIFICATION BridgeSpec
CONSTANTS
  Conns = {c1, c2}
  NoConn = NoConn
  Threads = {t1, t2}
  RawThreads <- NoRawThreads
  MinConns = 1
  MaxConns = 2
  RetryAttempts = 2
  MaxFaults = 1
  MaxSpawned = 1
  MaxID = 3
  Uses <- AllUses
  Objects <- BridgeObjects
  Fns <- ResultFns
SYMMETRY CallerSymmetry
INVARIANTS BridgeTypeOK ResultsReachable CursorsOwned OnlyKnownLeaks LocksInOrder
CHECK_DEADLOCK FALSE
