SPECIFICATION BridgeSpec
CONSTANTS
  Conns = {c1, c2}
  NoConn = NoConn
  Threads = {t1, t2}
  RawThreads <- NoRawThreads
  MinConns = 2
  MaxConns = 2
  RetryAttempts = 0
  MaxFaults = 1
  MaxSpawned = 1
  MaxID = 3
  Uses <- AllUses
  Objects <- BridgeObjects
  Fns <- SessionFns
SYMMETRY CallerSymmetry
INVARIANTS SessionsIsolated
PROPERTIES OnlyPreallocated EndedAsAsked
CHECK_DEADLOCK FALSE
