SPECIFICATION HandlesSpec
CONSTANTS
  Threads = {t1}
  RawThreads <- AllThreads
  Objects = {o1, o2, o3}
  MaxID = 4
SYMMETRY ObjectSymmetry
INVARIANTS HandlesTypeOK ClaimsHonoured StaleStaysInvalid
