SPECIFICATION HandlesSpec
CONSTANTS
  Threads = {t1, t2}
  RawThreads <- AllThreads
  Objects = {o1, o2, o3}
  MaxID = 3
SYMMETRY ObjectSymmetry
PROPERTIES NoDataRace
