SPECIFICATION BenchSpec
CONSTANTS
  ArgLists <- AllArgs
  Queries = 2
  Attempts = 2
  Malformed = Malformed
  Workers <- TwoThreads
PROPERTIES WorkersAdvance
CHECK_DEADLOCK FALSE
