SPECIFICATION FairBenchSpec
CONSTANTS
  ArgLists <- AllArgs
  Queries = 2
  Attempts = 2
  Malformed = Malformed
  Workers <- TwoThreads
INVARIANTS RunsAllQueries
CHECK_DEADLOCK FALSE
