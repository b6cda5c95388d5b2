SPECIFICATION FairBenchSpec
CONSTANTS
  ArgLists <- AllArgs
  Queries = 2
  Attempts = 2
  Malformed = Malformed
  Workers <- TwoThreads
INVARIANTS BenchTypeOK CountedOnce CommittedOnce RetriesBounded ExitTellsErrors
PROPERTIES Terminates
CHECK_DEADLOCK FALSE
