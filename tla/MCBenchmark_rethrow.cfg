SPECIFICATION FairBenchSpec
CONSTANTS
  ArgLists <- WriteArgs
  Queries = 2
  Attempts = 2
  Malformed = Malformed
  Workers <- TwoThreads
PROPERTIES RethrowTriggersRetry
CHECK_DEADLOCK FALSE
