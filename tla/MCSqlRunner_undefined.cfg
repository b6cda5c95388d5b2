SPECIFICATION FairRunnerSpec
CONSTANTS
  ArgLists <- ExampleArgs
  DefaultFiles = 1
  Absent = Absent
  NotDirectory = NotDirectory
  Malformed = Malformed
  Workers <- TwoThreads
  MaxIterations = 2
  Times = {0, 1}
  MaxTime = 2
  MaxDelay = 2
  MaxRetries = 2
  MaxConsecutiveErrors = 2
INVARIANTS AlwaysDefined
CHECK_DEADLOCK FALSE
