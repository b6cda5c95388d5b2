SPECIFICATION FairRunnerSpec
CONSTANTS
  ArgLists <- AllArgs
  DefaultFiles = 1
  Absent = Absent
  NotDirectory = NotDirectory
  Malformed = Malformed
  Workers <- TwoThreads
  MaxIterations = 2
  Times = {0, 1}
  MaxTime = 2
  MaxDelay = 2
  MaxRetries = 2
  MaxConsecutiveErrors = 2
INVARIANTS RunnerTypeOK CountsAgree ExtremesExact FilesAllTried AveragesBounded
PROPERTIES Terminates
CHECK_DEADLOCK FALSE
