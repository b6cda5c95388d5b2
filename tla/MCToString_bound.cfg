SPECIFICATION TextSpec
CONSTANTS
  MaxLen = 2
INVARIANTS BoundAsGiven
CHECK_DEADLOCK FALSE
