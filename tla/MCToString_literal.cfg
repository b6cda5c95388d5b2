SPECIFICATION TextSpec
CONSTANTS
  MaxLen = 4
INVARIANTS TextTypeOK LiteralDenotes
CHECK_DEADLOCK FALSE
