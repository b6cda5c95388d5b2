SPECIFICATION TextSpec
CONSTANTS
  MaxLen = 3
INVARIANTS OpenBracketIsLiteral
CHECK_DEADLOCK FALSE
