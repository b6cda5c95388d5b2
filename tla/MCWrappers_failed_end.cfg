SPECIFICATION WrapperSpec
CONSTANTS
  Wrappers = {w1, w2}
  MaxHandle = 3
SYMMETRY WrapperSymmetry
INVARIANTS NothingLost
CHECK_DEADLOCK FALSE
