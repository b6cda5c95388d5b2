SPECIFICATION WrapperSpec
CONSTANTS
  Wrappers = {w1, w2, w3}
  MaxHandle = 4
SYMMETRY WrapperSymmetry
INVARIANTS WrapperTypeOK OpenIsLive EndedOnce LostOnlyTransactions CommitsAsAsked ReadRowsClosed
CHECK_DEADLOCK FALSE
