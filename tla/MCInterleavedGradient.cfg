CONSTANTS
  Handed <- InterleavedOperations
  IndexValues <- MCIndexValues
SPECIFICATION Spec
INVARIANT BackwardIsAdjoint
CHECK_DEADLOCK FALSE
