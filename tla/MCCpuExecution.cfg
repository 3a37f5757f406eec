CONSTANTS
  Handed <- MCOperations
  IndexValues <- MCIndexValues
SPECIFICATION Spec
INVARIANTS
  ExecutesInside
  AgreesWithComposition
  BackwardIsAdjoint
CHECK_DEADLOCK FALSE
