CONSTANTS
  Tensors <- MCTensors
  MaxU64 <- MCMaxU64
  Requests <- MCRequests
  Budgets <- MCBudgets
SPECIFICATION Spec
INVARIANTS
  TypeOK
  StorageDisjoint
  AliveThroughUses
  CeilingRespected
  MatchesReference
PROPERTIES
  Terminates
CHECK_DEADLOCK FALSE
