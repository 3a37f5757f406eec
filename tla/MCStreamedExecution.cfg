CONSTANTS
  Tensors <- MCTensors
  MaxU64 <- MCMaxU64
  Executions <- MCExecutions
SPECIFICATION Spec
INVARIANTS
  OperandsReady
  NoConflict
  OutputsDelivered
PROPERTIES
  StagingNotOverwritten
  PerformsProgram
CHECK_DEADLOCK FALSE
