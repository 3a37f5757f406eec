CONSTANTS
  Tensors <- MCTensors
  MaxU64 <- MCMaxU64
  Executions <- StreamedFusion
SPECIFICATION Spec
INVARIANT NoConflict
CHECK_DEADLOCK FALSE
