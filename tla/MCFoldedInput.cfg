CONSTANTS
  Tensors <- MCTensors
  MaxU64 <- MCMaxU64
  Requests <- FoldingRequests
  Latencies = {4, 5}
  Noises = {0, 30}
  Margin = 10
  Tolerance = 105
  BeamWidth = 2
  MaxDepth = 3
  MaxCandidates = 6
  MemoryBudget = 46
SPECIFICATION Spec
INVARIANT
  MeaningPreserved
