CONSTANTS
  Tensors <- MCTensors
  MaxU64 <- MCMaxU64
  Requests <- MCRequests
  Latencies = {4, 5}
  Noises = {0, 30}
  Margin = 10
  Tolerance = 105
  BeamWidth = 2
  MaxDepth = 3
  MaxCandidates = 5
  MemoryBudget = 46
SPECIFICATION Spec
INVARIANTS
  MeaningPreserved
  ProposedAreLegal
  PlansRebuild
  WinnerIsBest
  SlicesAreFaithful
  GradientsAreDerivatives
  GradientsIgnoreOrder
