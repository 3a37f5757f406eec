CONSTANTS
  Inputs = {prompt, mask}
  Values = {a, b}
  Crossing = 2
  Iterations = 2
  Empty = none
SPECIFICATION Spec
INVARIANTS
  ConsumesOwnInputs
  CacheNotMixed
