CONSTANTS
  Chains = {c1, c2}
  Runs = 1
  Inputs = {a, b}
  Stages <- MCStages
  after <- MCAfter
  reads <- MCAfter
  cacheable = {1}
  Outputs = 2
  Large = {}
  Torn = Torn
  Absent = Absent
SPECIFICATION Spec
INVARIANTS
  CompletesAll
  ReturnsAlone
  PublishedIsWhole
  OwnResults
PROPERTIES
  Returns
CHECK_DEADLOCK FALSE
