\* A custody snapshot is imported again after one of its claims was resolved.
SPECIFICATION Spec
CONSTANTS
  r1 = r1
  g1 = g1
  e1 = e1
  None = None
  ImportedClaim <- MCImportedClaim
  Invocations = {i1}
  Imported = {m1}
  Resources = {r1}
  Generations = {g1}
  Epochs = {e1}
  Bound = 1
  MaxTime = 1
  MaxCalls = 1
  WorkerLoss = FALSE
SYMMETRY MCSymmetry
INVARIANTS ImportedStaysResolved
