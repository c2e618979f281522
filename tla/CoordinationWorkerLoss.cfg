\* A sandbox worker exits under a nested write that has not been sent yet.
SPECIFICATION Spec
CONSTANTS
  r1 = r1
  g1 = g1
  e1 = e1
  None = None
  ImportedClaim <- MCImportedClaim
  Invocations = {i1, i2, i3}
  Imported = {}
  Resources = {r1}
  Generations = {g1}
  Epochs = {e1}
  Bound = 1
  MaxTime = 2
  MaxCalls = 1
  WorkerLoss = TRUE
SYMMETRY MCSymmetry
INVARIANTS OneWriter
