\* Two writers of one resource, of which one may wait for an answer that never comes.
SPECIFICATION FairSpec
CONSTANTS
  r1 = r1
  g1 = g1
  e1 = e1
  None = None
  ImportedClaim <- MCImportedClaim
  Invocations = {i1, i2}
  Imported = {}
  Resources = {r1}
  Generations = {g1}
  Epochs = {e1}
  Bound = 1
  MaxTime = 2
  MaxCalls = 1
  WorkerLoss = FALSE
INVARIANTS OneWriter
PROPERTIES EveryInvocationEnds
