\* Two invocations, an account change, a lost worker and an imported claim.
SPECIFICATION Spec
CONSTANTS
  r1 = r1
  g1 = g1
  e1 = e1
  None = None
  ImportedClaim <- MCImportedClaim
  Invocations = {i1, i2}
  Imported = {m1}
  Resources = {r1}
  Generations = {g1, g2}
  Epochs = {e1}
  Bound = 1
  MaxTime = 2
  MaxCalls = 2
  WorkerLoss = TRUE
SYMMETRY MCSymmetry
INVARIANTS UncertainEffectKeepsCustody AtMostOneWrite ResolvedStaysResolved
PROPERTIES ExecutingClaimIsRespected RecoveryUnderOriginalBinding ImplementsCustody
