CONSTANTS
  Processes = {p1, p2, p3}
  Dead = {}
  Inodes = {n1, n2, n3}
  Lease = 2
  MaxCrashes = 1
  Stalls = FALSE
  SlowReaders = FALSE
  None = None
SPECIFICATION Spec
INVARIANTS AcknowledgedUpdateSurvives
SYMMETRY Interchangeable
