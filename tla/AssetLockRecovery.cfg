\* Two processes contend; one of them may crash at any await, its pid reused or not.
CONSTANTS
  Processes = {p1, p2}
  Dead = {}
  Inodes = {n1, n2, n3}
  Lease = 2
  MaxCrashes = 1
  Stalls = FALSE
  SlowReaders = FALSE
  None = None
SPECIFICATION FairSpec
INVARIANTS TypeOK MutualExclusion AcknowledgedUpdateSurvives
PROPERTIES OnlyOwnerReleases SurvivorIsServed
