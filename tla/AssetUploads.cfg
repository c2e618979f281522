SPECIFICATION FairSpec
CONSTANTS
  Processes = {p1, p2}
  Assets = {a1, a2}
  Slots = {1}
  MaxPending <- PendingLimits
  p1 = p1
  p2 = p2
  Quota = 1
  Deployments = {d1, d2}
  MaxRecords = 1
  MaxFaults = 2
  None = None
  Size <- AssetSize
INVARIANTS MetadataLast WithinLimits
PROPERTIES NothingIsForgotten Recovers
