\* Two processes start over the files a dead owner left behind; whoever owns the lock may be
\* suspended past its lease at any await.
CONSTANTS
  Processes = {p1, p2, p3}
  Dead = {p3}
  Inodes = {n1, n2, n3}
  Lease = 1
  MaxCrashes = 0
  Stalls = TRUE
  SlowReaders = TRUE
  None = None
SPECIFICATION MCFairSpec
PROPERTIES LoserIsTold SurvivorsEnd
