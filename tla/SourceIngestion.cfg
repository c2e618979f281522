\* Two overlapping runs over a source of two records; two changes, faults or acts of any kind.
CONSTANTS
  NumIds = 2
  Runs = {r1, r2}
  Requests = {q1}
  MaxEvents = 2
  None = None
SPECIFICATION FairSpec
INVARIANTS ErasedStaysErased CompleteIsCurrent
PROPERTIES RefreshIsFresh EveryRefreshEnds
