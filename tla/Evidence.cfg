\* Two attempts of one id, which may stop anywhere; the installation changes its history duration.
CONSTANTS
  Attempts = {a1, a2}
  Sweepers = {s1}
  Bound = 1
  Days = {2, 3}
  MaxTime = 4
  None = None
SPECIFICATION FairSpec
INVARIANTS DispatchedOncePerHistory EvidenceIsTrue
PROPERTIES RecordedStands AnsweredIsRecorded ClaimIsResolved
