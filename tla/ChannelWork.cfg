\* Two messages of one participant, two instances, one act of the operator or of the
\* retention at any moment.  Of the provider's four statuses two: "sent" ranks no higher than
\* the acceptance, "read" above "delivered" as that does above "failed".
CONSTANTS
  NumMessages = 2
  Participants = {p1}
  Sender <- MCSender
  Workers = {w1, w2}
  Concurrent = 1
  MaxAttempts = 2
  Statuses = {"failed", "delivered"}
  MaxChanges = 1
  None = None
  p1 = p1
SPECIFICATION FairSpec
INVARIANTS OldestFirst HistoryInOrder OutcomeIsTrue EvidenceCounts
PROPERTIES AnsweredOnce EveryMessageSettles
