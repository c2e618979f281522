\* A pool of one, recycled after two runs, three jobs with a call each, one death, under the
\* fairness of timers and exits alone.
CONSTANTS
  NumJobs = 3
  Workers = {w1, w2}
  MaxWorkers = 1
  RecycleAfter = 2
  MaxCalls = 1
  MaxDeaths = 1
  None = None
SPECIFICATION FairSpec
INVARIANTS WorkConserving NoOvertaking
PROPERTIES SettledOnce EveryJobSettles NoStrayThread
