SPECIFICATION Spec
CONSTANTS
  w1 = w1
  w2 = w2
  j1 = j1
  j2 = j2
  Workers <- MCOneWorker
  Jobs <- MCJobs
  Home <- MCTogether
  HasValkey = FALSE
  MaxKills = 0
  MaxOutages = 0
INVARIANT OneRunAtATime
