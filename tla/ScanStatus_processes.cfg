SPECIFICATION FairSpec
CONSTANTS
  w1 = w1
  w2 = w2
  j1 = j1
  j2 = j2
  Workers <- MCWorkers
  Jobs <- MCJobs
  Home <- MCApart
  HasValkey = TRUE
  MaxKills = 1
  MaxOutages = 0
INVARIANT StopsOnlyWhenAsked
PROPERTY StatusClears
