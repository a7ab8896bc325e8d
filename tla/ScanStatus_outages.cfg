SPECIFICATION Spec
CONSTANTS
  w1 = w1
  w2 = w2
  j1 = j1
  j2 = j2
  Workers <- MCWorkers
  Jobs <- MCWorkers
  Home <- MCOwn
  HasValkey = TRUE
  MaxKills = 1
  MaxOutages = 1
SYMMETRY MCSwap
INVARIANTS TypeOK OneStartupScan
