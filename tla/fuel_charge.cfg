SPECIFICATION Spec
CONSTANTS
  w1 = w1
  w2 = w2
  d = d
  Workers <- MCWorkers
  Driver <- d
  Budget = 4
  MaxLimit = 3
SYMMETRY MCSymmetry
INVARIANT ChargeCovered
CHECK_DEADLOCK FALSE
