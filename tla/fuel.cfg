SPECIFICATION Spec
CONSTANTS
  w1 = w1
  w2 = w2
  d = d
  Workers <- MCWorkers
  Driver <- d
  Budget = 4
  MaxLimit = 3
SYMMETRY MCSymmetry
INVARIANTS TypeOK ClaimCountExact FuelConserved
CHECK_DEADLOCK FALSE
