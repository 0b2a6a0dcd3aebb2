SPECIFICATION Spec
CONSTANTS
  Characters = {c1, c2}
  Workers = {w1, w2}
  Bots = {b1}
  Limit = 2
  MaxSyncs = 2
  MaxLosses = 1
  NoOne = NoOne
SYMMETRY Symmetry
INVARIANTS StaleIsOwed NoneIsPassedOver
CHECK_DEADLOCK FALSE
