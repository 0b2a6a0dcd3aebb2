SPECIFICATION FairSpec
CONSTANTS
  Bots = {b1, b2}
  MaxRows = 3
  Limit = 2
  MaxLosses = 2
INVARIANTS NoRowSleeps
PROPERTY PromisesAreKept
CHECK_DEADLOCK FALSE
