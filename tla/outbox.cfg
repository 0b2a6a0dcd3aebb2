SPECIFICATION FairSpec
CONSTANTS
  Bots = {b1, b2}
  MaxRows = 3
  Limit = 2
  Lease = 1
  MaxLosses = 1
INVARIANT LeaseIsExclusive
PROPERTIES DeliversOnLease EveryRowIsSettled
CHECK_DEADLOCK FALSE
