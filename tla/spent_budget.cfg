SPECIFICATION FairSpec
CONSTANTS
  Codes = {a, b}
  Workers = {w1}
  Revisions = {1, 2}
  Matchings = {m1}
  Refusals = {"PRIVATE"}
  Lease = 1
  Wait = 1
  MaxEdits = 2
  MaxLosses = 1
PROPERTIES HeldOnlyUntilReset
CHECK_DEADLOCK FALSE
