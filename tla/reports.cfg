SPECIFICATION FairSpec
CONSTANTS
  Codes = {a, b}
  Workers = {w1, w2}
  Revisions = {1, 2}
  Matchings = {m1, m2}
  Refusals = {"PRIVATE"}
  Lease = 1
  Wait = 1
  MaxEdits = 3
  MaxLosses = 1
INVARIANTS ReadyIsOfTheLink
PROPERTIES SettlesWhenStill PastedIsAnswered
CHECK_DEADLOCK FALSE
