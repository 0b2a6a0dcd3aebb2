SPECIFICATION Spec
CONSTANTS
  Characters = {c1}
  Comps = {k1}
  Roles = {r1}
  Schedules <- MCSchedules
  Horizon = 2
  Callers = {p1, p2}
  NoOne = NoOne
  Offered = {"CONFIRMED", "LATE", "NO_SHOW"}
  Builders = {}
  NoComp = NoComp
SYMMETRY Symmetry
INVARIANTS AnswersAreTheRaiders QueueHoldsIntentions
CHECK_DEADLOCK FALSE
