SPECIFICATION Spec
CONSTANTS
  Characters = {c1}
  Comps = {k1, k2}
  Roles = {r1}
  Schedules <- MCShortNight
  Horizon = 1
  Callers = {p1}
  NoOne = NoOne
  Offered = {"CONFIRMED", "DECLINED"}
  Builders = {b1}
  NoComp = NoComp
SYMMETRY Symmetry
PROPERTIES DropIsReported KeepsTheQueue LockSparesManual LeavingGivesUpSeats ModeIsDeliberate
CHECK_DEADLOCK FALSE
