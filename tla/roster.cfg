SPECIFICATION Spec
CONSTANTS
  Characters = {c1, c2, c3}
  Clients = {t1, t2}
  Roles = {r1, r2}
  MaxPuts = 2
  NoOne = NoOne
SYMMETRY Symmetry
INVARIANTS RegistrationsNeverCollide MenuIsOneSubmission
PROPERTIES KeepsAMain
CHECK_DEADLOCK FALSE
