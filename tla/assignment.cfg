SPECIFICATION AssignSpec
CONSTANTS
  Raiders = {1, 2, 3, 4}
  Menus <- MCMenus
  Templates <- MCTemplates
  NULL = NULL
INVARIANTS WithinLimits BenchedForABetter NoSeatIdle
PROPERTIES RepairOnlyHelps
CHECK_DEADLOCK FALSE
