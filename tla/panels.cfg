SPECIFICATION AnalysisSpec
CONSTANTS
  c1 = c1
  c2 = c2
  e1 = e1
  e2 = e2
  tank = tank
  Characters = {c1, c2}
  Mains = {c1, c2}
  Menus <- MCMenus
  Roles = {tank}
  Events = {e1, e2}
  Histories <- MCHistories
  Subscriptions <- MCSubscriptions
  Offered = {"CONFIRMED", "DECLINED", "NO_SHOW"}
  Ilvls <- MCIlvls
  Window = 2
  WeekLength = 2
  Horizon = 3
  MaxWrites = 2
INVARIANTS PanelsAddUp WeeksCountPeople OneReadingPerMain
PROPERTIES LinksAreHonoured
