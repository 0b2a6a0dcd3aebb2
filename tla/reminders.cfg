SPECIFICATION FairSpec
CONSTANTS
  Workers = {w1, w2}
  Times <- MCTimes
  Leads <- MCLeads
  Edits <- MCEdits
  GuildLead = 1
  DefaultLead = 1
  Day = 2
  BatchLimit = 1
  Horizon = 2
  MaxEdits = 1
  MaxCrashes = 1
  NULL = NULL
  KEEP = KEEP
INVARIANTS PendingMatchesEvent OncePerMoment ReportsThePending
PROPERTIES NoStaleReminder TellsOnce DueGetsResolved
CHECK_DEADLOCK FALSE
