SPECIFICATION SiteSpec
CONSTANTS
  t1 = t1  t2 = t2
  Tabs <- MCTabs
  Window = 2  MaxFailures = 2  Block = 2
  MaxTime = 3
  Nil = Nil
  Rows <- MCRows
  Views <- MCViews
  Semesters = {1, 2}
  Types = {1, 2}
  Limit = 1
  MaxSends = 3
  MaxEdits = 1
  Databases <- MCDatabases
  Contracts <- MCContracts
  Picks <- MCPicks
  DefaultSize = 1
  Accepted = {1, 2}
  MaxChanges = 1
  MaxOpens = 1
  MaxLoads = 2
SYMMETRY Alike
INVARIANTS TokenCurrent EditEntitled ThrottleRight ShowsChoice MenusLead StatisticsTell
CHECK_DEADLOCK FALSE
