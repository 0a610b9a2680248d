SPECIFICATION Spec
CONSTANTS
  MaxOpen = 2
  MaxMade = 2
  MaxClicks = 3
  Tabs = {t1, t2}
  MaxViews = 2
  MaxTries = 2
  QueueCap = 1
  Routes = {"a", "b"}
  MaxRoutes = 3
  SESSION_TIMEOUT = 2
  MaxTime = 4
INVARIANTS
  RowsAgree
  PublicDashboard
  NotificationsAgree
  StatsCurrent
  LastAdmin
  InviteSpentForMembership
  OneRow
  SentAtMost
  KeptOrGivenUp
  PageReports
PROPERTIES
  BusyEnds
  VisitRule
CHECK_DEADLOCK FALSE
