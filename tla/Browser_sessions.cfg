SPECIFICATION Spec
CONSTANTS
  MaxOpen = 2
  MaxMade = 2
  MaxClicks = 3
  Tabs = {t1, t2}
  MaxViews = 2
  MaxTries = 2
  QueueCap = 1
  Routes = {"a", "b"}
  MaxRoutes = 3
  SESSION_TIMEOUT = 2
  MaxTime = 4
INVARIANT OthersRevoked
CHECK_DEADLOCK FALSE
