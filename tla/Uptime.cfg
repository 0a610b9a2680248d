SPECIFICATION UptimeFairSpec
CONSTANTS
  s1 = s1
  s2 = s2
  Sites = {s1, s2}
  CheckLimit = 2
  MaxChecks = 3
  MaxLapses = 2
  alert = alert
  heartbeat = heartbeat
  r1 = r1
  r2 = r2
  r3 = r3
  down = down
  up = up
  u1 = u1
  u2 = u2
  Loops = {alert, heartbeat}
  Rules = {r1, r2, r3}
  Kinds = {down, up}
  Subscribes <- ThreeRules
  MaxEvents = 3
  MaxFaults = 1
  MonitorIds = {m1}
  Edits = {e1, e2}
  Intervals = {1, 2}
  Urls = {u1, u2}
  Changes <- OneColumn
  MaxTicks = 2
  MaxBreaks = 1
INVARIANTS OneIncidentPerOutage OneEventPerTransition NothingForgotten
  RepeatsNeedFailures EditsStand
PROPERTIES CatchesUp EveryEventLeaves ChecksSpaced DueIsChecked
