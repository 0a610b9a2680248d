SPECIFICATION Spec
CONSTANTS
  e1 = e1
  e2 = e2
  bad = bad
  s1 = s1
  s2 = s2
  w1 = w1
  w2 = w2
  Ids = {e1, e2}
  Sites = {s1, s2}
  SiteOf <- TwoSites
  Workers = {w1}
  BatchSize = 1
  Malformed = {}
  Refusals = FALSE
  MaxSends = 1
  MaxFaults = 1
  MaxDrops = 0
  MaxStops = 0
  MaxDeletes = 0
PROPERTIES RequeuedFirst
