SPECIFICATION FairSpec
CONSTANTS
  e1 = e1
  e2 = e2
  s1 = s1
  s2 = s2
  Ids = {e1, e2}
  Sites = {s1, s2}
  SiteOf <- TwoSites
  BatchSize = 2
  BufferSize = 1
  UseRedis = FALSE
  MaxSends = 1
  MaxFaults = 1
  MaxRestarts = 0
  MaxDeletes = 0
PROPERTIES BatchIsStored ShutdownReturns
