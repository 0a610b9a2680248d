SPECIFICATION Spec
CONSTANTS
  e1 = e1
  e2 = e2
  s1 = s1
  s2 = s2
  Ids = {e1, e2}
  Sites = {s1, s2}
  SiteOf <- TwoSites
  BatchSize = 2
  BufferSize = 1
  UseRedis = TRUE
  MaxSends = 2
  MaxFaults = 3
  MaxRestarts = 1
  MaxDeletes = 1
INVARIANTS TypeOK ExactlyOnce NoSilentLoss NoSendOnClosed CleanShutdown
PROPERTIES StoresOnce
