SPECIFICATION Spec
CONSTANTS
  e1 = e1
  s1 = s1
  e2 = e2
  w1 = w1
  Ids = {e1, e2}
  Sites = {s1}
  SiteOf <- OneSite
  Workers = {w1}
  BatchSize = 2
  BufferSize = 1
  Malformed = {}
  Refusals = FALSE
  MaxSends = 1
  MaxPushFaults = 1
  MaxWorkerFaults = 1
  MaxDrops = 0
  MaxStops = 1
  MaxRestarts = 0
  MaxDeletes = 1
INVARIANTS AcceptedIsKept
PROPERTIES StoresOnce
