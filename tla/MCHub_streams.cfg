SPECIFICATION FairSpec
CONSTANTS
  j1 = j1
  j2 = j2
  c1 = c1
  c2 = c2
  Jobs = {j1, j2}
  Clients = {c1, c2}
  Watches <- BothOnOne
  scanBufCap = 2
  scanSubDepth = 1
  maxHubJobs = 1
  MaxEvents = 2
  MaxRestarts = 1
INVARIANTS NoGapNoDuplicate NobodyStranded
PROPERTIES ReleasedUnlessEvicted
CHECK_DEADLOCK FALSE
