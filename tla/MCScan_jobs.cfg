SPECIFICATION LossySpec
CONSTANTS
  Jobs = {j1}
  Hosts = {h1, h2, h3}
  Known = {h1, h2}
  Concurrency = 2
  MaxCrashes = 1
  MaxFaults = 2
INVARIANTS KnownAccountedFor  RunningHasWorker
PROPERTIES JobsSettle
CHECK_DEADLOCK FALSE
