SPECIFICATION CollectSpec
CONSTANTS
  Agents = {a1}
  Devices = {d1}
  NoDevice = NoDevice
  Routers = {scan}
  Sweep = sweep
  Reported = {"winrm_connect_timeout"}
  MaxJobs = 2
  MaxAttempts = 2
  DispatchCap = 1
  MaxRounds = 2
  MaxFaults = 1
PROPERTIES CollectionsSettle
CHECK_DEADLOCK FALSE
