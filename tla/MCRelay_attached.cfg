SPECIFICATION AttachedSpec
CONSTANTS
  Agents = {a1}
  Devices = {d1}
  NoDevice = NoDevice
  Routers = {scan}
  Sweep = sweep
  Reported = {"winrm_connect_timeout"}
  MaxJobs = 3
  MaxAttempts = 2
  DispatchCap = 1
  MaxRounds = 2
  MaxFaults = 0
INVARIANTS SelfHealBounded
PROPERTIES ReportedIsFinal 
CHECK_DEADLOCK FALSE
