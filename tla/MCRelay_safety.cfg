SPECIFICATION Spec
CONSTANTS
  Agents = {a1}
  Devices = {d1}
  NoDevice = NoDevice
  Routers = {scan}
  Sweep = sweep
  Reported = {"auth_failed", "winrm_connect_timeout"}
  MaxJobs = 2
  MaxAttempts = 2
  DispatchCap = 1
  MaxRounds = 1
  MaxFaults = 1
INVARIANTS  DoneHasEvidence
CHECK_DEADLOCK FALSE
