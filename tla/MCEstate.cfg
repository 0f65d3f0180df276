SPECIFICATION EstateSpec
SYMMETRY Symmetry
CONSTANTS
  Workers = {w1, w2}
  MaxRow = 2
  MaxTask = 2
  Polls = {w1, w2}
  Keys = {k1, k2}
  MaxLag = 1
  MaxFail = 1
  Entries = {k1, k2}
  MaxChange = 2
  Explored = {"success", "auth_failed", "wmi_access_denied", "winrm_connect_timeout"}
  Candidates = 2
  MaxAttempts = 2
  MaxJobs = 1
  MaxActs = 1
INVARIANTS
  ScanFailsOnlyOnDelete
  
  HonestStatus
  
PROPERTIES
  PlacementGuarded
  SnapshotsFaithful
  
CHECK_DEADLOCK FALSE
