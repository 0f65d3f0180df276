SPECIFICATION FairSpec
CONSTANTS
  rule1 = rule1
  Loops = {loop}
  Requests = {}
  TCP = {ssh}
  SNMP = snmp
  DefaultTarget = ssh
  FirstAnswers = {{}}
  FirstKey = {TRUE}
  DownThreshold = 1
  MaxCount = 1
  MaxRows = 1
  MaxEvents = 2
  Evaluators = {e1, e2}
  Rules = {rule1}
  Trigger <- FiresOnDown
  MinFailures <- FloorOfOne
  AutoWorkOrder = {rule1}
  Escalating = {rule1}
  MaxAlerts = 2
INVARIANTS OneOrderPerAlert
PROPERTIES AlertsClear OutagesAlerted
CHECK_DEADLOCK FALSE
