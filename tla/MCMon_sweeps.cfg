SPECIFICATION FairMonSpec
CONSTANTS
  Loops = {loop}
  Requests = {request}
  TCP = {ssh, https}
  SNMP = snmp
  DefaultTarget = ssh
  FirstAnswers = {{ssh}, {snmp}}
  FirstKey = {TRUE, FALSE}
  DownThreshold = 2
  MaxCount = 2
  MaxRows = 2
  MaxEvents = 2
INVARIANTS ExtraChecksNeverOffline
PROPERTIES BadgeConverges
CHECK_DEADLOCK FALSE
