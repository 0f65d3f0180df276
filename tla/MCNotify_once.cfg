SPECIFICATION NotifierSpec
CONSTANTS
  Channels = {mail}
  warn = warn
  crit = crit
  Alerts = {warn, crit}
  Severity <- SeverityOf
  MinSeverity <- MinimumOf
  QuietStart = 1
  QuietEnd = 0
  DayLen = 2
  MaxFault = 2
INVARIANTS OncePerPairUnlessUnlogged
 
