SPECIFICATION CallSpec
CONSTANTS
  Channels = {c1, c2}
  SmsIndexes = {}
  NoObj = NoObj
  Confs <- CallConf
  Lines <- CallLines
  SimReports = {0}
  MaxPending = 12
  MaxEvents = 2
INVARIANTS FreeWhenQuiet NothingOwed EndsTold CallsOwned
PROPERTIES Settles
CHECK_DEADLOCK FALSE
