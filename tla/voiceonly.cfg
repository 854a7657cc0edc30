SPECIFICATION ModemSpec
CONSTANTS
  Channels = {}
  SmsIndexes = {i1}
  NoObj = NoObj
  Confs <- OneConf
  Lines <- ModemLines
  SimReports <- AllSim
  MaxPending = 9
  Refuses = {"CMGF"}
  SimAtStart = {0}
  PinGood = TRUE
  LateAnswers = FALSE
  MaxEvents = 2
PROPERTY ServiceReached
CHECK_DEADLOCK FALSE
