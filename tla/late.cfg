SPECIFICATION ModemSpec
CONSTANTS
  Channels = {}
  SmsIndexes = {i1}
  NoObj = NoObj
  Confs <- OneConf
  Lines <- ModemLines
  SimReports <- AllSim
  MaxPending = 9
  Refuses = {}
  SimAtStart = {0}
  PinGood = TRUE
  LateAnswers = TRUE
  MaxEvents = 0
INVARIANT MessageKept
CHECK_DEADLOCK FALSE
