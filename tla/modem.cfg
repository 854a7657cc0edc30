SPECIFICATION ModemSpec
CONSTANTS
  Channels = {}
  SmsIndexes = {i1}
  NoObj = NoObj
  Confs <- OneConf
  Lines <- ModemLines
  SimReports <- AllSim
  MaxPending = 9
  Refuses = {}
  SimAtStart = {0, 1}
  PinGood = TRUE
  LateAnswers = FALSE
  MaxEvents = 3
INVARIANTS AnswersMatch MessageKept
PROPERTIES MessageReported InitEnds ServiceReached
CHECK_DEADLOCK FALSE
