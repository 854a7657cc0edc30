SPECIFICATION Spec
CONSTANTS
  Channels = {}
  SmsIndexes = {i1}
  NoObj = NoObj
  Confs <- SmsOffConfs
  Lines <- SessionLines
  SimReports <- SessionSim
  MaxPending = 2
INVARIANT NoSmsWhenDisabled
