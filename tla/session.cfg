SPECIFICATION Spec
CONSTANTS
  Channels = {}
  SmsIndexes = {i1}
  NoObj = NoObj
  Confs <- SessionConfs
  Lines <- SessionLines
  SimReports <- SessionSim
  MaxPending = 3
INVARIANTS TypeOK InitToken ReadyHasSms PinCounted NothingOutlives
PROPERTIES PinOncePerSession InitChain
