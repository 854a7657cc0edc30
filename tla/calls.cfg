SPECIFICATION Spec
CONSTANTS
  Channels = {c1, c2}
  SmsIndexes = {}
  NoObj = NoObj
  Confs <- CallConfs
  Lines <- CallLines
  SimReports <- CallSim
  MaxPending = 2
SYMMETRY Symmetry
INVARIANTS IncomingInService OwnerAlive
