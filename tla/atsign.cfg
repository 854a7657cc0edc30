SPECIFICATION Spec
CONSTANTS
  max_pdu = 12
  maxsms_binary = 7
  max_udh_data = 24
  Characters = {0, 35}
  MaxMessage = 2
  MaxHeader = 8
INVARIANTS DeliveredWhole
CHECK_DEADLOCK FALSE
