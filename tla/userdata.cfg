SPECIFICATION FormatsSpec
CONSTANTS
  max_pdu = 12
  maxsms_binary = 7
  max_udh_data = 24
  max_number = 20
  max_smsc = 5
  pdu_room = 27
  Numbers = {"0", "1", "2", "5", "15"}
  Space = Space
  Quote = Quote
  Characters = {35, 92}
  MaxMessage = 9
  MaxHeader = 8
  MaxNumber = 4
  MaxName = 5
  MaxUssd = 4
INVARIANTS RoundTrip NeverGarbled UssdRoundTrip PackersAgree MessageRead ReportRead CutRefused SubmitRead CregRead QuotedRead
CHECK_DEADLOCK FALSE
