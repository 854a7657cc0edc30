SPECIFICATION Spec
CONSTANTS
  RDBUFF_MAX = 3
  Lengths = {1, 3, 5}
  MaxWire = 2
INVARIANTS TextWhenAsked CommandsHeard
PROPERTIES LinesInOrder Released SmsAnswered
CHECK_DEADLOCK FALSE
