SPECIFICATION Spec
CONSTANTS
  Thread = {program, handler}
  NumPages = 2
  Ack = 9
INVARIANT NoWrongAck
CHECK_DEADLOCK FALSE
