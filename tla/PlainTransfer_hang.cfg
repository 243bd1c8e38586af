SPECIFICATION Spec
CONSTANTS
  Stop = 1
  Limits = {2}
  Lengths = {}
  BufSize = 2
  ReceiveTimeout = FALSE
  SendTimeout = FALSE
  MaxSent = 2
PROPERTY ReadsTimeOut
CHECK_DEADLOCK FALSE
