SPECIFICATION Spec
CONSTANTS
  Stop = 1
  Limits = {0, 3}
  Lengths = {0, 2}
  BufSize = 2
  ReceiveTimeout = TRUE
  SendTimeout = TRUE
  MaxSent = 4
INVARIANTS TypeOK StopEndsData RetryIsSafe
PROPERTIES StreamKept NotTruncated CallsReturnOrRead
CHECK_DEADLOCK FALSE
