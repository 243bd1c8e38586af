SPECIFICATION Spec
CONSTANTS
  Stop = 1
  Limits = {}
  Lengths = {}
  BufSize = 2
  MaxFragment = 2
  ReadTimeout = TRUE
  SendTimeout = TRUE
  MaxSent = 4
  MaxInterrupts = 0
  Records <- SmallRecords
PROPERTY FinishedMeansAll
CHECK_DEADLOCK FALSE
