SPECIFICATION Spec
CONSTANTS
  Stop = 1
  Limits = {0, 3}
  Lengths = {0, 2}
  BufSize = 2
  MaxFragment = 1
  ReadTimeout = TRUE
  SendTimeout = TRUE
  MaxSent = 4
  MaxInterrupts = 1
  Records <- SmallRecords
INVARIANTS TypeOK StopEndsData NothingLeftBuffered EmptyIsEnd FailedWriteCloses
PROPERTIES StreamKept CallsReturnOrRead
CHECK_DEADLOCK FALSE
