SPECIFICATION Spec
CONSTANTS
  Calls = {"ConnectStation"}
  Hostnames = {"none"}
  Upsets = {"drop"}
  MaxTimeout = 1
  MaxQueue = 3
INVARIANT IsConnectedIsTrue
CHECK_DEADLOCK FALSE
