SPECIFICATION Spec
CONSTANTS
  Calls = {"ConnectStation", "DisconnectStation"}
  Hostnames = {"valid"}
  Upsets = {}
  MaxTimeout = 1
  MaxQueue = 3
PROPERTY ConnectStationAnswers
CHECK_DEADLOCK FALSE
