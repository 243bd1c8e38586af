SPECIFICATION Spec
CONSTANTS
  Calls = {"ConnectStation", "DisconnectStation", "StartAP", "StopAP", "StopWIFI", "SetWifiMode"}
  Hostnames = {"none", "valid", "long"}
  Upsets = {"error", "disconnectError", "refuse", "drop", "lostIp"}
  MaxTimeout = 2
  MaxQueue = 3
INVARIANTS TypeOK LeaseIsSeen ApReadyIsServed
PROPERTIES ApCallsKeepStation HostnameAfterStart CallsReturn
CHECK_DEADLOCK FALSE
