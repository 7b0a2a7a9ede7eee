CONSTANTS
  Requests = {"setIdle", "setReport"}
  MaxRequests = 2
  MaxAborts = 0
  MaxSwitches = 0
SPECIFICATION UsbSpec
PROPERTIES
  EveryRequestAnswered
CHECK_DEADLOCK FALSE
