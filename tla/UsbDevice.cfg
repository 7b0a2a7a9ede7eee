CONSTANTS
  Requests <- MCRequests
  MaxRequests = 3
  MaxAborts = 1
  MaxSwitches = 1
SPECIFICATION UsbSpec
INVARIANTS
  NativeBack AnswersOwn Listening
PROPERTIES
  RequestsEnd
CHECK_DEADLOCK FALSE
