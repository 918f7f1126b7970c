SPECIFICATION SessionSpec
CONSTANTS
  MaxInflightRequests = 1
  RequestQueueDepth = 1
  MaxId = 3
  UserKinds = {"subscribe"}
INVARIANTS
  CancelledAtServer
CHECK_DEADLOCK FALSE
