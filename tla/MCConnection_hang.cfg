SPECIFICATION Spec
CONSTANTS
  MaxInflightRequests = 1
  RequestQueueDepth = 1
  MaxId = 3
  UserKinds = {"read"}
INVARIANTS
  NoCallerHangs
CHECK_DEADLOCK FALSE
