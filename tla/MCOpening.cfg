SPECIFICATION OpeningSpec
CONSTANTS
  MaxInflightRequests = 1
  RequestQueueDepth = 1
  MaxId = 3
  UserKinds = {"append", "stats", "read", "subscribe"}
INVARIANTS TypeOK PendingIsOpen DeadPendingUnsent PermitOwners
PROPERTIES OpensAsSeen ActsAsLane
CHECK_DEADLOCK FALSE
