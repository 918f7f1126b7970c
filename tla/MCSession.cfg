SPECIFICATION FairSession
CONSTANTS
  MaxInflightRequests = 1
  RequestQueueDepth = 1
  MaxId = 3
  UserKinds = {"append", "read", "subscribe"}
INVARIANT NoProtocolError
PROPERTIES
  KeepsContract
  EventuallySettled
  WriterEnds
CHECK_DEADLOCK FALSE
