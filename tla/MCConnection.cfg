SPECIFICATION Spec
CONSTANTS
  MaxInflightRequests = 2
  RequestQueueDepth = 1
  MaxId = 4
  UserKinds = {"append", "read"}
INVARIANTS InflightBudget QueueDepth InIssueOrder WriterAsleepIdle WokenOnce
PROPERTIES GoneIsNotSent SilentWhenDead
CHECK_DEADLOCK FALSE
