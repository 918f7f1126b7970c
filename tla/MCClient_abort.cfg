SPECIFICATION SilentServer
CONSTANTS
  BulkConnections = 1
  MaxCalls = 1
PROPERTY AbortSettles
CHECK_DEADLOCK FALSE
