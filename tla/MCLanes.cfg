SPECIFICATION LanesSpec
CONSTANTS
  BulkConnections = 2
  MaxCalls = 3
  DefaultBulk = 2
  DefaultInflight = 1
  DefaultDepth = 1
  DefaultFrameLen = 1
  OptionChoices <- SmallOptions
  CallKinds = {"append", "read", "subscribe"}
  MaxIssued = 2
INVARIANTS TypeOK LanesTypeOK AllOrNothing FairShare LossIsLocal
PROPERTIES ConnectSettles AppendsFlow ReadsFlow
CHECK_DEADLOCK FALSE
