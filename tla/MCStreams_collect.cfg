SPECIFICATION Spec
CONSTANTS
  Consumers = {c1}
  MaxItems = 2
  MaxFrame = 2
INVARIANT CollectIsWhole
CHECK_DEADLOCK FALSE
