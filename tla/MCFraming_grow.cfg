SPECIFICATION Spec
CONSTANTS
  MaxFrameLen = 2
  Traffic <- SmallTraffic
  MaxTail = 12
  MaxChunk = 4
  MaxNameLen = 1
INVARIANT BufferBounded
CHECK_DEADLOCK FALSE
