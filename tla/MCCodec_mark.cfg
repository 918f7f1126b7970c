SPECIFICATION Spec
CONSTANTS
  MaxFrameLen = 152
  Traffic <- CallTraffic
  MaxTail = 1
  MaxChunk = 60
  MaxNameLen = 6
INVARIANT TypeRoundTrips
CHECK_DEADLOCK FALSE
