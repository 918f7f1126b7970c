SPECIFICATION Spec
CONSTANTS
  MaxFrameLen = 152
  Traffic <- AllTraffic
  MaxTail = 5
  MaxChunk = 21
  MaxNameLen = 6
INVARIANTS
  TypeOK Reassembled RefusedAtHeader Understood TornRefused
  WellFormedNamesChecked CallAsMeant AnswerAsMeant
CHECK_DEADLOCK FALSE
