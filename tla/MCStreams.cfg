SPECIFICATION FairSpec
CONSTANTS
  Consumers = {c1, c2}
  MaxItems = 4
  MaxFrame = 3
INVARIANTS TypeOK EveryItemOnce OneEnd LoopAwaited WatermarkIsFinal
PROPERTIES KeepsPromise LoopsEnd
CHECK_DEADLOCK FALSE
