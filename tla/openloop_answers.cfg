SPECIFICATION Spec
CONSTANTS
  NULL = NULL
  ConnPerThread = 1
  BufSize = 5
  WheelSize = 5
  RTO = 2
  TickWord = 16
  NumBatches = 2
  BatchStride = 5
  Faults = {"loss", "dup", "reorder"}
  SendCost = {0, 1}
  LoopCost = {0, 1}
  MaxDelay = 2
  MaxLag = 2
  MaxTick = 6
  MaxSent = 3
  MaxDups = 1
INVARIANTS AnswersAttributed TimersOnTime ListsEnd
PROPERTIES ReplyFindsOwner KeepsWindow
