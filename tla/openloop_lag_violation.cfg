SPECIFICATION Spec
CONSTANTS
  NULL = NULL
  ConnPerThread = 1
  BufSize = 2
  WheelSize = 3
  RTO = 1
  TickWord = 16
  NumBatches = 2
  BatchStride = 5
  Faults = {}
  SendCost = {1}
  LoopCost = {0, 2}
  MaxDelay = 7
  MaxLag = 7
  MaxTick = 7
  MaxSent = 3
  MaxDups = 0
INVARIANT AnsweredNotTimedOut
