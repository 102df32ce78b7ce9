SPECIFICATION FairSpec
CONSTANTS
  NULL = NULL
  ConnPerThread = 2
  BufSize = 5
  WheelSize = 7
  RTO = 3
  TickWord = 16
  NumBatches = 2
  BatchStride = 5
  Faults = {"loss"}
  SendCost = {1, 2}
  LoopCost = {0, 1}
  MaxDelay = 3
  MaxLag = 3
  MaxTick = 8
  MaxSent = 3
  MaxDups = 0
INVARIANT OutstandingHasTimer
PROPERTIES RetiresOwnSlot ThreadExits
