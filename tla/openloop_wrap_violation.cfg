SPECIFICATION Spec
CONSTANTS
  NULL = NULL
  ConnPerThread = 1
  BufSize = 2
  WheelSize = 7
  RTO = 3
  TickWord = 16
  NumBatches = 2
  BatchStride = 5
  Faults = {}
  SendCost = {1, 2}
  LoopCost = {0, 1}
  MaxDelay = 3
  MaxLag = 3
  MaxTick = 9
  MaxSent = 3
  MaxDups = 0
INVARIANT FreeSlotsAreFree
