SPECIFICATION Spec
CONSTANTS
  NULL = NULL
  ConnPerThread = 2
  BufSize = 2
  WheelSize = 3
  RTO = 1
  TickWord = 4
  NumBatches = 1
  BatchStride = 1
  Faults = {"loss", "dup", "reorder"}
  SendCost = {0, 1}
  LoopCost = {0, 2}
  MaxDelay = 5
  MaxLag = 5
  MaxTick = 5
  MaxSent = 3
  MaxDups = 1
INVARIANTS TypeOK WheelInStep TimersNeverLate WindowIsSent
