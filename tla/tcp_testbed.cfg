SPECIFICATION FairSpec
CONSTANTS
  NumConns = 2
  MsgLen = 2
  Capacity = 3
  Samples = 2
INVARIANTS BacklogNoticed OneMessage LatencyNoticed
PROPERTIES LatencyFinishes
CHECK_DEADLOCK FALSE
