SPECIFICATION FairSpec
CONSTANTS
  NumSockets = 3
  MaxRequests = 4
  Backlog = 4
  Refused <- MCRefused
  num_threads_openloop = 2
  num_threads_closedloop = 2
  conn_perthread = 1
  Samples = 2
  MaxSent = 1
  MaxLoss = 1
INVARIANTS SamplesOwn SharedSocketLeaves StallsLate
PROPERTIES FirstFinishes RunEnds
CHECK_DEADLOCK FALSE
