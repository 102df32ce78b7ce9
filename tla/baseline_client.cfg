SPECIFICATION FairSpec
CONSTANTS
  Second = 6
  MaxStep = 3
  SleepTime = 4
  num_threads_openloop = 2
  conn_perthread = 1
  ToSend = 3
  MaxLoss = 1
INVARIANTS SleepLongEnough KnownPorts OwnPortsUntilRaced
PROPERTIES ThreadsEnd
CHECK_DEADLOCK FALSE
