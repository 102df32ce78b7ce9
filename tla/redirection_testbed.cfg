SPECIFICATION FairSpec
CONSTANTS
  NumSockets = 2
  MaxRequests = 3
  Backlog = 3
  Signals = {SIGINT, SIGTERM}
  MaxRefused = 1
  conn_perthread = 2
  ToSend = 3
  MaxLoss = 1
  r1 = r1
  r2 = r2
  r3 = r3
  s1 = s1
  s2 = s2
  Nowhere = Nowhere
  replica_dst_list <- MCReplicas
  RoutingTable <- MCTable
INVARIANTS DumpExact EachInOnePlace
PROPERTIES SentByTable ClientFinishes
CHECK_DEADLOCK FALSE
