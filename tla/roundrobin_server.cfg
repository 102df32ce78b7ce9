SPECIFICATION FairSpec
CONSTANTS
  NumSockets = 2
  MaxRequests = 5
  Backlog = 4
  Refused <- MCRefused
  Garbage = {0}
INVARIANTS ServesFour
PROPERTY KeepsEcho
