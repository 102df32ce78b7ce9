SPECIFICATION FairSpec
CONSTANTS
  NumSockets = 3
  MaxRequests = 2
  Backlog = 2
  Refused <- MCRefused
  Garbage = {0, 3}
  ReportAfter = 1
INVARIANTS NoStranded
PROPERTIES LogAccounts KeepsEcho
