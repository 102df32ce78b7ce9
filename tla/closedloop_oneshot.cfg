SPECIFICATION FairSpec
CONSTANTS
  NumSockets = 2
  MaxRequests = 4
  Backlog = 4
  ITERS = 2
  MaxLoss = 1
  Refused <- MCRefused
  MaxOthers = 2
INVARIANTS AnswersOwn AnswerToCome NeverSpins StrandedByTimeouts
PROPERTIES AnswersOnce ClientFinishes
