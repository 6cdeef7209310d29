SPECIFICATION FairSpec
CONSTANTS
  MaxVms = 2
  MaxCalls = 4
  MaxAsks = 2
  AskInTick <- MCEither
CHECK_DEADLOCK FALSE
INVARIANTS
  CallReachesItsVm
  DecidedAsAnswered
  TickKeepsItsVm
PROPERTY AnswerDecides
