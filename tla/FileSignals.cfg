SPECIFICATION FairSpec
CONSTANTS
  DartCandidates = 2
  JsCandidates = 1
  MaxTicks = 2
CHECK_DEADLOCK FALSE
INVARIANTS ProcessedIsAdded AnswerFits
PROPERTIES EveryLineIsAdded ExchangeResolves
