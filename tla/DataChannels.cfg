SPECIFICATION FairSpec
CONSTANTS
  Unordered = {}
  StreamsPerRequest = 1
  MaxChannels <- TwoOfClient
  Scenarios <- TalkingAndClosing
CHECK_DEADLOCK FALSE
INVARIANTS OpenIsMutual OrderedWithoutGaps CloseIsAgreed
PROPERTIES CloseResolves
