SPECIFICATION Spec
CONSTANTS
  Unordered = {0}
  StreamsPerRequest = 1
  MaxChannels <- TwoOfClient
  Scenarios <- Unclosed
CHECK_DEADLOCK FALSE
INVARIANTS ReliableIsDelivered
