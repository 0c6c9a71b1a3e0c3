SPECIFICATION FairSpec
CONSTANTS
  SeqModulo = 16
  Half = 8
  BufferSize = 3
  MaxRetries = 3
  MaxLost = 2
  FirstNumber = 14
  MaxPackets = 5
  MaxSends = 2
  MaxFailures = 1
CHECK_DEADLOCK FALSE
INVARIANTS LossIsTimed AskedBeforeGivenUp OnlyMissingIsLost
PROPERTIES LossResolves
