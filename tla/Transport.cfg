SPECIFICATION FairSpec
CONSTANTS
  Channels = {c1}
  ConsentMaxFailures = 2
  MaxSends = 2
  MaxPackets = 2
  MaxRestarts = 1
  MaxOutages = 1
CHECK_DEADLOCK FALSE
INVARIANTS SentOnce HandedOnce
PROPERTIES SilenceIsNoticed
