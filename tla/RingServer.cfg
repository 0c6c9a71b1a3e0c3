SPECIFICATION FairSpec
CONSTANTS
  Clients = {c1, c2}
  EnoughFrames = 1
  MaxPackets = 2
CHECK_DEADLOCK FALSE
INVARIANTS SuccessIsEarned NothingIsMissed
PROPERTIES VerdictIsReached GoneIsReleased
