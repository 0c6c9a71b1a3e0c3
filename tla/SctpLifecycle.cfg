CONSTANTS
  Peers = {a, b}
  Controlling = {a}
  MaxInit = 1
  MaxAssoc = 1
  MaxPending = 1
  MaxCopies = 1
  MaxFaults = 1
SPECIFICATION FairSpec
INVARIANTS EstablishedIsMutual WaitIsTimed
PROPERTIES HandshakeResolves ShutdownResolves
CHECK_DEADLOCK FALSE
