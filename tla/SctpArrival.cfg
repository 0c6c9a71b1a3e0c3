SPECIFICATION ArrivalSpec
CONSTANTS
  TsnModulo = 32
  SsnModulo = 16
  InitialTsn = 0
  AdvertisedRwnd = 20
  Messages <- InTurn
INVARIANTS AcknowledgementIsExact BufferIsAccounted NothingHeldBack
PROPERTIES DeliversAsPromised
