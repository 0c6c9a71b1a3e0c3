SPECIFICATION FairTransferSpec
CONSTANTS
  TsnModulo = 16
  SsnModulo = 16
  InitialTsn = 0
  AdvertisedRwnd = 20
  UserDataMaxLength = 2
  InitialCwnd = 4
  MaxTasks = 1
  MaxLosses = 1
  MaxDuplicates = 1
  MaxTimeouts = 1
  MaxFailures = 0
  Messages <- Reliable
CHECK_DEADLOCK FALSE
INVARIANTS KeptUntilReceived UnackedIsTimed QuiescentAgreement
PROPERTIES EventuallyDelivered
