SPECIFICATION TransferSpec
CONSTANTS
  TsnModulo = 16
  SsnModulo = 16
  InitialTsn = 0
  AdvertisedRwnd = 20
  UserDataMaxLength = 2
  InitialCwnd = 8
  MaxTasks = 2
  MaxLosses = 1
  MaxDuplicates = 1
  MaxTimeouts = 0
  MaxFailures = 1
  Messages <- Partial
CHECK_DEADLOCK FALSE
INVARIANTS BufferedIsExact
PROPERTIES TransferDelivers
