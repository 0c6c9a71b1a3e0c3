SPECIFICATION Spec
CONSTANTS
  IndexModulo = 4
  Half = 4
  WindowSize = 3
  Profiles = {"gcm", "ctr"}
  FirstNumber = 5
  MaxPackets = 8
  MaxResends = 1
  MaxRollovers = 2
  MaxReports = 2
CHECK_DEADLOCK FALSE
INVARIANTS AcceptsExactlyFresh RolloverAgrees SrtcpOpens ScriptsAgree
