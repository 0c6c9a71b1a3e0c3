SPECIFICATION FairSpec
CONSTANTS
  Peers = {a, b}
  First = a
  Retries = 3
  Networks <- MCNetworks
CHECK_DEADLOCK FALSE
INVARIANTS RolesAgree NominatedReachesPeer
PROPERTIES PathIsFound
