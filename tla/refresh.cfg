SPECIFICATION FairSpec
CONSTANTS
  States = {s1}
  Requested = 4
  Granted = {0, 2, 5}
  Longest = 5
  MinRefresh = 1
  LongAgo = 1
  MinError = 1
  MaxFlights = 1
  MaxQueue = 1
  None = None
INVARIANTS
  TypeOK
  RefreshGoesOn
PROPERTIES
  ExpirationIsSafe
  FailedIsRetried
