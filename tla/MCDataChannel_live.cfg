SPECIFICATION FairSpec
CONSTANTS
  Addrs = {a1, a2}
  Null = Null
  NFds = 3
  MaxConns = 3
  MayReset = FALSE
  MayDelete = TRUE
CHECK_DEADLOCK FALSE
PROPERTIES DeleteClosesRelayed CloseReachesPartner
