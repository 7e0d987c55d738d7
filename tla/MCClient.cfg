SPECIFICATION MCSpec
CONSTANTS
  Threads = {t1, t2}
  MaxLinks = 3
  MaxOutages = 2
  MaxLeaks = 1
  MaxBytes = 2
CHECK_DEADLOCK FALSE
INVARIANTS OneControlLink RelayIsClean
PROPERTIES ImplementsRwLock WriterGetsIn Reconnects StopReturns CloseReachesOther
