SPECIFICATION MCSpec
CONSTANTS
  Producers = {p1, p2}
  Consumers = {c1, c2}
  MaxActive = 3
  Ages = {14}
  Flags = {FALSE}
  Counts = {0, 3, 4, 8}
  IndexModulus = 16
  MaxAtOnce = 2
  MaxObjects = 5
  Lockers = {t1, t2, t3}
  MaxRetries = 1
  MaxDepth = 2
  Cores = {a, b}
  HalfWord = 2
  Amounts = {0, 1, 3}
SYMMETRY Symmetry
CHECK_DEADLOCK FALSE
INVARIANT FullIsFull
