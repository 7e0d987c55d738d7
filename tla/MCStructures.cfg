SPECIFICATION MCSpec
CONSTANTS
  Pages = {p1, p2, p3}
  MaxCount = 2
  MaxGrowth = 1
  Null = Null
  Data = Data
  MaxKey = 8
  MaxTreeKey = 5
  MaxBlocks = 5
  NoBlock = NoBlock
  Heads = {h1, h2}
  Items = {i1, i2, i3}
  NULL = NULL
  Junk = Junk
  Nodes = {n1, n2, n3}
  nullptr = nullptr
  MASK_ALIGN = 3
  MaxLen = 8
  Procs = {c1, c2, c3}
  Files = {f1, f2, f3}
  NoFile = NoFile
CHECK_DEADLOCK FALSE
INVARIANTS IsRedBlackTree TreeIsSearchTree MmChainIsFree ListsKeepOrder FifoIsQueue SearchesAreRight ArraysAreKept
PROPERTIES ImplementsStore DeleteRemovesOne
