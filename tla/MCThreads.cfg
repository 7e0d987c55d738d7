SPECIFICATION MCSpec
CONSTANTS
  Tunnels = {c1, c2}
  MaxCreate = 1
  Outs = {o1, o2}
  Ins = {i1, i2}
  NoConn = NoConn
  MaxActs = 0
  NWorkers = 2
  Tasks = {t1, t2, t3}
  NoTask = none
CHECK_DEADLOCK FALSE
INVARIANTS FramesInOrder NoUseAfterFree
PROPERTIES FramesAreHandled ChannelCloses SlotIsEmptied Refinement PushedStarts DestroyReturns
