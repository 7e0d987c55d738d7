SPECIFICATION MCSpec
CONSTANTS
  MaxClients = 2
  MaxChannels = 2
  NFds = 2
  MaxUsers = 1
  Clients = {c1, c2}
  MaxSvChannels = 3
  Outs = {o1, o2}
  Ins = {i1, i2}
  NoConn = NoConn
  MaxActs = 2
  LifeChannels = {h1, h2}
  LifeUsers = {u1, u2}
CHECK_DEADLOCK FALSE
INVARIANTS ListenersDieWithClient StaleOnlyIfOvertaken ChannelsDieAlone NobodyForgotten PairIsReady FreedOnlyWhenCrossed ShutdownIsClean
PROPERTIES UnaskedOnlyEarly
