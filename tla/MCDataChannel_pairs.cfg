SPECIFICATION Spec
CONSTANTS
  Addrs = {a1, a2, a3, a4}
  Null = Null
  NFds = 3
  MaxConns = 4
  MayReset = FALSE
  MayDelete = FALSE
SYMMETRY Symmetry
CHECK_DEADLOCK FALSE
INVARIANT PairingIsSound
