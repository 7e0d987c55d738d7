SPECIFICATION Spec
CONSTANTS
  Addrs = {a1, a2, a3}
  Null = Null
  NFds = 3
  MaxConns = 3
  MayReset = TRUE
  MayDelete = TRUE
SYMMETRY Symmetry
CHECK_DEADLOCK FALSE
INVARIANT RelaysStayApart
