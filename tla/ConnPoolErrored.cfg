SPECIFICATION USpec
CONSTANTS
  Conns = {c1, c2, c3}
  Callers = {p1, p2}
  Size = 1
  MaxStreamsArg = 2
  MaxIdleArg = 1
  NoConn = NoConn
  NoCaller = NoCaller
SYMMETRY Symmetry
PROPERTY ErroredNotReused
