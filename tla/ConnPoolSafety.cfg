SPECIFICATION Spec
CONSTANTS
  Conns = {c1, c2, c3, c4, c5}
  Callers = {p1, p2, p3}
  Size = 2
  MaxStreamsArg = 2
  MaxIdleArg = 1
  NoConn = NoConn
  NoCaller = NoCaller
SYMMETRY Symmetry
INVARIANTS CountersOK Capacity NoUseAfterClose NoLeak
PROPERTY ImplementsLease
