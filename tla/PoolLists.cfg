SPECIFICATION FairListsSpec
CONSTANTS
  Conns = {c1,c2,c3,c4}
  Callers = {p1,p2}
  Size = 3
  MaxStreamsArg = 0
  MaxIdleArg = 2
  NoConn = NoConn
  NoCaller = NoCaller
  HeadNode = HeadNode
  BusyNode = BusyNode
INVARIANT ListsLinked
PROPERTY GetReturns
