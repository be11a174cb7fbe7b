SPECIFICATION FairSpec
CONSTANTS
  Receiver = rcv
  Sender = snd
  Closers = {x1, x2}
  NoActor = NoActor
INVARIANT ClosedIsReleased
PROPERTIES SlotReturned CloseReturns
CHECK_DEADLOCK FALSE
