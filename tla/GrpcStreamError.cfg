SPECIFICATION FairSpec
CONSTANTS
  Receiver = rcv
  Sender = snd
  Closers = {x1, x2}
  NoActor = NoActor
INVARIANT ErrorReported
CHECK_DEADLOCK FALSE
