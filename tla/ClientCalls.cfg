SPECIFICATION FairSpec
CONSTANTS
  Calls = {k1, k2, k3}
  Clients = {c1, c2, c3}
  NoClient = NoClient
  NoCall = NoCall
INVARIANTS OneClientPerDeletion OkHasReply SlotExact
PROPERTIES NoLateReply GoroutinesEnd
CHECK_DEADLOCK FALSE
