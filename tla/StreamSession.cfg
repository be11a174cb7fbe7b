SPECIFICATION FairSpec
CONSTANT Cap = 1
INVARIANTS NoWorkAfterReturn CloseOnce
PROPERTIES SessionCloses SessionEnds
CHECK_DEADLOCK FALSE
