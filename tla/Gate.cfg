SPECIFICATION FairSpec
CONSTANTS
  ErrHandlerSet = TRUE
  ReqHasCodeMsg = FALSE
  Codes = {4001}
INVARIANTS   CodeArrives
PROPERTY Answers
CHECK_DEADLOCK FALSE
