SPECIFICATION Spec
CONSTANTS
  ErrHandlerSet = TRUE
  ReqHasCodeMsg = TRUE
  Codes = {4001}
INVARIANT CodeArrives
CHECK_DEADLOCK FALSE
