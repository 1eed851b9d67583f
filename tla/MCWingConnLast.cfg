SPECIFICATION Spec
CONSTANTS
  Scenarios <- BlockedLast
  RespLen = 2
INVARIANT NothingAfterLast
CHECK_DEADLOCK FALSE
