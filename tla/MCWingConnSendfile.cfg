SPECIFICATION Spec
CONSTANTS
  Scenarios <- SendfileBlocked
  RespLen = 2
INVARIANT ResponsesInOrder
CHECK_DEADLOCK FALSE
