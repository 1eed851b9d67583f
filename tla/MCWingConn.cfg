SPECIFICATION Spec
CONSTANTS
  Scenarios <- AllScenarios
  RespLen = 2
INVARIANTS ResponsesInOrder StreamIntact HandlerOwnsFd BudgetExact EndsProperly
CHECK_DEADLOCK FALSE
