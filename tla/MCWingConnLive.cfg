SPECIFICATION EagerSpec
CONSTANTS
  Scenarios <- LiveScenarios
  RespLen = 2
PROPERTY RequestsAnswered
CHECK_DEADLOCK FALSE
