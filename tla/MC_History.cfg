SPECIFICATION Spec
CONSTANTS
  App = {app1, app2}
  Capacity = 4
  BatchSize = 3
  MaxMeasured = 7
  MaxRestarts = 1
  app1 = app1
  app2 = app2
INVARIANTS TypeOK Complete
PROPERTIES AnswersOwnRequest
CHECK_DEADLOCK FALSE
