SPECIFICATION Spec
CONSTANTS
  kEventQueueSize = 2
  Code = {c1, c2}
  kEventNone = none
  MaxCalls = 3
CHECK_DEADLOCK FALSE
INVARIANTS
  SafeForTwoContexts
