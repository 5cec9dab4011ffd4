SPECIFICATION Spec
CONSTANTS
  MaxRetry = 1
  MaxSessions = 1
CHECK_DEADLOCK FALSE
INVARIANT ThreadsBeforeResources
