SPECIFICATION Spec
CONSTANTS
  MaxRetry = 2
  MaxSessions = 2
CHECK_DEADLOCK FALSE
INVARIANTS TypeOK NothingLeft WaitsOnSemaphore
PROPERTIES SessionEnds SilentServerWakesHost FailureReported
