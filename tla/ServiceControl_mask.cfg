SPECIFICATION Spec
CONSTANTS
  QueueLen = 3
  MaxRequests = 2
  MaxCommands = 1
  MaxLosses = 1
  MaxSessions = 1
  MaxFaults = 0
  MaxIncidents = 2
INVARIANTS MaskAlwaysSound
CHECK_DEADLOCK FALSE
