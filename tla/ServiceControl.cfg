SPECIFICATION FairSpec
CONSTANTS
  QueueLen = 4
  MaxRequests = 2
  MaxCommands = 1
  MaxLosses = 1
  MaxSessions = 1
  MaxFaults = 1
  MaxIncidents = 1
CHECK_DEADLOCK FALSE
INVARIANTS MaskSound
PROPERTIES HandoverQuiet ReconnectsAfterFailure StopAnswered
