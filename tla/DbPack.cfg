SPECIFICATION Spec
CONSTANTS
  HeadSize = 3
  MaxRx = 4
  MaxLen = 7
  Lengths = {0, 2, 4, 5, 7}
  MaxPackets = 3
  MaxGarbage = 1
  MaxSessions = 1
CHECK_DEADLOCK FALSE
INVARIANTS CacheFits
PROPERTIES ImplementsChannel
