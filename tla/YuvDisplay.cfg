SPECIFICATION Spec
CONSTANTS
  Frames = {f1, f2, f3}
  None = None
  QueueLen = 1
  MaxShown = 2
  MaxFaults = 2
  MaxFlushFaults = 1
INVARIANTS TaskHasObject ReadersHold ClosedIsEmpty ReleasedOnce
PROPERTIES CallsReturn FrameMoves
