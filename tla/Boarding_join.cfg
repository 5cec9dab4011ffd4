SPECIFICATION Spec
CONSTANTS
  Networks = {8, 12}
  QueueLen = 3
  MaxOps = 2
CHECK_DEADLOCK FALSE
INVARIANTS JoinsAsked
