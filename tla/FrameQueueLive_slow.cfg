SPECIFICATION TimedSpec
CONSTANTS
  N = 2
  Consumers = {c1, c2}
  Producers = {p1}
  Bufs = {b1, b2}
  Reuse = TRUE
  SemMax = 2
  MaxHold = 2
  MaxSeq = 3
  NULL = NULL
  Slow = {c2}
PROPERTIES FastNeverBlocked
