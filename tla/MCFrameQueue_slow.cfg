SPECIFICATION Spec
CONSTANTS
  N = 3
  Consumers = {c1}
  Producers = {p1}
  Bufs = {b1, b2, b3}
  Reuse = TRUE
  SemMax = 1
  MaxHold = 3
  MaxSeq = 3
  NULL = NULL
SYMMETRY Symmetry
INVARIANT SlowConsumerLimited
