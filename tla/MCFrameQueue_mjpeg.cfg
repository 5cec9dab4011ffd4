SPECIFICATION Spec
CONSTANTS
  N = 2
  Consumers = {c1, c2}
  Producers = {p1}
  Bufs = {b1, b2}
  Reuse = TRUE
  SemMax = 2
  MaxHold = 1
  MaxSeq = 3
  NULL = NULL
SYMMETRY Symmetry
INVARIANTS TypeOK HeldIntact RefCountExact NothingStranded ProducerOwns HeapExact
PROPERTIES InOrder ImplementsBroadcast
