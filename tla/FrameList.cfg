SPECIFICATION ListSpec
CONSTANTS
  ListNodes = {n1, n2, n3, n4}
  Nil = Nil
INVARIANTS Linked
PROPERTIES ImplementsLists SweepComplete
