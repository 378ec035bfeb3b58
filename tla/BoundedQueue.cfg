SPECIFICATION Spec
CONSTANTS
  Size = 2
  Producer = {p1, p2}
  Consumer = {c1, c2}
  Item = {a, b}
  None = None
INVARIANTS
  TypeOK
  RingExclusive
PROPERTIES
  ItemsMoveOn
  ImplementsFifo
