SPECIFICATION Spec
CONSTANTS
  PNum = 2
  Rounds = 3
  TaskFirst = {1}
INVARIANTS
  TypeOK
  BuffersExclusive
  FreshResult
PROPERTIES
  RoundsGoOn
  ImplementsRendezvous
