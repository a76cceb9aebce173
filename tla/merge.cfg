SPECIFICATION Spec
CONSTANTS
  KeyCount = 3
  Height = 3
  SpaceOf <- FirstKeyApart
INVARIANTS
  TypeOK
  AtNewest
  BackNeverThrows
  NeighboursFound
PROPERTIES
  InOrder
CHECK_DEADLOCK FALSE
