SPECIFICATION Spec
CONSTANTS
  k1 = k1
  k2 = k2
  short = short
  long = long
  Keys = {k1, k2}
  Values = {short, long}
  Absent = Absent
  EntrySize <- SizeOfEntry
  CacheSize = 5
  NoBatch = NoBatch
  MaxNode = 2
  MaxStack = 2
  SizeLimit = 8
SYMMETRY Interchangeable
INVARIANTS
  TypeOK
  CacheCoherent
  SizeCounts
  BatchAllOrNothing
  DataOpensAgain
PROPERTIES
  CommitReachesDisk
  GenesisOnce
CHECK_DEADLOCK FALSE
