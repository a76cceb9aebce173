SPECIFICATION SmoothSpec
CONSTANTS
  k1 = k1
  k2 = k2
  short = short
  long = long
  Keys = {k1}
  Values = {short, long}
  Absent = Absent
  EntrySize <- SizeOfEntry
  CacheSize = 5
  NoBatch = NoBatch
  MaxNode = 2
  MaxStack = 2
  SizeLimit = 8
INVARIANT
  CommitKeepsContents
CHECK_DEADLOCK FALSE
