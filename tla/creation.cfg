SPECIFICATION FairSpec
CONSTANTS
  g = g
  h = h
  f = f
  a = a
  s = s
  t = t
  Threads = {s, t}
  Ids = {g, h, f, a}
  Genesis = g
  Winner = h
  Loser = f
  Free = Free
  MaxCalls = 3
INVARIANTS
  TypeOK
  NoLostWakeup
  ChildOfFinalized
  ParentIndexed
CHECK_DEADLOCK FALSE
PROPERTIES
  EveryCallReturns
