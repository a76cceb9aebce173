SPECIFICATION Spec
CONSTANTS
  g = g
  b = b
  c = c
  e = e
  x = x
  y = y
  d1 = d1
  d2 = d2
  d3 = d3
  k1 = k1
  v1 = v1
  v2 = v2
  Nodes = {g, b}
  Handles = {x}
  Drafts = {d1, d2, d3}
  Keys = {k1}
  Values = {v1, v2}
  Absent = Absent
  Untouched = Untouched
  Nil = Nil
  Unset = Unset
  ZeroRoot = ZeroRoot
  Genesis = g
  MaxRevision = 1
SYMMETRY Interchangeable
PROPERTIES
  CommitReachesParent
