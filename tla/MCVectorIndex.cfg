SPECIFICATION VectorSpec
CONSTANTS
  a = a  b = b  Id = {a, b}
  x = x  y = y  Text = {x, y}
  m = m  n = n  Model = {m, n}
  DefaultModel = m
  s1 = s1  s2 = s2  Sync = {s1, s2}
  HasQueries = TRUE
  MaxOps = 3
  MaxFailures = 1
SYMMETRY Symmetry
INVARIANTS IndexFollows ModelFollows 
CHECK_DEADLOCK FALSE
