SPECIFICATION Spec
CONSTANTS
  a = a
  b = b
  c = c
  s1 = s1
  v1 = v1
  v2 = v2
  None = None
  Node = {a, b}
  Owner = {a}
  Sid = {s1}
  Value = {v1, v2}
  Wall = {0, 3}
  MaxVersion = 4
  LastWrite = 2
  HoldTimeout = 2
  Interval = 2
  Lag = 0
  Timed = TRUE
  Flaky = FALSE
INVARIANTS EvictedStayGone 
PROPERTIES Replicates
CHECK_DEADLOCK TRUE
