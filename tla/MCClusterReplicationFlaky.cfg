SPECIFICATION FairSpec
CONSTANTS
  a = a
  b = b
  c = c
  s1 = s1
  v1 = v1
  v2 = v2
  None = None
  Node = {a, b}
  Owner = {a}
  Sid = {s1}
  Value = {v1, v2}
  Wall = {1}
  MaxVersion = 3
  LastWrite = 2
  HoldTimeout = 1
  Interval = 1
  Lag = 0
  Timed = FALSE
  Flaky = TRUE
INVARIANTS VersionTellsContent
 
CHECK_DEADLOCK TRUE
