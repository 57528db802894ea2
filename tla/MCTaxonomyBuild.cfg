SPECIFICATION FairSpec
CONSTANTS
  Absent = Absent
  None = None
  c1 = c1
  c2 = c2
  t1 = t1
  t2 = t2
  s1 = s1
  j1 = j1
  j2 = j2
  Content = {c1}
  Thread = {t1}
  Searcher = {}
  Job = {j1, j2}
INVARIANTS DoneMeansComplete
PROPERTIES RunningJobEnds
CHECK_DEADLOCK TRUE
