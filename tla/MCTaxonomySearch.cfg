CONSTANTS
  Service = {s1, s2}
  Category = {k1, k2}
  Root = Root
  Absent = Absent
  Torn = Torn
  Whole = Whole
  MaxServiceSize = 1
  MaxDepth = 2
  DeleteThreshold = 0
  MaxRefine = 2
  GenericNum = 2
  GenericDen = 3
  MaxBuilds = 2
  MaxFaults = 1
  MaxAdditions = 1
  Searcher = {a1}
  AskedMode = {"get_all", "get_one"}
  MinGroupSize = 2
  MaxEngines = 1
  MaxSearches = 2
  MaxFallbacks = 1
SYMMETRY Symmetry
SPECIFICATION Spec
CHECK_DEADLOCK FALSE
INVARIANTS WellShaped NothingLost  FullSearchFindsAll
