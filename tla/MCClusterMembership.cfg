SPECIFICATION FairSpec
CONSTANTS
  Node = {1, 2, 3}
  Formation <- NoneOrAll
  Skew <- InSync
  MaxOps = 2
  MaxFaults = 1
  MaxClock = 2
  Orderly = TRUE
  Prompt = TRUE
INVARIANTS VersionTellsRecord RestartRemembers
PROPERTIES RemovalHolds RosterConverges
CHECK_DEADLOCK FALSE
