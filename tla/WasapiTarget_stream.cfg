SPECIFICATION FairSpec
CONSTANTS
  Habits = {"returns", "announces", "announces later"}
  MaxPeriods = 5
  Factors = {2}
  StartRefused = FALSE
  MaxStreams = 2
INVARIANTS
  OneCommits
  EventServesABlock
PROPERTIES
  DevicePlaysTheDaw
  ControlReturns
CHECK_DEADLOCK FALSE
