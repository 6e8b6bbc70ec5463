SPECIFICATION Spec
CONSTANTS
  Habits = {"returns", "announces", "announces later"}
  MaxPeriods = 5
  Factors = {2}
  StartRefused = TRUE
  MaxStreams = 2
INVARIANTS
  EventServesABlock
CHECK_DEADLOCK FALSE
