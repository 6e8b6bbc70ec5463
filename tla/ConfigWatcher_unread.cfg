SPECIFICATION FairSpec
CONSTANTS
  CloseSignals = {TRUE}
  MaxEdits = 0
  MaxChanges = 1
  MaxFaults = 0
PROPERTIES
  ChangeReloads
CHECK_DEADLOCK FALSE
