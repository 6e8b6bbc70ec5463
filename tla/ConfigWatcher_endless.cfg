SPECIFICATION FairSpec
CONSTANTS
  CloseSignals = {TRUE}
  MaxEdits = 2
  MaxChanges = 2
  MaxFaults = 2
PROPERTIES
  LoadsOnChange
CHECK_DEADLOCK FALSE
