SPECIFICATION FairSpec
CONSTANTS
  CloseSignals = {TRUE, FALSE}
  MaxEdits = 2
  MaxChanges = 2
  MaxFaults = 2
PROPERTIES
  EditIsLoaded
  ValueIsLoaded
CHECK_DEADLOCK FALSE
