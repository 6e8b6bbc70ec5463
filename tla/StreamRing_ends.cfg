SPECIFICATION FairSpec
CONSTANTS
  Lanes = {"output", "input"}
  Mode = "Sync"
  HangLateCount = 3
  Modulus = 8
  MaxBlocks = 2
  Patient = TRUE
PROPERTIES
  ServeEnds
  EveryBlockServed
CHECK_DEADLOCK FALSE
