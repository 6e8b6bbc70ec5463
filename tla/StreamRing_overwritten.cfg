SPECIFICATION FairSpec
CONSTANTS
  Lanes = {"output"}
  Mode = "Sync"
  HangLateCount = 3
  Modulus = 8
  MaxBlocks = 1
  Patient = FALSE
PROPERTIES
  ServeEnds
CHECK_DEADLOCK FALSE
