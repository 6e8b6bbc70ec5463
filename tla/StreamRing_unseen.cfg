SPECIFICATION Spec
CONSTANTS
  Lanes = {"output"}
  Mode = "Sync"
  HangLateCount = 3
  Modulus = 8
  MaxBlocks = 6
  Patient = FALSE
INVARIANTS
  SyncDeathFoundOut
CHECK_DEADLOCK FALSE
