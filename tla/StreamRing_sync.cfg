SPECIFICATION Spec
CONSTANTS
  Lanes = {"output", "input"}
  Mode = "Sync"
  HangLateCount = 3
  Modulus = 8
  MaxBlocks = 4
  Patient = FALSE
INVARIANTS
  SlotExclusive
  TakenInOrder
PROPERTIES
  ReturnsFilteredBlock
CHECK_DEADLOCK FALSE
