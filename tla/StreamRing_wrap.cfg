SPECIFICATION Spec
CONSTANTS
  Lanes = {"output"}
  Mode = "Pipelined"
  HangLateCount = 4
  Modulus = 8
  MaxBlocks = 10
  Patient = TRUE
INVARIANTS
  SlotExclusive
CHECK_DEADLOCK FALSE
