SPECIFICATION FairSpec
CONSTANTS
  Lanes = {"output"}
  Mode = "Pipelined"
  HangLateCount = 3
  Modulus = 8
  MaxBlocks = 6
  Patient = TRUE
INVARIANTS
  DeathFoundOut
PROPERTIES
  ImplementsBlockFifo
  ServeEnds
  EveryBlockServed
CHECK_DEADLOCK FALSE
