SPECIFICATION Spec
CONSTANTS
  States <- MCStates
  Layouts <- MCLayouts
  Rates = {3, 5}
  maximumBlockSize = 2
  Signals <- MCSignals
  MaxFrames = 5
  MaximumDelay = 2
  LinearGain <- MCGains
  LinearTrim <- MCTrims
  Coefficients <- MCCoefficients
  NotFinite = NotFinite
INVARIANTS
  BlocksAsDeclared
  ValidatedCompiles
CHECK_DEADLOCK FALSE
