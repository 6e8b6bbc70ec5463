SPECIFICATION FairSpec
CONSTANTS
  Sinks = {w1, w2}
  NoSink = NoSink
  SlotCount = 2
  Threads = {t1, t2}
  Half = 8
  StalledCalls = FALSE
INVARIANTS
  ReleaseTellsTruth
  ReachesItsWrapper
  SwitchKeepsItsBuffers
PROPERTIES
  ReusedOnlyWhenEmpty
  UsesPool
  CallsReturn
CHECK_DEADLOCK FALSE
