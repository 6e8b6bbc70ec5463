SPECIFICATION PoolSpec
CONSTANTS
  Sinks = {w1, w2}
  NoSink = NoSink
  SlotCount = 1
  Threads = {t1, t2}
  Half = 8
  StalledCalls = TRUE
INVARIANTS
  ReleaseTellsTruth
CHECK_DEADLOCK FALSE
