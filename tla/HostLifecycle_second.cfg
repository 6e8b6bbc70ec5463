SPECIFICATION Spec
CONSTANTS
  Hosts = {h1, h2}
  Streams = {s1, s2}
  Lingers = {1}
  NoStream = NoStream
  NoHost = NoHost
  Crashes = FALSE
INVARIANTS
  SecondLeavesToAServer
CHECK_DEADLOCK FALSE
