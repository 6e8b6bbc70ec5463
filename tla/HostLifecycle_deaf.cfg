SPECIFICATION Spec
CONSTANTS
  Hosts = {h1}
  Streams = {s1, s2}
  Lingers = {0, 1}
  NoStream = NoStream
  NoHost = NoHost
  Crashes = FALSE
INVARIANTS
  ListenerHears
CHECK_DEADLOCK FALSE
