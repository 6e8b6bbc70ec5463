SPECIFICATION FairSpec
CONSTANTS
  Hosts = {h1}
  Streams = {s1}
  Lingers = {0, 1}
  NoStream = NoStream
  NoHost = NoHost
  Crashes = FALSE
PROPERTIES
  EveryHostLeaves
CHECK_DEADLOCK FALSE
