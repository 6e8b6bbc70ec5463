SPECIFICATION FairSpec
CONSTANTS
  Hosts = {h1, h2}
  Streams = {s1, s2}
  Lingers = {0, 1}
  NoStream = NoStream
  NoHost = NoHost
  Crashes = TRUE
INVARIANTS
  OneHostOwns
  NoStreamAbandoned
  LingerKept
PROPERTIES
  OpenReturns
  HostsLeave
CHECK_DEADLOCK FALSE
