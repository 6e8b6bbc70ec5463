SPECIFICATION FairSpec
CONSTANTS
  e1 = e1  c1 = c1  c2 = c2  c3 = c3
  Null = Null
  Configs <- MCConfigs
  EmptyConfigs <- MCEmptyConfigs
  StatelessConfigs <- MCStatelessConfigs
  TransitionLength = 2
  MaxVersion = 2
  CalmStart = TRUE
PROPERTIES
  PendingNotOverwritten
  NoFreeInCallback
  FullCrossfade
  ImplementsHotSwap
  PendingBecomesCurrent
  DestroyTerminates
CHECK_DEADLOCK FALSE
