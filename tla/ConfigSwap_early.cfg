SPECIFICATION Spec
CONSTANTS
  e1 = e1  c1 = c1  c2 = c2  c3 = c3
  Null = Null
  Configs <- MCConfigs
  EmptyConfigs <- MCEmptyConfigs
  StatelessConfigs <- MCStatelessConfigs
  TransitionLength = 2
  MaxVersion = 2
  CalmStart = FALSE
PROPERTIES
  PendingNotOverwritten
CHECK_DEADLOCK FALSE
