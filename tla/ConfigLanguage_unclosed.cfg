SPECIFICATION Spec
CONSTANTS
  Channels <- MCChannels
  Filters <- MCFilters
  Texts <- MCTexts
  realChannelCount = 2
  MaxFilters = 1
  MaxBlocks = 1
  MaxChains = 2
  RECURSION_LIMIT = 2
  IncludedThrows = FALSE
  Unclosed = TRUE
  Null = Null
INVARIANTS
  BranchesAsNested
CHECK_DEADLOCK FALSE
