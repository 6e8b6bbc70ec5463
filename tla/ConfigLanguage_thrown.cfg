SPECIFICATION Spec
CONSTANTS
  Channels <- MCChannels
  Filters <- MCFilters
  Texts <- MCTexts
  realChannelCount = 2
  MaxFilters = 2
  MaxBlocks = 1
  MaxChains = 2
  RECURSION_LIMIT = 2
  IncludedThrows = TRUE
  Unclosed = FALSE
  Null = Null
INVARIANTS
  InheritsOnlyWhatIsThere
CHECK_DEADLOCK FALSE
