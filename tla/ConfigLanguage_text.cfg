SPECIFICATION Spec
CONSTANTS
  Channels <- MCChannels
  Filters <- MCFilters
  Texts <- MCTexts
  realChannelCount = 2
  MaxFilters = 4
  MaxBlocks = 2
  MaxChains = 2
  RECURSION_LIMIT = 2
  IncludedThrows = FALSE
  Unclosed = FALSE
  Null = Null
INVARIANTS
  BranchesAsNested
  InheritsOnlyWhatIsThere
PROPERTIES
  IncludeLeavesNoTrace
  ImplementsChannelFlow
CHECK_DEADLOCK FALSE
