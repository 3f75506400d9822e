SPECIFICATION FairSpec
CONSTANTS
  SearchPaths <- MCSearchPaths
  AsmDirs = {"asm-x"}
  InternalMappings <- CHeaderTable
  CHeaders <- CHeaderSet
  IncludeMappings <- None
  SymbolMappings <- None
  DirectIncludes <- ProjectIncludes
  PrivateIncludes <- ProjectPrivateIncludes
  PrivatePaths <- ProjectPrivatePaths
  Friends <- ProjectFriends
  MaxCalls = 5
  Keys <- MCKeys
INVARIANTS HasMappingTransitive FriendOnSearchPathGetsHeader
PROPERTY FinalizationEnds
CHECK_DEADLOCK FALSE
