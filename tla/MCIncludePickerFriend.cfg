SPECIFICATION FairSpec
CONSTANTS
  SearchPaths <- MCSearchPaths
  AsmDirs = {"asm-x"}
  InternalMappings <- NoTable
  CHeaders <- None
  IncludeMappings <- None
  SymbolMappings <- None
  DirectIncludes <- OutsideIncludes
  PrivateIncludes <- None
  PrivatePaths <- None
  Friends <- OutsideFriends
  MaxCalls = 3
  Keys <- MCKeys
INVARIANT FriendRecognized
CHECK_DEADLOCK FALSE
