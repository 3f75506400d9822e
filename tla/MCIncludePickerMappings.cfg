SPECIFICATION Spec
CONSTANTS
  SearchPaths <- MCSearchPaths
  AsmDirs = {"asm-x"}
  InternalMappings <- NoTable
  CHeaders <- None
  IncludeMappings <- LibraryMappings
  SymbolMappings <- LibrarySymbols
  DirectIncludes <- LibraryIncludes
  PrivateIncludes <- None
  PrivatePaths <- None
  Friends <- None
  MaxCalls = 5
  Keys <- MCKeys
INVARIANTS BestStaysFirst SymbolMapsClosed PublicReplacementsOffered
PROPERTY ImplementsMapClosure
CHECK_DEADLOCK FALSE
