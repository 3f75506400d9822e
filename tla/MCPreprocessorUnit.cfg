SPECIFICATION Spec
CONSTANTS
  SearchPaths <- MCSearchPaths
  AsmDirs = {"asm-x"}
  Stem <- MCStem
  SourceNames = {"x.cc"}
  SystemHeaders <- MCSystemHeaders
  KeepGlobs <- None
  CheckAlso <- None
  Headernames <- UnitHeadernames
  FileOrder <- MCFileOrder
  MainFile <- Main
  Lines <- UnitLines
  Comments <- UnitComments
  MacroUses <- UnitMacroUses
  Guard <- Guarded
  MaxDepth = 5
  MaxLines = 7
  InternalMappings <- NoTable
  Keys <- UnitKeys
INVARIANTS ScopedIncludesExported OneScopePerFile ReexportersKeepIncludes AssociatedHeadersAnalyzed PrivateProvidesWhatPublicDoes PrefixHeadersClosed
CHECK_DEADLOCK FALSE
