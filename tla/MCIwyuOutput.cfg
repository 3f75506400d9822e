\* foo.cc and foo.h.
SPECIFICATION Spec
CONSTANTS
  Files <- MCFiles
  NoFile = "none"
  Headers <- MCHeaders
  NoHeader = "none"
  Decls <- MCDecls
  NoDecl = "none"
  NoEntity = "none"
  DeclInfo <- MCDeclInfo
  EntityInfo <- MCEntityInfo
  QuotedInclude <- MCQuotedInclude
  FileOrder <- MCFileOrder
  HeaderFilenames <- MCHeaderFilenames
  SymbolHeaders <- MCSymbolHeaders
  FwdHeaders <- MCFwdHeaders
  FileHeaders <- MCFileHeaders
  HeaderHeaders <- MCHeaderHeaders
  Programs <- MCPrograms
  FlagSets <- MCFlagSets
  MaxReports = 2
INVARIANTS UsesStillSeen ForwardUsesDeclaredElsewhere NoIncludeWithoutReason
           NothingAddedTwice FailsOnlyForPragmas
\* The program exits.
CHECK_DEADLOCK FALSE
