SPECIFICATION Spec
CONSTANTS
  NoFile = "none"
  NoClass = "no class"
  NoType = "no type"
  NoFunction = "no function"
  Mains <- MCMains
  HeaderFiles <- MCHeaderFiles
  Units <- MCUnits
  ClassInfo <- MCClassInfo
  TypeInfo <- MCTypeInfo
  FnInfo <- MCFnInfo
  Nodes <- MCNodes
  Texts <- MCTexts
INVARIANT EitherUserOrAuthor
CHECK_DEADLOCK FALSE
