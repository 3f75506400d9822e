SPECIFICATION Spec
CONSTANTS
  NoFile = "none"
  NoClass = "no class"
  NoType = "no type"
  NoFunction = "no function"
  Mains <- MCMains
  HeaderFiles <- MCHeaderFiles
  Units <- MCUnits
  ClassInfo <- MCClassInfo
  TypeInfo <- MCTypeInfo
  FnInfo <- MCFnInfo
  Nodes <- MCNodes
  Texts <- MCTexts
INVARIANTS DroppedUsesAreProvided NotAskedTwice UnitsAgree TraitsAreDetermined
CHECK_DEADLOCK FALSE
