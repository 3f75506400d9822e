\* What an earlier scan has left.
SPECIFICATION Spec
CONSTANTS
  Nodes <- MCNodes
  NoNode = "none"
  Types <- MCTypes
  NoType = "none"
  NodeInfo <- MCNodeInfo
  TypeInfo <- MCTypeInfo
  DeclFile <- MCDeclFile
  Provides <- MCProvides
  Sites <- Functions
  MaxScans = 2
INVARIANT AnswerAlwaysSame
\* There are no more scans.
CHECK_DEADLOCK FALSE
