\* Up to three scans, in any order.
SPECIFICATION Spec
CONSTANTS
  Nodes <- MCNodes
  NoNode = "none"
  Types <- MCTypes
  NoType = "none"
  NodeInfo <- MCNodeInfo
  TypeInfo <- MCTypeInfo
  DeclFile <- MCDeclFile
  Provides <- MCProvides
  Sites <- MCSites
  MaxScans = 3
INVARIANTS NothingInvented CompleteUnlessAffected NoNodeWithinItself
\* There are no more scans.
CHECK_DEADLOCK FALSE
