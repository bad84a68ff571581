\* Every order of one vendor file after another; then two instances.
CONSTANTS
  NodeIds <- MCNodeIds
  Names <- MCNames
  Null = Null
  NoValue = NoValue
  Nesting = 3
  Split <- MCSplit
  Placeholders = {"OptionalPlaceholder"}
  StandardNodes <- MCStandardNodes
  StandardEdges <- MCStandardEdges
  Orders <- MCOrders
  ClientOrder <- MCClientOrder
  Creations <- MCCreations
  Links <- MCLinks
  Deletable <- MCDeletable
  Writable <- MCWritable
  Declarations <- MCDeclarations
  Values = {0, 1}
SPECIFICATION Spec
INVARIANTS
  AddressSpaceTypeOK
  ReferencesAgree
  DeletionKeepsTheTree
  SubscribersCanFollow
  SnapshotsNameEveryReference
  NestedNodesAreFound
PROPERTIES
  LoadFindsEveryReference
CHECK_DEADLOCK FALSE
