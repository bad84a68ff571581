SPECIFICATION FairSpec
CONSTANTS
    parent = parent
    child = child
    type = type
    NoParent = NoParent
    Nodes <- MCNodes
    Parent <- MCParent
    Refers <- MCRefers
    Targets <- MCTargets
    Wants <- MCParentViews
    Deletable = {parent}
    KeepAlive = 1
INVARIANTS
    NodeServiceTypeOK
    GuardsMatchFetches
    NodeWaitersAreServed
    SnapshotsAreCurrent
PROPERTIES
    FetchStatusOnlyGrows
    ChildrenFetchSettles
