SPECIFICATION Spec
CONSTANTS
    parent = parent
    child = child
    type = type
    NoParent = NoParent
    Nodes <- MCNodes
    Parent <- MCParent
    Refers <- MCRefers
    Targets <- MCTargets
    Wants <- MCWants
    Deletable = {parent}
    KeepAlive = 1
INVARIANT ChildrenWaitersAreServed
