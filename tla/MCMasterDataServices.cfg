SPECIFICATION Spec
CONSTANTS
    live = live
    bare = bare
    NoSession = NoSession
    Sessions <- MCSessions
    WithItems <- MCWithItems
    Items = {i1, i2}
    Notifiers = {n1, n2}
    HandOverConnected = TRUE
SYMMETRY MCSymmetry
INVARIANTS
    ItemsAreBound
    ChannelsAgree
