SPECIFICATION ClientSpec
CONSTANTS
    e1 = e1
    n1 = n1
    t1 = t1
    EventIds = {e1, e2}
    Nodes = {n1}
    NullNode = NullNode
    Times = {t1}
    Absent = Absent
    MaxParallelAcks = 1
    FirstOrigins <- MCAnyOrigin
    Watched = {n1}
    Severity <- MCSeverity
    SeverityLevels = {1, 2}
    kSeverityMin = 1
    ReadSlots = {r1, r2}
    MaxLive = 2
    MaxUpdates = 0
    ChannelMayClose = TRUE
    OthersAcknowledge = TRUE
SYMMETRY ReadSymmetry
INVARIANTS
    IndexMatchesStore
    OnlyShownSeverities
    NoEventIsMissed
    NoLostWakeup
