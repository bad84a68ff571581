SPECIFICATION FairClientSpec
CONSTANTS
    e1 = e1
    n1 = n1
    t1 = t1
    EventIds = {e1, e2, e3}
    Nodes = {n1}
    NullNode = NullNode
    Times = {t1, t2}
    Absent = Absent
    MaxParallelAcks = 2
    FirstOrigins <- MCOfItem
    Watched = {}
    Severity <- MCSeverity
    SeverityLevels = {1}
    kSeverityMin = 1
    ReadSlots = {r1}
    MaxLive = 2
    MaxUpdates = 1
    ChannelMayClose = FALSE
    OthersAcknowledge = FALSE
INVARIANTS
    EveryCheckHolds
    AcksHoldTheirSlots
PROPERTIES
    NoOvertaking
    AcknowledgesArrive
