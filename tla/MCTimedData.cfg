SPECIFICATION FairSpec
CONSTANTS
    Observers = {o1, o2}
    Last = 3
    Ranges <- MCRanges
    Recorded = {0, 2}
    PageSize = 1
INVARIANTS
    TimedDataTypeOK
    NoGapIsForgotten
    OrderlyReadyRangesAreFilled
PROPERTIES
    ObservedGetsReady
