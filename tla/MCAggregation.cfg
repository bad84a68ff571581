SPECIFICATION Spec
CONSTANTS
    Times = {0, 1, 2, 3, 4, 5, 6}
    Values <- MCValues
    Origin = 1
    Intervals <- MCIntervals
    MaxSamples = 4
INVARIANTS
    EverySampleIsCountedOnce
    BreaksDownOnlyAsKnown
    PagingDoesNotShow
CHECK_DEADLOCK FALSE
