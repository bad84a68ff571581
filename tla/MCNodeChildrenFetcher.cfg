CONSTANTS
  n1 = n1
  n2 = n2
  n3 = n3
  Ids <- MCIds
  MaxFetchChildCount = 2
  MaxChanges = 1
  MaxAsks = 4

SPECIFICATION FairSpec
INVARIANT
  EveryAskIsOnItsWay
PROPERTY
  EveryAskIsAnswered
CHECK_DEADLOCK FALSE
