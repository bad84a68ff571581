CONSTANTS
  Ids <- MCIds
  Root = "root"
  Children <- MCChildren
  Forward <- MCForward
  Inverses <- MCInverse
  Parents <- MCParents
  DataTypes <- MCDataTypes
  Properties = {"property"}
  Types = {"type"}
  Valid = {"root"}
  Statuses <- MCStatuses
  MaxBatch = 2
  MaxRunning = 5
  Failing = {"type"}
  Asked = {"object"}
  MaxFetches = 2
  MaxCancels = 1
  MaxChanges = 1

SPECIFICATION FairSpec
INVARIANTS
  EveryNodeIsOnItsWay
  HandedNodesAreUsable
  ForcedFetchIsFresh
PROPERTIES
  ImplementsDelivery
  EveryFetchEnds
CHECK_DEADLOCK FALSE
