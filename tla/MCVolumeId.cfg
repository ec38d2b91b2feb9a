SPECIFICATION Spec
CONSTANTS
  Devices <- MCDevices
  Token <- MCToken
  SuperLen = 8
  SBSize = 12
  SeekSize = 8
  Early = 10
  EntrySize = 2
  ClusterAt = 1
  SectorSizes = {2, 4}
  W = 16
  MagicAt = 3
  Passes = 3
  MaxFaults = 1
CHECK_DEADLOCK FALSE
INVARIANTS
  CacheExact
  SuperAlive
  LabelFound
PROPERTY NearerToEnd
