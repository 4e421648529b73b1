CONSTANTS
  Sizes <- MCSizes
  Categories <- MCCategories
  MaxGroupBy = 2
  MaxReorder = 1
  Ranks <- MCRanks
  Locs <- MCLocs
  Datasets <- MCDatasets
  Settings <- MCSettings
  TableInputs <- MCTableInputs
  LookupValues <- LookedUp
  MaxLookups = 2
  Clauses <- WhereInputs
  MissingBits <- MCMissingBits
SPECIFICATION PartsSpec
INVARIANTS
  GroupsAreClasses
  UnreadLinksKept
  IdsAscendInGroups
  RecordsThinnedWhole
  OneRetainedPerGroup
  ExtractsMatches
  OppositesShareLocations
PROPERTIES
  GroupByReturns
  EveryRankReturns
