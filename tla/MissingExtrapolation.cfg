CONSTANTS
  Sizes <- MCSizes
  Categories <- MCCategories
  MaxGroupBy = 2
  MaxReorder = 1
  Ranks <- MCRanks
  Locs <- MCLocs
  Datasets <- MCDatasets
  Settings <- MCSettings
  TableInputs <- MissingInputs
  LookupValues <- LookedUp
  MaxLookups = 2
  Clauses <- WhereInputs
  MissingBits <- MCMissingBits
SPECIFICATION LookupSpec
INVARIANTS
  MissingOnlyOutOfBounds
