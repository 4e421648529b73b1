CONSTANTS
  Ranks <- MCRanks
  Obs <- MCObs
  Positions <- MCAllPositions
  Half <- MCHalf
  Priorities <- MCPriorities
  Spacings <- MCSpacings
  Seeds <- MCSeeds
  Options <- MCOptions
  Sizes <- MCSizes
  Times <- MCTimes
  Importances <- MCImportances
  Settings <- MCSettings
  BinnedObs <- MCBinnedObs
  Bins <- MCBins
  Values <- MCValues
  Unit <- MCUnit
  Selections <- MCSelections
  MinNums <- MCMinNums
SPECIFICATION FiltersSpec
INVARIANTS
  ThinnedByBetter
  ExclusionVolumesRespected
  RanksAgree
  SpacingKept
  ThinnedForAReason
  MedianRetained
