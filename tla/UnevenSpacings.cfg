CONSTANTS
  Ranks <- MCOneRank
  Obs <- MCObs
  Positions <- MCPositions
  Half <- MCHalf
  Priorities <- MCPriorities
  Spacings <- Uneven
  Seeds <- MCSeeds
  Options <- MCInRecordOrder
SPECIFICATION Spec
INVARIANTS
  ExclusionVolumesRespected
