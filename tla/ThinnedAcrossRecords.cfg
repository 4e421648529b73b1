CONSTANTS
  Ranks <- MCOneRank
  Obs <- MCObs
  Positions <- MCPositions
  Half <- MCHalf
  Priorities <- MCPriorities
  Spacings <- Decreasing
  Seeds <- MCSeeds
  Options <- MCInRecordOrder
SPECIFICATION Spec
INVARIANTS
  RecordsThinnedSeparately
