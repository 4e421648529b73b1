CONSTANTS
  Tracks <- MCTracks
  Options <- MCOptions
  Stations <- MCStations
  StuckOptions <- MCStuckOptions
  ShipTracks <- MCShips
  ShipOptions <- MCShipOptions
  Scale <- MCScale
  PairInputs <- MCPairInputs
  Pole <- MCPole
  Meridian <- MCMeridian
  SpikeRecords <- MCLevels
  SpikeOptions <- MCProfileOptions
  Scenarios <- MCScenarios
SPECIFICATION ChecksSpec
INVARIANTS
  PairsFound
  CountersUpToDate
  SmallestSetVisited
  AcceptedAgree
  StreaksRejected
  FastSegmentsRemoved
  OutliersAreSpikes
  FlagsCarriedOver
PROPERTIES
  SweepsEnd
