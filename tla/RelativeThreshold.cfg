CONSTANTS
  Tracks <- MCTracks
  Options <- MCOptions
SPECIFICATION Spec
PROPERTIES
  RejectedExceedThreshold
