CONSTANTS
  Tracks <- MCTracks
  Options <- MCAllMayFail
SPECIFICATION Spec
PROPERTIES
  SweepsEnd
