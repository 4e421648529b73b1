CONSTANT Samples <- MCSamples
SPECIFICATION Spec
INVARIANTS
  ChecksReachSample
  FlaggedAsRejected
