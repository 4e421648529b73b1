CONSTANTS
  t = t
  d = d
  l1 = l1
  l2 = l2
  Chains <- PipelineChains
  Locs <- MCOneLoc
  InitialVars <- MCTwoVars
  DerivedVars <- MCNone
  AssimVars <- MCVars
  Profiles <- MCNone
SPECIFICATION Spec
INVARIANTS
  ChainInv
  PassingObsHaveHofX
  PassingObsHaveError
  BackgroundCheckSafe
PROPERTIES
  ImplementsVerdict
