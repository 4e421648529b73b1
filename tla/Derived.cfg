CONSTANTS
  t = t
  d = d
  l1 = l1
  l2 = l2
  Chains <- DerivedChains
  Locs <- MCOneLoc
  InitialVars <- MCVars
  DerivedVars <- MCDerived
  AssimVars <- MCTwoVars
  Profiles <- MCNone
SPECIFICATION Spec
INVARIANTS
  PassingObsHaveValue
  DiagnosticFlagsFound
