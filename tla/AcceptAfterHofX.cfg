CONSTANTS
  t = t
  d = d
  l1 = l1
  l2 = l2
  Chains <- AcceptAfterHofX
  Locs <- MCOneLoc
  InitialVars <- MCVars
  DerivedVars <- MCNone
  AssimVars <- MCVars
  Profiles <- MCNone
SPECIFICATION Spec
INVARIANTS
  BackgroundCheckAssertsHold
