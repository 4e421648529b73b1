CONSTANTS
  t = t
  d = d
  l1 = l1
  l2 = l2
  Chains <- DefaultVariables
  Locs <- MCOneLoc
  InitialVars <- MCTwoVars
  DerivedVars <- MCNone
  AssimVars <- MCVars
  Profiles <- MCNone
SPECIFICATION Spec
PROPERTIES
  OnlyFilterVariablesModified
