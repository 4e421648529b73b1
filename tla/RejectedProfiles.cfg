CONSTANTS
  t = t
  d = d
  l1 = l1
  l2 = l2
  Chains <- RejectedProfiles
  Locs <- MCTwoLocs
  InitialVars <- MCVars
  DerivedVars <- MCNone
  AssimVars <- MCVars
  Profiles <- MCProfiles
SPECIFICATION Spec
PROPERTIES
  AveragedProfilesRejected
