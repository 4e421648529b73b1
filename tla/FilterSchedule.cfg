CONSTANT Chains <- MCChains
SPECIFICATION Spec
INVARIANTS
  RunsOnceWhenDue
  ScheduleInv
PROPERTIES
  RunsWithItsData
  EveryFilterRuns
