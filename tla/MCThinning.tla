------------------------------- MODULE MCThinning -------------------------------
(* The three thinning filters, each on its own small instance: a behaviour   *)
(* runs one of them, and the variables of the others stay as they are.       *)
(*                                                                         *)
(*  - "poisson": two ranks of MCPoissonDiskThinning;                       *)
(*  - "temporal": groups of four observations at six times, room for two    *)
(*    windows of replacement on either side of a seed, with tolerances      *)
(*    below, at and above the minimum spacing;                              *)
(*  - "median": four observations in two bins, with fewer, as many and more *)
(*    than the minimum number, and distances from the median below 1.0.     *)
EXTENDS MCPoissonDiskThinning, TemporalThinning, MedianThinning

MCSizes == {2, 4}
MCTimes == 0 .. 5
MCImportances == 1 .. 3
Seeded   == [minSpacing : {2}, tolerance : {1, 3}, hasPriorities : {TRUE},
             hasSeed : {TRUE}, seedTime : {0, 3}]
Unseeded == [minSpacing : {2, 3}, tolerance : {1, 3}, hasPriorities : {TRUE},
             hasSeed : {FALSE}, seedTime : {0}]
NoPriorities == [minSpacing : {2}, tolerance : {1}, hasPriorities : {FALSE},
                 hasSeed : {TRUE}, seedTime : {3}]
MCSettings == Seeded \cup Unseeded \cup NoPriorities

MCBinnedObs  == 1 .. 4
MCBins       == {"a", "b"}
MCValues     == {0, 2, 4}
MCUnit       == 4
MCSelections == {1 .. 4, 2 .. 4}
MCMinNums    == {3}

VARIABLE filter

PoissonIdle ==
  /\ position = 0 /\ priority = 0 /\ record = 0 /\ spacing = 0 /\ options = 0
  /\ shuffled = 0 /\ seed = 0 /\ pc = "idle" /\ left = [r \in Ranks |-> {}]
  /\ retained = [r \in Ranks |-> {}] /\ thinned = [r \in Ranks |-> {}]

TemporalIdle ==
  /\ size = 0 /\ time = 0 /\ importance = 0 /\ settings = 0 /\ pass = "idle"
  /\ it = 0 /\ best = 0 /\ deadline = 0 /\ isThinned = {} /\ seedObs = 0

MedianIdle ==
  /\ value = 0 /\ selected = {} /\ valid = {} /\ bin = 0 /\ minNumObsPerBin = 0
  /\ truncates = FALSE /\ phase = "idle" /\ groupsLeft = {} /\ thinnedInBins = {}

FiltersInit ==
  \/ filter = "poisson"  /\ RanksInit   /\ TemporalIdle /\ MedianIdle
  \/ filter = "temporal" /\ PoissonIdle /\ TemporalInit /\ MedianIdle
  \/ filter = "median"   /\ PoissonIdle /\ TemporalIdle /\ MedianInit

FiltersNext ==
  \/ filter = "poisson"  /\ RanksNext    /\ UNCHANGED <<filter, temporalVars, medianVars>>
  \/ filter = "temporal" /\ TemporalNext /\ UNCHANGED <<filter, vars, medianVars>>
  \/ filter = "median"   /\ MedianNext   /\ UNCHANGED <<filter, vars, temporalVars>>

FiltersSpec == FiltersInit /\ [][FiltersNext]_<<filter, vars, temporalVars, medianVars>>

=============================================================================
