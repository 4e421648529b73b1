-------------------------- MODULE MCPoissonDiskThinning --------------------------
(* Ranks that process three observations in two records; priorities at      *)
(* both ends of the range of an int of three bits; spacings that decrease   *)
(* with the priority, do not, and pass the validation without doing so.    *)
EXTENDS PoissonDiskThinning

MCOneRank == {1}
MCRanks == {1, 2}
MCObs == 1 .. 3
MCPositions == {0, 1, 3}
MCNearPositions == {0, 1, 2}
MCAllPositions == MCPositions \cup MCNearPositions
MCHalf == 4
MCPriorities == {-4, 0, 3}
Decreasing == {[p \in MCPriorities |-> IF p = -4 THEN 4 ELSE 2]}
Increasing == {[p \in MCPriorities |-> IF p = -4 THEN 1 ELSE IF p = 0 THEN 2 ELSE 4]}
Uneven     == {[p \in MCPriorities |-> IF p = -4 THEN 4 ELSE IF p = 0 THEN 1 ELSE 3]}
Even       == {[p \in MCPriorities |-> 2]}
MCSpacings == Decreasing \cup Increasing \cup Even
MCSeeds == {1, 2}
MCSorted ==
  [shuffle : {FALSE}, byCategory : {TRUE}, sort : {"none", "ascending", "descending"}]
    \cup [shuffle : {FALSE}, byCategory : {FALSE}, sort : {"descending"}]
MCShuffled == [shuffle : {TRUE}, byCategory : {TRUE}, sort : {"none"}]
MCOptions == MCSorted \cup MCShuffled
MCInRecordOrder == [shuffle : {FALSE}, byCategory : {FALSE}, sort : {"none"}]

(* Two ranks: either in random order, then all priorities are the same, or   *)
(* one rank after the other, as nothing is left to chance.                  *)
RanksInit ==
  /\ \/ /\ options \in MCShuffled /\ spacing \in Even
        /\ position \in [Obs -> MCNearPositions] /\ priority = [i \in Obs |-> 0]
     \/ /\ options \in MCSorted /\ spacing \in Decreasing \cup Increasing
        /\ position \in [Obs -> MCPositions] /\ seed = [r \in Ranks |-> 1]
  /\ Init

RanksNext ==
  /\ Next
  /\ options.shuffle \/ left[1] = {} \/ left'[2] = left[2]

=============================================================================
