------------------------------ MODULE MCTrackCheck ------------------------------
(* Tracks of five observations, evenly or unevenly spaced in time, that may  *)
(* stay, move, jump and come back; higher speeds are allowed where the       *)
(* pressure is low, in the middle of the track.                             *)
EXTENDS TrackCheck, Sequences

At5(gaps, k) == IF k = 1 THEN 0 ELSE IF k = 2 THEN gaps[1] ELSE IF k = 3 THEN gaps[1] + gaps[2]
                ELSE IF k = 4 THEN gaps[1] + gaps[2] + gaps[3]
                ELSE gaps[1] + gaps[2] + gaps[3] + gaps[4]

MCTracks ==
  {[i \in 1 .. 5 |-> [time |-> At5(gaps, i), position |-> x[i],
                      pressure |-> IF i = 3 THEN 0 ELSE 1]] :
     gaps \in [1 .. 4 -> {1, 3}], x \in {y \in [1 .. 5 -> {0, 2, 5}] : y[1] = 0}}

Option(buddies, climbRate, threshold) ==
  [temporalResolution |-> 1, spatialResolution |-> 1, numDistinctBuddies |-> buddies,
   multiplier |-> 1, maxSpeed |-> [p \in 0 .. 1 |-> 1 - p], maxClimbRate |-> climbRate,
   threshold |-> threshold]

MCOptions == {Option(1, -1, <<4, 5>>), Option(2, -1, <<4, 5>>), Option(1, 0, <<1, 2>>)}

(* The fraction of the checks that may fail is allowed to be all of them.   *)
MCAllMayFail == {Option(1, -1, <<1, 1>>)}

=============================================================================
