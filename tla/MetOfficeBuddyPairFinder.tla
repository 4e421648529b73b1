------------------------ MODULE MetOfficeBuddyPairFinder ------------------------
(***************************************************************************)
(* MetOfficeBuddyPairFinder: finds the pairs of observations that the Met  *)
(* Office buddy check compares, which are those within the search radius   *)
(* of each other, up to some limits per observation.                       *)
(*                                                                         *)
(* Observations are sorted by zonal band and longitude.  Each one is       *)
(* paired with those that follow it in its band and with those of the      *)
(* bands to the south, in a range of longitudes that may wrap around.      *)
(*                                                                         *)
(* Angles are integers.  The distance on the sphere is abstracted: two     *)
(* observations are within the radius if their latitudes differ by at most *)
(* searchDLat and their longitudes by at most the reach of both bands.     *)
(***************************************************************************)
EXTENDS Integers, FiniteSets, SequencesExt

CONSTANTS
  PairInputs,     \* observations and options, see PairFinderAssumption
  Pole,       \* the latitude 90
  Meridian    \* the longitude 180

Bands(options) == 0 .. options.numZonalBands - 1

ASSUME PairFinderAssumption ==
  /\ Pole \in Nat \ {0} /\ Meridian \in Nat \ {0}
  /\ \A x \in PairInputs :
       /\ IsFiniteSet(DOMAIN x.obs) /\ DOMAIN x.obs \subseteq Nat
       /\ \A i \in DOMAIN x.obs :
            /\ x.obs[i].lat \in -Pole .. Pole
            /\ x.obs[i].lon \in -Meridian .. Meridian
            /\ x.obs[i].time \in Int
       /\ x.options.numZonalBands \in Nat /\ x.options.bandWidth \in Nat
       /\ x.options.numZonalBands * x.options.bandWidth = 2 * Pole
       /\ x.options.searchDLat \in Nat
       /\ x.options.useLegacyBuddyCollector \in BOOLEAN
       /\ {x.options.maxTotalNumBuddies, x.options.maxNumBuddiesFromSingleBand} \subseteq Nat \ {0}
       /\ x.options.maxNumBuddiesWithSameStationId \in Nat
       /\ \A b \in Bands(x.options) :
            /\ x.options.reach[b] \in Int /\ x.options.halfWidth[b] \in Nat
            /\ x.options.reach[b] <= x.options.halfWidth[b]

VARIABLES
  input,
  pairsPc,                       \* "sort", "pair" or "done"
  validObsIdsInSortOrder, bandLbounds,
  jBandA, obsA,             \* the current band and a position in the order
  jBandB,                   \* the band that is searched next
  firstObsToCheckInBands,
  buddies,                  \* the ids collected for A, nearby or not
  numBuddiesWithSameStationId,
  pairs

pairVars == <<input, pairsPc, validObsIdsInSortOrder, bandLbounds, jBandA, obsA, jBandB,
          firstObsToCheckInBands, buddies, numBuddiesWithSameStationId, pairs>>

PairObs == input.obs
PairOpt == input.options

PairInit ==
  /\ input \in PairInputs
  /\ pairsPc = "sort"
  /\ validObsIdsInSortOrder = <<>> /\ bandLbounds = <<>>
  /\ jBandA = 0 /\ obsA = 1 /\ jBandB = 0
  /\ firstObsToCheckInBands = <<>>
  /\ buddies = <<>> /\ numBuddiesWithSameStationId = 0 /\ pairs = <<>>

-----------------------------------------------------------------------------
Greater(x, y) == IF x < y THEN y ELSE x
Lesser(x, y)  == IF x < y THEN x ELSE y
Gap(x, y)     == Greater(x - y, y - x)

(* A latitude on the boundary belongs to the band to the north of it, but   *)
(* that of the North Pole to the first band.                               *)
BandOf(i) == Greater(0, (Pole - 1 - PairObs[i].lat) \div PairOpt.bandWidth)

SortKey(i) == <<BandOf(i), PairObs[i].lon, -PairObs[i].lat, PairObs[i].time, i>>

Precedes(i, j) ==
  \E k \in 1 .. 5 : /\ SortKey(i)[k] < SortKey(j)[k]
                    /\ \A m \in 1 .. k - 1 : SortKey(i)[m] = SortKey(j)[m]

(* sortObservations.  Band b is at positions bandLbounds[b] ..              *)
(* bandLbounds[b + 1] - 1 of the order.                                    *)
SortObservations ==
  /\ pairsPc = "sort"
  /\ validObsIdsInSortOrder' =
       [k \in 1 .. Cardinality(DOMAIN PairObs) |->
          CHOOSE i \in DOMAIN PairObs :
            Cardinality({j \in DOMAIN PairObs : Precedes(j, i)}) = k - 1]
  /\ bandLbounds' = [b \in 0 .. PairOpt.numZonalBands |->
                       1 + Cardinality({i \in DOMAIN PairObs : BandOf(i) < b})]
  /\ firstObsToCheckInBands' = [b \in Bands(PairOpt) |-> bandLbounds'[b]]
  /\ pairsPc' = "pair"
  /\ UNCHANGED <<input, jBandA, obsA, jBandB, buddies, numBuddiesWithSameStationId, pairs>>

-----------------------------------------------------------------------------
Lon(p) == PairObs[validObsIdsInSortOrder[p]].lon
BandBegin(b) == bandLbounds[b]
BandEnd(b)   == bandLbounds[b + 1]
Filled(b) == BandBegin(b) .. BandEnd(b) - 1

obsIdA == validObsIdsInSortOrder[obsA]
HalfWidth == PairOpt.halfWidth[jBandA]
MinLonToCheck == PairObs[obsIdA].lon - HalfWidth
MaxLonToCheck == PairObs[obsIdA].lon + HalfWidth

Ascending(positions) ==
  [k \in 1 .. Cardinality(positions) |->
     CHOOSE p \in positions : Cardinality({q \in positions : q < p}) = k - 1]

Descending(positions) ==
  [k \in 1 .. Cardinality(positions) |->
     CHOOSE p \in positions : Cardinality({q \in positions : q > p}) = k - 1]

FirstLoop(b) ==
  {p \in Filled(b) : /\ p >= (IF b = jBandA THEN obsA + 1 ELSE firstObsToCheckInBands[b])
                     /\ MinLonToCheck <= Lon(p) /\ Lon(p) <= MaxLonToCheck}

(* Longitudes beyond +180, at the beginning of the band.                   *)
SecondLoop(b) ==
  {p \in Filled(b) : /\ MaxLonToCheck > Meridian
                     /\ b # jBandA \/ HalfWidth < Meridian
                     /\ Lon(p) <= MaxLonToCheck - 2 * Meridian
                     /\ Lon(p) < MinLonToCheck}

(* Longitudes beyond -180, at the end of the band.  An observation of the   *)
(* same band has found this one.                                           *)
ThirdLoop(b) ==
  {p \in Filled(b) : /\ MinLonToCheck < -Meridian
                     /\ b # jBandA
                     /\ Lon(p) >= MinLonToCheck + 2 * Meridian
                     /\ Lon(p) > MaxLonToCheck}

PotentialBuddies(b) ==
  Ascending(FirstLoop(b)) \o Ascending(SecondLoop(b)) \o Descending(ThirdLoop(b))

LonGap(i, j) == LET g == Gap(PairObs[i].lon, PairObs[j].lon) IN Lesser(g, 2 * Meridian - g)

LatWithin(i, j) == Gap(PairObs[i].lat, PairObs[j].lat) <= PairOpt.searchDLat

WithinRadius(i, j) ==
  /\ LatWithin(i, j)
  /\ LonGap(i, j) <= Lesser(PairOpt.reach[BandOf(i)], PairOpt.reach[BandOf(j)])

SameStation(i, j) == PairObs[i].station = PairObs[j].station

(* c is the state of the collector: the buddies, how many of them are of    *)
(* the current band, and the counter of the same station.                  *)
FoundEnough(c) == \/ Len(c.buddies) = PairOpt.maxTotalNumBuddies
                  \/ c.inBand = PairOpt.maxNumBuddiesFromSingleBand

(* The legacy collector counts the same station before it looks at the      *)
(* latitude, and looks at the distance only once it has finished.          *)
ExaminePotentialBuddy(c, i) ==
  LET refused == /\ SameStation(obsIdA, i)
                 /\ c.sameStation >= PairOpt.maxNumBuddiesWithSameStationId
      accepted == IF PairOpt.useLegacyBuddyCollector THEN LatWithin(obsIdA, i) ELSE WithinRadius(obsIdA, i)
      counted == SameStation(obsIdA, i) /\ (PairOpt.useLegacyBuddyCollector \/ accepted)
  IN IF refused THEN c
     ELSE [buddies     |-> IF accepted THEN Append(c.buddies, i) ELSE c.buddies,
           inBand      |-> c.inBand + (IF accepted THEN 1 ELSE 0),
           sameStation |-> c.sameStation + (IF counted THEN 1 ELSE 0)]

Collected(b) ==
  LET potential == PotentialBuddies(b)
      after[k \in 0 .. Len(potential)] ==
        IF k = 0
          THEN [buddies |-> buddies, inBand |-> 0, sameStation |-> numBuddiesWithSameStationId]
        ELSE IF FoundEnough(after[k - 1]) THEN after[k - 1]
        ELSE ExaminePotentialBuddy(after[k - 1], validObsIdsInSortOrder[potential[k]])
  IN after[Len(potential)]

-----------------------------------------------------------------------------
LastBandToSearch ==
  Lesser(PairOpt.numZonalBands - 1, jBandA + PairOpt.searchDLat \div PairOpt.bandWidth + 1)

OutOfReach(b) ==
  Gap(2 * PairObs[obsIdA].lat, 2 * Pole - PairOpt.bandWidth * (2 * b + 1)) > 2 * PairOpt.searchDLat + PairOpt.bandWidth

(* Another band is searched for buddies of A, whether all are found or not. *)
SearchBand ==
  /\ pairsPc = "pair" /\ obsA < BandEnd(jBandA)
  /\ jBandB <= LastBandToSearch
  /\ IF OutOfReach(jBandB)
       THEN /\ jBandB' = jBandB + 1
            /\ UNCHANGED <<buddies, numBuddiesWithSameStationId, firstObsToCheckInBands>>
       ELSE LET c == Collected(jBandB) IN
            /\ buddies' = c.buddies
            /\ numBuddiesWithSameStationId' = c.sameStation
            /\ firstObsToCheckInBands' =
                 IF FirstLoop(jBandB) = {} THEN firstObsToCheckInBands
                 ELSE [firstObsToCheckInBands EXCEPT ![jBandB] = Ascending(FirstLoop(jBandB))[1]]
            /\ jBandB' = IF Len(c.buddies) = PairOpt.maxTotalNumBuddies
                           THEN LastBandToSearch + 1 ELSE jBandB + 1
  /\ UNCHANGED <<input, pairsPc, validObsIdsInSortOrder, bandLbounds, jBandA, obsA, pairs>>

(* appendBuddyPairsTo, and reset for the next observation of the band.      *)
FinishProcessingObsA ==
  /\ pairsPc = "pair" /\ obsA < BandEnd(jBandA)
  /\ jBandB > LastBandToSearch
  /\ LET near == Ascending({k \in DOMAIN buddies : WithinRadius(obsIdA, buddies[k])}) IN
     pairs' = pairs \o [k \in DOMAIN near |-> <<obsIdA, buddies[near[k]]>>]
  /\ obsA' = obsA + 1
  /\ jBandB' = jBandA
  /\ buddies' = <<>> /\ numBuddiesWithSameStationId' = 0
  /\ UNCHANGED <<input, pairsPc, validObsIdsInSortOrder, bandLbounds, jBandA, firstObsToCheckInBands>>

(* Mutant: the search in a band goes on from where that of another band has *)
(* left it.                                                                *)
NextBandKeepsFirstObs ==
  /\ pairsPc = "pair" /\ obsA = BandEnd(jBandA)
  /\ IF jBandA = PairOpt.numZonalBands - 1
       THEN pairsPc' = "done" /\ UNCHANGED <<jBandA, jBandB, firstObsToCheckInBands>>
       ELSE /\ jBandA' = jBandA + 1 /\ jBandB' = jBandA + 1
            /\ UNCHANGED <<pairsPc, firstObsToCheckInBands>>
  /\ UNCHANGED <<input, validObsIdsInSortOrder, bandLbounds, obsA, buddies,
                 numBuddiesWithSameStationId, pairs>>

NextBand ==
  /\ pairsPc = "pair" /\ obsA = BandEnd(jBandA)
  /\ IF jBandA = PairOpt.numZonalBands - 1
       THEN pairsPc' = "done" /\ UNCHANGED <<jBandA, jBandB, firstObsToCheckInBands>>
       ELSE /\ jBandA' = jBandA + 1 /\ jBandB' = jBandA + 1
            /\ firstObsToCheckInBands' = [b \in Bands(PairOpt) |-> BandBegin(b)]
            /\ UNCHANGED pairsPc
  /\ UNCHANGED <<input, validObsIdsInSortOrder, bandLbounds, obsA, buddies,
                 numBuddiesWithSameStationId, pairs>>

PairsDone == pairsPc = "done" /\ UNCHANGED pairVars

PairNext == SortObservations \/ SearchBand \/ FinishProcessingObsA \/ NextBand \/ PairsDone

PairSpec == PairInit /\ [][PairNext]_pairVars

-----------------------------------------------------------------------------
(* Properties.                                                             *)

BuddiesOf(i) == {j \in DOMAIN PairObs : <<i, j>> \in ToSet(pairs)}
BuddiesInBand(i, b) == {j \in BuddiesOf(i) : BandOf(j) = b}
BuddiesOfStation(i) == {j \in BuddiesOf(i) : SameStation(i, j)}

(* Observation i has no room for j.                                        *)
Full(i, j) ==
  \/ Cardinality(BuddiesOf(i)) = PairOpt.maxTotalNumBuddies
  \/ Cardinality(BuddiesInBand(i, BandOf(j))) = PairOpt.maxNumBuddiesFromSingleBand
  \/ /\ SameStation(i, j)
     /\ Cardinality(BuddiesOfStation(i)) = PairOpt.maxNumBuddiesWithSameStationId

(* Two observations make one pair at most, and those of a pair are within   *)
(* the radius.                                                             *)
PairedOnce ==
  \A k \in DOMAIN pairs :
    /\ pairs[k][1] # pairs[k][2]
    /\ WithinRadius(pairs[k][1], pairs[k][2])
    /\ \A m \in DOMAIN pairs : k # m => ToSet(pairs[k]) # ToSet(pairs[m])

WithinLimits ==
  \A i \in DOMAIN PairObs :
    /\ Cardinality(BuddiesOf(i)) <= PairOpt.maxTotalNumBuddies
    /\ \A b \in Bands(PairOpt) :
         Cardinality(BuddiesInBand(i, b)) <= PairOpt.maxNumBuddiesFromSingleBand
    /\ Cardinality(BuddiesOfStation(i)) <= PairOpt.maxNumBuddiesWithSameStationId

NoneLeftOut ==
  \A i, j \in DOMAIN PairObs :
    i # j /\ WithinRadius(i, j) =>
      j \in BuddiesOf(i) \/ i \in BuddiesOf(j) \/ Full(i, j) \/ Full(j, i)

(* Observations are paired at most once, and only within the radius; none   *)
(* has more buddies than the limits allow; and the collector that is not    *)
(* the legacy one leaves out a pair only if a limit has been reached by      *)
(* true buddies -- wherever the range of longitudes wraps around, and       *)
(* wherever the search in a band has begun.                                *)
PairsFound ==
  pairsPc = "done" =>
    /\ PairedOnce /\ WithinLimits
    /\ ~PairOpt.useLegacyBuddyCollector => NoneLeftOut

=============================================================================
