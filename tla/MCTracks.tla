------------------------------- MODULE MCTracks -------------------------------
(* What compares observations with one another, each on its own small        *)
(* instance: a behaviour runs one of the checks of the observations of one  *)
(* station or profile, while the others have done nothing, or finds the    *)
(* pairs of the buddy check.                                               *)
(*                                                                         *)
(*  - "track": the instance of MCTrackCheck;                                *)
(*  - "stuck": stations of five observations with streaks at the beginning, *)
(*    in the middle and at the end, some of whose values may be missing;    *)
(*  - "ship": tracks of five observations, one unit apart or more, up to    *)
(*    five units away from the first;                                      *)
(*  - "pairs": four observations in three bands, on meridians that include *)
(*    both names of the date line, some of the same station or at the same *)
(*    place;                                                               *)
(*  - "spike": profiles of six levels, or five if one is not valid, evenly  *)
(*    spaced or not, whose values are missing, zero, small or large;        *)
(*  - "history": four reports from before the window and from within it,    *)
(*    some of the same station or identical.                               *)
EXTENDS MCTrackCheck, SequenceChecks, MetOfficeBuddyPairFinder

VARIABLE check   \* which of them runs

stuckVars == <<station, stuckOptions, observationIndex, firstSameValueIndex,
               previousObservationValue, isRejected>>
shipVars  == <<obs, shipOptions, shipPc, shipTrack, stats, meanSpeed, shipRejected>>
spikeVars   == <<record, profileOptions, ind, lastChecked, isThinned, spikeFlag, stepFlag>>
historyVars == <<scenario, stage, wideFlagged, wideFlaggedLocationIds, locationIdToIndex,
                 historyFlagged>>

MCTimes == {<<0, 1, 2, 3, 4>>, <<0, 2, 2, 3, 6>>}

MCStations ==
  {[i \in 1 .. 5 |-> [time |-> t[i], value |-> v[i]]] :
     t \in MCTimes, v \in [1 .. 5 -> 0 .. 2]}

MCStuckOptions ==
  [byPercentage : {FALSE}, percentageStuckTolerance : {0},
   numberStuckTolerance : {1, 2, 3}, timeStuckTolerance : {1, 3}] \cup
  [byPercentage : {TRUE}, percentageStuckTolerance : {20, 30, 50},
   numberStuckTolerance : {1}, timeStuckTolerance : {0}]

MCShips ==
  {[i \in 1 .. 5 |-> [time |-> t[i], position |-> x[i]]] :
     t \in {<<0, 1, 2, 3, 4>>, <<0, 2, 3, 4, 6>>},
     x \in {y \in [1 .. 5 -> 0 .. 5] : y[1] = 0}}

MCShipOptions ==
  {[maxSpeed |-> 360, spatialResolution |-> 1, temporalResolution |-> 1,
    rejectionThreshold |-> <<4, 5>>, earlyBreakCheck |-> o[1], isBuoy |-> o[2],
    hour |-> o[3], fourDays |-> 5] :
     o \in {<<FALSE, FALSE, 1>>, <<TRUE, TRUE, 1>>, <<TRUE, FALSE, 2>>}}

Places == << <<2, -4>>, <<1, -2>>, <<1, 4>>, <<0, -4>>, <<0, -2>>, <<0, 1>>, <<0, 4>>,
             <<-2, -4>>, <<-2, 0>>, <<-2, 3>> >>

MCObs ==
  {[i \in 1 .. 4 |-> [lat |-> Places[f[i]][1], lon |-> Places[f[i]][2],
                      time |-> 5 - i, station |-> i % 2]] :
     f \in {g \in [1 .. 4 -> DOMAIN Places] : \A i \in 1 .. 3 : g[i] <= g[i + 1]}}

ByBand(x, y, z) == [b \in 0 .. 2 |-> <<x, y, z>>[b + 1]]

PairOptions(widths, reaches) ==
  {[numZonalBands |-> 3, bandWidth |-> 2, searchDLat |-> 2,
    halfWidth |-> widths, reach |-> reaches, useLegacyBuddyCollector |-> m[1],
    maxTotalNumBuddies |-> m[2], maxNumBuddiesFromSingleBand |-> m[3],
    maxNumBuddiesWithSameStationId |-> m[4]] :
     m \in {<<FALSE, 9, 9, 9>>, <<FALSE, 2, 1, 9>>, <<FALSE, 9, 2, 1>>, <<TRUE, 9, 2, 1>>}}

(* The bands adjacent to a pole are searched all around.  Elsewhere nothing  *)
(* is as far as the half width from an observation if it is on the date     *)
(* line: with equality its other name would be missed.                     *)
MCPairInputs ==
  [obs : MCObs, options : PairOptions(ByBand(8, 3, 8), ByBand(4, 2, 2))
                            \cup PairOptions(ByBand(2, 2, 2), ByBand(2, 1, 2))]

(* A range of longitudes that is wider than half the circle but not all.    *)
WideInputs == [obs : MCObs, options : PairOptions(ByBand(5, 3, 3), ByBand(4, 2, 2))]

MCLevels ==
  {[i \in 1 .. 6 |-> [x |-> x[i], y |-> y[i], valid |-> i # v]] :
     x \in {<<0, 1, 2, 3, 4, 5>>, <<0, 1, 2, 5, 6, 7>>, <<2, 2, 3, 3, 4, 4>>},
     y \in {f \in [1 .. 6 -> {-1, 0, 2, 6}] : f[1] = 0 /\ f[2] \in {0, 6}},
     v \in {0, 3}}

ProfileOption(boundaries, factors, yesSteps, boundaryRange, stepTolRange, maxDx) ==
  [yesSpikes |-> TRUE, yesSteps |-> yesSteps, nominal |-> 2, threshold |-> 50,
   smallThreshold |-> 25, gradientTolerance |-> 1, dxResolution |-> 1,
   boundaries |-> boundaries, factors |-> factors,
   boundaryRange |-> boundaryRange, stepTolRange |-> stepTolRange, maxDx |-> maxDx]

MCProfileOptions ==
  {ProfileOption(<<>>, <<>>, TRUE, <<0, 0>>, <<0, 0>>, <<99, 99>>),
   ProfileOption(<<1, 3>>, <<1, 3>>, TRUE, <<2, 4>>, <<1, 4>>, <<3, 2>>),
   ProfileOption(<<>>, <<>>, FALSE, <<4, 2>>, <<1, 3>>, <<1, 3>>)}

Report(time, place, station_) == [time |-> time, place |-> place, station |-> station_]

MCReports ==
  {r \in [1 .. 4 -> {Report(0, 1, 1), Report(2, 1, 2), Report(2, 1, 3), Report(2, 2, 2)}] :
     \E i \in 1 .. 4 : r[i].time = 0}

MCScenarios ==
  {[reports |-> r, stationIds |-> o[1], apply |-> o[2], subtype |-> o[3],
    windowStart |-> 1, windowEnd |-> 3, timeBeforeStartOfWindow |-> 2,
    timeAfterEndOfWindow |-> o[4], numberStuckTolerance |-> 2,
    hasTrackOptions |-> TRUE, hasStuckOptions |-> TRUE] :
     r \in MCReports,
     o \in {<<"none", 2 .. 4, "SHIP", 0>>, <<"string", 1 .. 4, "LNDSYN", 0>>,
            <<"integer", 1 .. 3, "TEMP", 0>>, <<"records", 1 .. 4, "LNDSYN", 0>>,
            <<"string", 1 .. 4, "LNDSYB", 2>>}}

MCScale    == 120
MCPole     == 3
MCMeridian == 4

-----------------------------------------------------------------------------
TrackIdle ==
  /\ track = <<>> /\ options = Option(1, -1, <<4, 5>>) /\ pc = "done" /\ obsIdx = 1
  /\ checks = <<>> /\ failures = <<>> /\ numVisited = <<>>
  /\ rejectedInPreviousSweep = {} /\ rejectedBeforePreviousSweep = {}

StuckIdle ==
  /\ station = <<>> /\ stuckOptions \in {o \in MCStuckOptions : o.numberStuckTolerance = 2 /\ o.timeStuckTolerance = 1}
  /\ observationIndex = 1 /\ firstSameValueIndex = 1
  /\ previousObservationValue = 0 /\ isRejected = {}

ShipIdle ==
  /\ obs = <<>> /\ shipOptions \in {o \in MCShipOptions : ~o.earlyBreakCheck}
  /\ shipPc = "done" /\ shipTrack = <<>> /\ stats = <<>>
  /\ meanSpeed = <<0, 1>> /\ shipRejected = {}

PairsIdle ==
  /\ input = 0 /\ pairsPc = "idle" /\ validObsIdsInSortOrder = <<>> /\ bandLbounds = <<>>
  /\ jBandA = 0 /\ obsA = 0 /\ jBandB = 0 /\ firstObsToCheckInBands = <<>>
  /\ buddies = <<>> /\ numBuddiesWithSameStationId = 0 /\ pairs = <<>>

SpikeIdle ==
  /\ record = <<>> /\ profileOptions \in {o \in MCProfileOptions : ~o.yesSteps}
  /\ ind = 0 /\ lastChecked = 0 /\ isThinned = {} /\ spikeFlag = {} /\ stepFlag = {}

HistoryIdle ==
  /\ scenario = <<>> /\ stage = "idle" /\ wideFlagged = {} /\ wideFlaggedLocationIds = {}
  /\ locationIdToIndex = <<>> /\ historyFlagged = {}

ChecksInit ==
  /\ check \in {"track", "stuck", "ship", "pairs", "spike", "history"}
  /\ \/ check = "track" /\ Init
     \/ check # "track" /\ TrackIdle
  /\ \/ check = "stuck" /\ Stuck!Init
     \/ check # "stuck" /\ StuckIdle
  /\ \/ check = "ship" /\ Ship!Init
     \/ check # "ship" /\ ShipIdle
  /\ \/ check = "pairs" /\ PairInit
     \/ check # "pairs" /\ PairsIdle
  /\ \/ check = "spike" /\ Spikes!Init
     \/ check # "spike" /\ SpikeIdle
  /\ \/ check = "history" /\ History!Init
     \/ check # "history" /\ HistoryIdle

ChecksNext ==
  \/ /\ check = "track" /\ Next
     /\ UNCHANGED <<check, stuckVars, shipVars, pairVars, spikeVars, historyVars>>
  \/ /\ check = "stuck" /\ Stuck!Next
     /\ UNCHANGED <<check, vars, shipVars, pairVars, spikeVars, historyVars>>
  \/ /\ check = "ship" /\ Ship!Next
     /\ UNCHANGED <<check, vars, stuckVars, pairVars, spikeVars, historyVars>>
  \/ /\ check = "pairs" /\ PairNext
     /\ UNCHANGED <<check, vars, stuckVars, shipVars, spikeVars, historyVars>>
  \/ /\ check = "spike" /\ Spikes!Next
     /\ UNCHANGED <<check, vars, stuckVars, shipVars, pairVars, historyVars>>
  \/ /\ check = "history" /\ History!Next
     /\ UNCHANGED <<check, vars, stuckVars, shipVars, pairVars, spikeVars>>

ChecksSpec ==
  /\ ChecksInit
  /\ [][ChecksNext]_<<check, vars, stuckVars, shipVars, pairVars, spikeVars, historyVars>>
  /\ Fairness

=============================================================================
