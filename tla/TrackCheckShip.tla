----------------------------- MODULE TrackCheckShip -----------------------------
(***************************************************************************)
(* TrackCheckShip: removes observations from one track, in order of time,  *)
(* until no segment between two consecutive ones is too fast.              *)
(*                                                                         *)
(* The statistics of an observation describe the segment that ends at it   *)
(* and the pair of segments it lies between.  They are updated in place    *)
(* after each removal, but not all of them for each observation.           *)
(* Positions lie on a line, so that angles are 0 or 180 degrees; speeds    *)
(* are multiples of 1 / Scale.                                             *)
(***************************************************************************)
EXTENDS Integers, Sequences, FiniteSets

CONSTANTS
  Tracks,    \* sequences of observations: time and position
  Options,   \* the filter's options, see ShipAssumption
  Scale

Abs(x)        == IF x < 0 THEN -x ELSE x
Larger(x, y)  == IF x < y THEN y ELSE x
Smaller(x, y) == IF x < y THEN x ELSE y

(* Scale makes every speed an integer.                                     *)
ShipAssumption ==
  /\ \A o \in Options : /\ o.maxSpeed \in Nat \ {0} /\ o.spatialResolution \in Nat
                        /\ o.temporalResolution \in Nat \ {0}
                        /\ o.rejectionThreshold[1] \in Nat
                        /\ o.rejectionThreshold[2] \in Nat \ {0}
                        /\ o.earlyBreakCheck \in BOOLEAN /\ o.isBuoy \in BOOLEAN
                        /\ o.hour \in Nat /\ o.fourDays \in Nat
  /\ Scale \in Nat
  /\ \A k \in Tracks :
       /\ k \in Seq([time : Int, position : Int])
       /\ \A i, j \in DOMAIN k :
            i < j => /\ k[i].time <= k[j].time
                     /\ \A o \in Options :
                          Scale % (2 * Larger(k[j].time - k[i].time, o.temporalResolution)) = 0

VARIABLES
  obs, options,
  pc,          \* "start", "loop" or "done"
  track,       \* the observations that have not been removed
  stats,       \* the statistics of each observation
  meanSpeed,   \* of the ordinary segments, as a fraction
  rejected

vars == <<obs, options, pc, track, stats, meanSpeed, rejected>>

Obs == DOMAIN obs

Distance(i, j) == Abs(obs[i].position - obs[j].position)
Time(i, j)     == Abs(obs[j].time - obs[i].time)

SpeedEstimate(i, j) ==
  IF Distance(i, j) > options.spatialResolution
    THEN (2 * Distance(i, j) - options.spatialResolution)
           * (Scale \div (2 * Larger(Time(i, j), options.temporalResolution)))
    ELSE 0

Angle(i, j, k) ==
  IF (obs[j].position - obs[i].position) * (obs[k].position - obs[j].position) < 0
    THEN 180 ELSE 0

HasAngle(i, j, k) ==
  Smaller(Distance(i, j), Distance(j, k)) > options.spatialResolution

-----------------------------------------------------------------------------
(* calculateTrackSegmentProperties.                                        *)

NoStatistics == [distance |-> 0, speed |-> 0, distanceAveraged |-> 0,
                 speedAveraged |-> 0, angle |-> 0]

(* calculateTwoObservationValues, of the k-th observation of track t.       *)
TwoObservationValues(s, t, k) ==
  [s EXCEPT !.distance = Distance(t[k - 1], t[k]),
            !.speed = SpeedEstimate(t[k - 1], t[k])]

(* calculateThreeObservationValues.                                        *)
ThreeObservationValues(s, t, k) ==
  [s EXCEPT !.distanceAveraged = Distance(t[k - 1], t[k + 1]),
            !.speedAveraged = SpeedEstimate(t[k - 1], t[k + 1]),
            !.angle = IF HasAngle(t[k - 1], t[k], t[k + 1])
                        THEN Angle(t[k - 1], t[k], t[k + 1]) ELSE @]

(* The first observation is reset, the last keeps its values for three.    *)
Calculated(s, t, k) ==
  IF k = 1 THEN NoStatistics
  ELSE IF k < Len(t) THEN ThreeObservationValues(TwoObservationValues(s, t, k), t, k)
  ELSE TwoObservationValues(s, t, k)

TrackSegmentProperties(t) ==
  [i \in Obs |-> IF \E k \in DOMAIN t : t[k] = i
                   THEN Calculated(stats[i], t, CHOOSE k \in DOMAIN t : t[k] = i)
                   ELSE stats[i]]

Init ==
  /\ obs \in Tracks /\ options \in Options
  /\ pc = "start"
  /\ track = [k \in Obs |-> k]
  /\ stats = [i \in Obs |-> NoStatistics]
  /\ meanSpeed = <<0, 1>>
  /\ rejected = {}

-----------------------------------------------------------------------------
(* The counters of the whole track.                                        *)

Short(s) == {k \in 2 .. Len(obs) : Time(k - 1, k) < options.hour}
Fast(s)  == {k \in 2 .. Len(obs) \ Short(s) : s[k].speed >= options.maxSpeed}
Bends(s) == {k \in 2 .. Len(obs) - 1 : s[k].angle >= 90}

SumSpeed(s) ==
  LET sum[k \in 0 .. Len(obs)] ==
        IF k < 2 THEN 0
        ELSE sum[k - 1] + IF k \in Short(s) \cup Fast(s) THEN 0 ELSE s[k].speed
  IN sum[Len(obs)]

MeanSpeed(s) ==
  <<SumSpeed(s), Larger(1, Len(obs) - 1 - Cardinality(Short(s)) - Cardinality(Fast(s)))>>

EarlyBreak(s) ==
  2 * ((IF options.isBuoy THEN 0 ELSE Cardinality(Short(s))) + Cardinality(Fast(s)))
    + Cardinality(Bends(s)) >= Len(obs) - 1

FirstIteration ==
  /\ pc = "start"
  /\ stats' = TrackSegmentProperties(track)
  /\ meanSpeed' = MeanSpeed(stats')
  /\ pc' = IF options.earlyBreakCheck /\ EarlyBreak(stats') THEN "done" ELSE "loop"
  /\ UNCHANGED <<obs, options, track, rejected>>

-----------------------------------------------------------------------------
(* The fastest segment, or the first of them, ends at the k-th observation. *)

At(k) == stats[track[k]]

IsFastest(k) == \A l \in DOMAIN track : /\ At(l).speed <= At(k).speed
                                        /\ l < k => At(l).speed < At(k).speed

Fastest == CHOOSE k \in DOMAIN track : IsFastest(k)

(* Mutant: only the angle behind the fastest segment counts.               *)
SlowEnoughAfter(k) ==
  IF 10 * At(k).speed <= 8 * options.maxSpeed THEN TRUE
  ELSE At(k).speed < options.maxSpeed /\ At(k).angle <= 90

(* A segment above 80 percent of the maximum speed does not end at the      *)
(* first observation, whose speed is 0.                                    *)
SlowEnough(k) ==
  IF 10 * At(k).speed <= 8 * options.maxSpeed THEN TRUE
  ELSE At(k).speed < options.maxSpeed /\ Larger(At(k - 1).angle, At(k).angle) <= 90

(* removeFaultyObservation: who is to blame is the one named by the first   *)
(* of a list of tests that applies, before or after the fastest segment;   *)
(* "none" if it is found in none.                                          *)
FirstOf(tests) ==
  LET applying == {m \in DOMAIN tests : tests[m][1]} IN
  IF applying = {} THEN "none"
  ELSE tests[CHOOSE m \in applying : \A l \in applying : m <= l][2]

TooFast(speed) == speed > options.maxSpeed

AtStart(k) ==
  <<<<~TooFast(At(k).speedAveraged) /\ (TooFast(At(k + 1).speed) \/ At(k + 1).angle > 45), "after">>,
    <<TRUE, "before">>>>

AtEnd(k) ==
  <<<<~TooFast(At(k - 1).speedAveraged) /\ (TooFast(At(k - 1).speed) \/ At(k - 2).angle > 45), "before">>,
    <<TRUE, "after">>>>

(* speed < min(other, meanSpeed) / 2                                       *)
MuchSlower(speed, other) ==
  2 * speed < other /\ 2 * speed * meanSpeed[2] < meanSpeed[1]

DistanceSum(k) == At(k - 1).distance + At(k).distance + At(k + 1).distance
DistancePrevObsOmitted(k) == At(k - 1).distanceAveraged + At(k + 1).distance
DistanceCurrentObsOmitted(k) == At(k - 1).distance + At(k).distanceAveraged

ClearlyShorter(k, d, other) ==
  10 * d < 10 * other - Larger(10 * options.spatialResolution, DistanceSum(k))

TimeSum(k) == Time(track[k - 2], track[k + 1])

ProportionsKnown(k) ==
  /\ TimeSum(k) <= options.fourDays /\ TimeSum(k) > 0
  /\ DistancePrevObsOmitted(k) > 0 /\ DistanceCurrentObsOmitted(k) > 0

(* How far the proportions of distance and of time differ, before and       *)
(* after, both times 10 * TimeSum * the two distances.                     *)
MismatchBefore(k) ==
  10 * DistancePrevObsOmitted(k) *
    Abs(At(k - 1).distance * TimeSum(k)
          - Time(track[k - 2], track[k - 1]) * DistanceCurrentObsOmitted(k))
MismatchAfter(k) ==
  10 * DistanceCurrentObsOmitted(k) *
    Abs(At(k - 1).distanceAveraged * TimeSum(k)
          - Time(track[k - 2], track[k]) * DistancePrevObsOmitted(k))
MismatchUnit(k) ==
  TimeSum(k) * DistancePrevObsOmitted(k) * DistanceCurrentObsOmitted(k)

InMiddle(k) ==
  <<<<TooFast(At(k - 1).speed), "before">>,
    <<TooFast(At(k + 1).speed), "after">>,
    <<TooFast(At(k).speedAveraged), "before">>,
    <<TooFast(At(k - 1).speedAveraged), "after">>,
    <<At(k - 1).angle > 45 + At(k).angle, "before">>,
    <<At(k).angle > 45 + At(k - 1).angle, "after">>,
    <<At(k - 2).angle > 45 /\ At(k - 2).angle > At(k + 1).angle, "before">>,
    <<At(k + 1).angle > 45, "after">>,
    <<MuchSlower(At(k - 1).speed, At(k + 1).speed), "before">>,
    <<MuchSlower(At(k + 1).speed, At(k - 1).speed), "after">>,
    <<ClearlyShorter(k, DistancePrevObsOmitted(k), DistanceCurrentObsOmitted(k)), "before">>,
    <<ClearlyShorter(k, DistanceCurrentObsOmitted(k), DistancePrevObsOmitted(k)), "after">>,
    <<ProportionsKnown(k) /\ MismatchBefore(k) > MismatchUnit(k) + MismatchAfter(k), "before">>,
    <<ProportionsKnown(k) /\ MismatchAfter(k) > MismatchUnit(k) + MismatchBefore(k), "after">>>>

Blamed(k) == FirstOf(IF k = 2 THEN AtStart(k)
                     ELSE IF k = Len(track) THEN AtEnd(k) ELSE InMiddle(k))

(* Both go if neither is to blame, or if the track would still be too fast  *)
(* without the one that is.                                                *)
Faulty(k) ==
  LET one == IF Blamed(k) = "before" THEN {k - 1} ELSE {k} IN
  IF Blamed(k) = "none" \/ \E m \in one : TooFast(At(m).speedAveraged)
    THEN {k - 1, k} ELSE one

Without(t, faulty) ==
  LET kept == DOMAIN t \ faulty
      rank(k) == Cardinality({l \in kept : l <= k})
  IN [m \in 1 .. Cardinality(kept) |-> t[CHOOSE k \in kept : rank(k) = m]]

RemoveFaultyObservation ==
  /\ pc = "loop" /\ Len(track) >= 3 /\ ~SlowEnough(Fastest)
  /\ LET faulty == Faulty(Fastest) IN
       /\ rejected' = rejected \cup {track[k] : k \in faulty}
       /\ track' = Without(track, faulty)
       /\ stats' = TrackSegmentProperties(track')
  /\ UNCHANGED <<obs, options, pc, meanSpeed>>

EndLoop ==
  /\ pc = "loop" /\ (Len(track) < 3 \/ SlowEnough(Fastest))
  /\ rejected' =
       IF Cardinality(rejected) * options.rejectionThreshold[2]
            >= options.rejectionThreshold[1] * Len(obs)
         THEN Obs ELSE rejected
  /\ pc' = "done"
  /\ UNCHANGED <<obs, options, track, stats, meanSpeed>>

Stopped == pc = "done" /\ UNCHANGED vars

Next == FirstIteration \/ RemoveFaultyObservation \/ EndLoop \/ Stopped

Spec == Init /\ [][Next]_vars

-----------------------------------------------------------------------------
(* Properties.                                                             *)

Kept == Obs \ rejected

(* i and j are consecutive in what is kept.                                *)
Consecutive(i, j) ==
  i \in Kept /\ j \in Kept /\ i < j /\ \A k \in Kept : k <= i \/ k >= j

Slowest80(i, j) == 10 * SpeedEstimate(i, j) <= 8 * options.maxSpeed

TurnsBack(i, j, k) == HasAngle(i, j, k) /\ Angle(i, j, k) > 90

(* The comment on applyFilter: of the accepted observations, if there are   *)
(* at least three, no segment reaches the maximum speed, and if the fastest *)
(* exceeds 80 percent of it the track does not turn back on either end of   *)
(* it.  Everything here is computed anew from times and positions.         *)
FastSegmentsRemoved ==
  pc = "done" /\ Cardinality(Kept) >= 3 /\ (rejected # {} \/ ~options.earlyBreakCheck) =>
    \A i, j \in Kept : Consecutive(i, j) =>
      /\ SpeedEstimate(i, j) < options.maxSpeed
      /\ (\A a, b \in Kept : Consecutive(a, b) => SpeedEstimate(a, b) < SpeedEstimate(i, j) \/ <<a, b>> = <<i, j>>)
           => \/ Slowest80(i, j)
              \/ \A k \in Kept : /\ Consecutive(k, i) => ~TurnsBack(k, i, j)
                                 /\ Consecutive(j, k) => ~TurnsBack(i, j, k)

(* The same comment gives two reasons to go on removing: a segment that is  *)
(* too fast, or one above 80 percent where the track turns back.           *)
RemovedForAReason ==
  [][ rejected' # rejected /\ track' # track =>
        \E m \in 2 .. Len(track) :
          /\ ~Slowest80(track[m - 1], track[m])
          /\ \/ SpeedEstimate(track[m - 1], track[m]) >= options.maxSpeed
             \/ m > 2 /\ TurnsBack(track[m - 2], track[m - 1], track[m])
             \/ m < Len(track) /\ TurnsBack(track[m - 1], track[m], track[m + 1]) ]_vars

=============================================================================
