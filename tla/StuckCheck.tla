------------------------------- MODULE StuckCheck -------------------------------
(***************************************************************************)
(* StuckCheck: rejects the observations of one station, in order of time,  *)
(* whose value has not changed for too long.  The streaks of equal values  *)
(* are found in one pass, and each is judged when it has ended.            *)
(***************************************************************************)
EXTENDS Integers, Sequences

CONSTANTS
  Stations,  \* sequences of observations: time and value
  Options    \* the filter's options, see StuckAssumption

Missing == 0   \* the missing value

(* Either a percentage of the station's observations is tolerated, or a     *)
(* number of them and a duration.                                          *)
StuckAssumption ==
  /\ \A s \in Stations :
       /\ s \in Seq([time : Int, value : Nat]) /\ Len(s) > 1
       /\ \A i \in 2 .. Len(s) : s[i - 1].time <= s[i].time
  /\ \A o \in Options : /\ o.byPercentage \in BOOLEAN
                        /\ o.percentageStuckTolerance \in 0 .. 100
                        /\ o.numberStuckTolerance \in Nat \ {0}
                        /\ o.timeStuckTolerance \in Nat

VARIABLES
  station, options,
  observationIndex,         \* the observation looked at next
  firstSameValueIndex,      \* the first observation in the current streak
  previousObservationValue,
  isRejected

vars == <<station, options, observationIndex, firstSameValueIndex,
          previousObservationValue, isRejected>>

Obs == DOMAIN station
value(i) == station[i].value

(* previousObservationValue is not initialised: if the first observation is *)
(* missing, it is read before it has been assigned.                        *)
Init ==
  /\ station \in Stations /\ options \in Options
  /\ observationIndex = 1 /\ firstSameValueIndex = 1
  /\ previousObservationValue \in IF value(1) = Missing THEN {value(i) : i \in Obs}
                                                        ELSE {Missing}
  /\ isRejected = {}

-----------------------------------------------------------------------------
(* potentiallyRejectStreak.                                                *)

Rounded(percentage) == (percentage * Len(station) + 50) \div 100

NumberStuckTolerance ==
  IF options.byPercentage THEN Rounded(options.percentageStuckTolerance)
  ELSE options.numberStuckTolerance

TooLong(first, last) ==
  /\ options.byPercentage => NumberStuckTolerance >= 2
  /\ last - first + 1 > NumberStuckTolerance
  /\ \/ options.byPercentage
     \/ last - first + 1 >= Len(station)
     \/ station[last].time - station[first].time > options.timeStuckTolerance

RejectStreak(first, last) ==
  isRejected' = isRejected \cup {i \in first .. last : TooLong(first, last)}

Continue == /\ observationIndex' = observationIndex + 1
            /\ UNCHANGED <<station, options>>

SkipMissing ==
  /\ observationIndex \in Obs /\ value(observationIndex) = Missing
  /\ Continue
  /\ UNCHANGED <<firstSameValueIndex, previousObservationValue, isRejected>>

Start ==
  /\ observationIndex = 1 /\ value(1) # Missing
  /\ previousObservationValue' = value(1)
  /\ Continue
  /\ UNCHANGED <<firstSameValueIndex, isRejected>>

(* Mutant: a streak that lasts until the end of the track is not judged.    *)
SameValueAsBeforeOnly ==
  /\ observationIndex \in Obs \ {1}
  /\ value(observationIndex) # Missing
  /\ value(observationIndex) = previousObservationValue
  /\ Continue
  /\ UNCHANGED <<firstSameValueIndex, previousObservationValue, isRejected>>

SameValue ==
  /\ observationIndex \in Obs \ {1}
  /\ value(observationIndex) # Missing
  /\ value(observationIndex) = previousObservationValue
  /\ IF observationIndex = Len(station)
       THEN RejectStreak(firstSameValueIndex, observationIndex)
       ELSE UNCHANGED isRejected
  /\ Continue
  /\ UNCHANGED <<firstSameValueIndex, previousObservationValue>>

NewValue ==
  /\ observationIndex \in Obs \ {1}
  /\ value(observationIndex) # Missing
  /\ value(observationIndex) # previousObservationValue
  /\ RejectStreak(firstSameValueIndex, observationIndex - 1)
  /\ firstSameValueIndex' = observationIndex
  /\ previousObservationValue' = value(observationIndex)
  /\ Continue

Done == observationIndex \notin Obs

Stopped == Done /\ UNCHANGED vars

Next == SkipMissing \/ Start \/ SameValue \/ NewValue \/ Stopped

Spec == Init /\ [][Next]_vars

-----------------------------------------------------------------------------
(* Properties.                                                             *)

(* first .. last is a sequence of equal values that neither of its          *)
(* neighbours continues.                                                   *)
IsStreak(first, last) ==
  /\ first <= last
  /\ \A i \in first .. last : value(i) = value(first)
  /\ first > 1 => value(first - 1) # value(first)
  /\ last < Len(station) => value(last + 1) # value(last)

(* The comment on applyFilter: removed are the observations of the streaks  *)
(* of more observations than are tolerated that last longer than tolerated  *)
(* or make up the whole station, and no others; here, of stations without   *)
(* missing values.                                                         *)
StreaksRejected ==
  Done /\ (\A i \in Obs : value(i) # Missing) =>
    isRejected = UNION {s[1] .. s[2] : s \in
                          {s \in Obs \X Obs : IsStreak(s[1], s[2]) /\ TooLong(s[1], s[2])}}

(* The same of stations with missing values: such a streak is removed.      *)
StreaksRejectedBeforeMissing ==
  Done => \A a, b \in Obs :
    IsStreak(a, b) /\ value(a) # Missing /\ TooLong(a, b) => a .. b \subseteq isRejected

=============================================================================
