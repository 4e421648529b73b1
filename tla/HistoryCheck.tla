----------------------------- MODULE HistoryCheck -----------------------------
(***************************************************************************)
(* HistoryCheck: runs the ship track check and the stuck check on a wider  *)
(* obs space, read from the same reports for a longer time, and flags the  *)
(* observations of the assimilation window that were flagged there.  The   *)
(* two obs spaces number their observations independently, so that an      *)
(* observation is recognised by its label: time, place, station, and a     *)
(* counter that tells identical ones apart.                                *)
(*                                                                         *)
(* An observation is represented by its place in the sequence of reports.  *)
(* What the two filters flag is arbitrary: StuckCheck and TrackCheckShip   *)
(* are modules of their own.                                               *)
(***************************************************************************)
EXTENDS Integers, Sequences, FiniteSets

CONSTANTS
  Scenarios   \* reports, where clause and options, see HistoryAssumption

StationIds == {"none", "records", "integer", "string"}

HistoryAssumption ==
  \A s \in Scenarios :
    /\ s.reports \in Seq([time : Int, place : Nat, station : Nat])
    /\ s.apply \subseteq DOMAIN s.reports
    /\ s.stationIds \in StationIds
    /\ s.windowStart \in Int /\ s.windowEnd \in Int
    /\ s.timeBeforeStartOfWindow \in Nat /\ s.timeAfterEndOfWindow \in Nat
    /\ s.numberStuckTolerance \in Nat

VARIABLES
  scenario,
  stage,                   \* how far applyFilter is
  wideFlagged,             \* observations of the wider obs space with the flag track
  wideFlaggedLocationIds,  \* the labels of these
  locationIdToIndex,       \* label to observation of the window
  historyFlagged

vars == <<scenario, stage, wideFlagged, wideFlaggedLocationIds, locationIdToIndex,
          historyFlagged>>

reports == scenario.reports

(* The observations of an obs space: external, from ioda.                  *)
ObsSpace(start, end) ==
  {i \in DOMAIN reports : start < reports[i].time /\ reports[i].time <= end}

WindowObs == ObsSpace(scenario.windowStart, scenario.windowEnd)

(* timeAfterEndOfWindow is subtracted.                                     *)
WiderObs == ObsSpace(scenario.windowStart - scenario.timeBeforeStartOfWindow,
                     scenario.windowEnd - scenario.timeAfterEndOfWindow)

Init ==
  /\ scenario \in Scenarios
  /\ stage = "track check"
  /\ wideFlagged = {} /\ wideFlaggedLocationIds = {} /\ locationIdToIndex = <<>>
  /\ historyFlagged = {}

-----------------------------------------------------------------------------
(* getStationIds.  Record numbers count the stations of an obs space in the *)
(* order of their appearance; names are indexed among those of both.        *)

Names(obs) == {reports[i].station : i \in obs}

RecordNumber(i, obs) ==
  LET first == CHOOSE k \in obs : /\ reports[k].station = reports[i].station
                                  /\ \A l \in obs : reports[l].station = reports[i].station => k <= l
  IN Cardinality(Names({k \in obs : k < first}))

(* Mutant: each obs space indexes its own names.                            *)
StationIdOfOwnNames(i, obs) ==
  CASE scenario.stationIds = "none"    -> 0
    [] scenario.stationIds = "records" -> RecordNumber(i, obs)
    [] scenario.stationIds = "integer" -> reports[i].station
    [] scenario.stationIds = "string"  ->
         Cardinality({n \in Names(obs) : n < reports[i].station})

stationId(i, obs) ==
  CASE scenario.stationIds = "none"    -> 0
    [] scenario.stationIds = "records" -> RecordNumber(i, obs)
    [] scenario.stationIds = "integer" -> reports[i].station
    [] scenario.stationIds = "string"  ->
         Cardinality({n \in Names(WindowObs \cup WiderObs) : n < reports[i].station})

Identifier(i, obs) == <<reports[i].time, reports[i].place, stationId(i, obs)>>

(* obsLabel: the counter is incremented while the label is taken, by one of *)
(* the observations labelled before.                                       *)
Label(i, labelled, obs) ==
  Append(Identifier(i, obs),
         Cardinality({k \in labelled : k < i /\ Identifier(k, obs) = Identifier(i, obs)}))

Labels(labelled, obs) == {Label(i, labelled, obs) : i \in labelled}

-----------------------------------------------------------------------------
(* applyFilter.                                                            *)

RunsTrackCheck == scenario.subtype \notin {"LNDSYB", "LNDSYN"} /\ scenario.hasTrackOptions

RunsStuckCheck ==
  /\ scenario.hasStuckOptions
  /\ Cardinality(WiderObs) > scenario.numberStuckTolerance
  /\ scenario.subtype \notin {"TEMP", "BATHY", "TESAC", "BUOYPROF"}

(* A filter flags some of the observations no filter has flagged before.    *)
SubFilter(runs, next) ==
  /\ \E new \in SUBSET (WiderObs \ wideFlagged) :
       /\ runs \/ new = {}
       /\ wideFlagged' = wideFlagged \cup new
  /\ stage' = next
  /\ UNCHANGED <<scenario, wideFlaggedLocationIds, locationIdToIndex, historyFlagged>>

TrackCheckShip == stage = "track check" /\ SubFilter(RunsTrackCheck, "stuck check")

StuckCheck == stage = "stuck check" /\ SubFilter(RunsStuckCheck, "label flagged")

LabelFlagged ==
  /\ stage = "label flagged" /\ stage' = "label window"
  /\ wideFlaggedLocationIds' = Labels(wideFlagged, WiderObs)
  /\ UNCHANGED <<scenario, wideFlagged, locationIdToIndex, historyFlagged>>

LabelWindow ==
  LET applied == WindowObs \cap scenario.apply
  IN /\ stage = "label window" /\ stage' = "flag"
     /\ locationIdToIndex' =
          [l \in Labels(applied, WindowObs) |->
             CHOOSE i \in applied : Label(i, applied, WindowObs) = l]
     /\ UNCHANGED <<scenario, wideFlagged, wideFlaggedLocationIds, historyFlagged>>

FlagCommon ==
  /\ stage = "flag" /\ stage' = "done"
  /\ historyFlagged' =
       {locationIdToIndex[l] : l \in wideFlaggedLocationIds \cap DOMAIN locationIdToIndex}
  /\ UNCHANGED <<scenario, wideFlagged, wideFlaggedLocationIds, locationIdToIndex>>

Stopped == stage = "done" /\ UNCHANGED vars

Next == TrackCheckShip \/ StuckCheck \/ LabelFlagged \/ LabelWindow \/ FlagCommon \/ Stopped

Spec == Init /\ [][Next]_vars

-----------------------------------------------------------------------------
(* Properties.                                                             *)

Identical(i, k) ==
  /\ reports[i].time = reports[k].time /\ reports[i].place = reports[k].place
  /\ scenario.stationIds = "none" \/ reports[i].station = reports[k].station

Twins(i, obs) == {k \in obs : Identical(i, k)}

(* "which observations have both been (1) flagged by either of the          *)
(* sub-filters from the superset obs space and (2) are located within       *)
(* obsdb_": of identical observations of the window as many are flagged as  *)
(* were flagged in the wider obs space, or all that are selected; if the    *)
(* two obs spaces agree about stations.                                     *)
FlagsCarriedOverFor(i) ==
  LET applied == Twins(i, WindowObs \cap scenario.apply)
      flaggedThere == Cardinality(Twins(i, wideFlagged))
  IN Cardinality(Twins(i, historyFlagged)) =
       IF flaggedThere <= Cardinality(applied) THEN flaggedThere ELSE Cardinality(applied)

FlagsCarriedOver ==
  stage = "done" /\ scenario.stationIds # "records" =>
    /\ historyFlagged \subseteq WindowObs \cap scenario.apply
    /\ \A i \in WindowObs : FlagsCarriedOverFor(i)

(* The same if stations are told apart by their records.                   *)
FlagsCarriedOverByRecord ==
  stage = "done" => \A i \in WindowObs : FlagsCarriedOverFor(i)

(* The comment on applyFilter: the wider obs space "is assumed to be a      *)
(* superset of obsdb_ with an earlier starting time, and possibly a later   *)
(* ending time".                                                           *)
WiderObsSpaceIsWider == stage = "done" => WindowObs \subseteq WiderObs

=============================================================================
