----------------------------- MODULE SequenceChecks -----------------------------
(* The filters that compare the observations of a track, a station or a      *)
(* profile, side by side: the check of tracks of aircraft (module           *)
(* TrackCheck), and instances of the others, with variables of their own.   *)
EXTENDS TrackCheck, Sequences

CONSTANTS
  Stations, StuckOptions,              \* StuckCheck
  ShipTracks, ShipOptions, Scale,      \* TrackCheckShip
  SpikeRecords, SpikeOptions,          \* SpikeAndStepCheck
  Scenarios                            \* HistoryCheck

VARIABLES
  station, stuckOptions, observationIndex, firstSameValueIndex,
  previousObservationValue, isRejected,
  obs, shipOptions, shipPc, shipTrack, stats, meanSpeed, shipRejected,
  record, profileOptions, ind, lastChecked, isThinned, spikeFlag, stepFlag,
  scenario, stage, wideFlagged, wideFlaggedLocationIds, locationIdToIndex, historyFlagged

Stuck == INSTANCE StuckCheck WITH Options <- StuckOptions, options <- stuckOptions

Ship == INSTANCE TrackCheckShip WITH
  Tracks <- ShipTracks, Options <- ShipOptions, options <- shipOptions,
  pc <- shipPc, track <- shipTrack, rejected <- shipRejected

Spikes == INSTANCE SpikeAndStepCheck WITH Records <- SpikeRecords, Options <- SpikeOptions

History == INSTANCE HistoryCheck

ASSUME StationsOK  == Stuck!StuckAssumption
ASSUME ShipsOK     == Ship!ShipAssumption
ASSUME SpikesOK    == Spikes!SpikeAssumption
ASSUME ScenariosOK == History!HistoryAssumption

-----------------------------------------------------------------------------
(* Properties.                                                             *)

(* Streaks of equal values that are too long are rejected, and no others.   *)
StreaksRejected == Stuck!StreaksRejected

(* The same where a missing value ends the streak.                         *)
StreaksRejectedBeforeMissing == Stuck!StreaksRejectedBeforeMissing

(* No fast segment remains between the observations of a ship.              *)
FastSegmentsRemoved == Ship!FastSegmentsRemoved

(* No observation is removed but for a fast segment or a sharp turn.        *)
RemovedForAReason == Ship!RemovedForAReason

(* Isolated outliers of a profile are thinned as spikes, their neighbours not. *)
OutliersAreSpikes == Spikes!OutliersAreSpikes

(* The same of an outlier at the second level.                              *)
OutliersAtSecondLevelToo == Spikes!OutliersAtSecondLevelToo

(* As many of the identical observations are flagged in the window as in    *)
(* the wider obs space.                                                    *)
FlagsCarriedOver == History!FlagsCarriedOver

(* The same if stations are told apart by their records.                   *)
FlagsCarriedOverByRecord == History!FlagsCarriedOverByRecord

(* The wider obs space contains the window.                                *)
WiderObsSpaceIsWider == History!WiderObsSpaceIsWider

=============================================================================
