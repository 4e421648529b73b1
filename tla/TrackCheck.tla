------------------------------- MODULE TrackCheck -------------------------------
(***************************************************************************)
(* TrackCheck: sweeps over the observations of one station, in order of    *)
(* time, that reject those with too many implausible speeds.               *)
(*                                                                         *)
(* Every observation is checked against its neighbours on either side      *)
(* until enough of them are distinct buddies.  Checks are not repeated in  *)
(* the next sweep: those against observations that have been rejected      *)
(* since are taken back, and as many new distinct buddies are visited.     *)
(* Positions are coordinates on a line and pressures small integers.       *)
(***************************************************************************)
EXTENDS Integers, FiniteSets, Sequences

CONSTANTS
  Tracks,    \* sequences of observations: time, position, pressure
  Options    \* the filter's options, see TrackAssumption

(* threshold is the fraction threshold[1] / threshold[2]; maxSpeed[p] is    *)
(* the maximum speed at pressure p; maxClimbRate is -1 if there is none.    *)
ASSUME TrackAssumption ==
  /\ \A k \in Tracks :
       /\ k \in Seq([time : Int, position : Int, pressure : Nat])
       /\ \A i \in DOMAIN k : i > 1 => k[i - 1].time <= k[i].time
  /\ \A o \in Options :
       /\ o.temporalResolution \in Nat \ {0} /\ o.spatialResolution \in Nat
       /\ o.numDistinctBuddies \in Nat /\ o.multiplier \in Nat
       /\ o.maxClimbRate \in Nat \cup {-1}
       /\ o.threshold[1] \in Nat /\ o.threshold[2] \in Nat \ {0}

Directions == {"forward", "backward"}
NoPreviousSweep == -1

VARIABLES
  track, options,
  pc,                          \* "visit", "register" or "done"
  obsIdx,                      \* the observation the sweep looks at next
  checks, failures,            \* checkCounter_ of every observation
  rejectedInPreviousSweep, rejectedBeforePreviousSweep,
  numVisited                   \* numNeighborsVisitedInPreviousSweep

counters == <<checks, failures>>
rejected == <<rejectedInPreviousSweep, rejectedBeforePreviousSweep>>
vars     == <<track, options, pc, obsIdx, counters, rejected, numVisited>>

Obs == DOMAIN track

Rejected(i) == i \in rejectedInPreviousSweep \cup rejectedBeforePreviousSweep

-----------------------------------------------------------------------------
(* checkAgainstBuddy.                                                      *)

Abs(x) == IF x < 0 THEN -x ELSE x
Least(S) == CHOOSE x \in S : \A y \in S : x <= y

TimeBetween(i, j) == Abs(track[i].time - track[j].time)
Distance(i, j)    == Abs(track[i].position - track[j].position)

Between(i, j) == {k \in Obs : (i <= k /\ k <= j) \/ (j <= k /\ k <= i)}

(* The lowest pressure on the way decides on the maximum speed.            *)
TooFast(i, j) ==
  LET p == Least({track[k].pressure : k \in Between(i, j)}) IN
  Distance(i, j) - options.spatialResolution >
    options.maxSpeed[p] * (TimeBetween(i, j) + options.temporalResolution)

ChecksClimb == options.maxClimbRate # -1

TooSteep(i, j) ==
  /\ ChecksClimb
  /\ Abs(track[i].pressure - track[j].pressure) >
       options.maxClimbRate * (TimeBetween(i, j) + options.temporalResolution)

Distinct(i, j) ==
  /\ TimeBetween(i, j) > options.multiplier * options.temporalResolution
  /\ Distance(i, j) > options.multiplier * options.spatialResolution

NumChecks(buddies) == Cardinality(buddies) * (IF ChecksClimb THEN 2 ELSE 1)

NumFailures(i, buddies) ==
  Cardinality({j \in buddies : TooFast(i, j)}) + Cardinality({j \in buddies : TooSteep(i, j)})

NumDistinct(i, buddies) == Cardinality({j \in buddies : Distinct(i, j)})

-----------------------------------------------------------------------------
Init ==
  /\ track \in Tracks /\ options \in Options
  /\ pc = "visit" /\ obsIdx = 1
  /\ checks = [i \in Obs |-> 0] /\ failures = [i \in Obs |-> 0]
  /\ rejectedInPreviousSweep = {} /\ rejectedBeforePreviousSweep = {}
  /\ numVisited = [i \in Obs |-> [dir \in Directions |-> NoPreviousSweep]]

Neighbour(i, dir, k) == IF dir = "forward" THEN i + k ELSE i - k

NumNeighbours(i, dir) == IF dir = "forward" THEN Cardinality(Obs) - i ELSE i - 1

(* The neighbours number k + 1 to m.                                       *)
Neighbours(i, dir, k, m) == {Neighbour(i, dir, x) : x \in k + 1 .. m}

VisitedBefore(i, dir) == IF numVisited[i][dir] = NoPreviousSweep THEN 0 ELSE numVisited[i][dir]

(* Mutant: the checks are taken back again in every later sweep.           *)
GoneEver(i, dir) == {j \in Neighbours(i, dir, 0, VisitedBefore(i, dir)) : Rejected(j)}

(* The buddies the last sweep rejected.                                    *)
Gone(i, dir) ==
  {j \in Neighbours(i, dir, 0, VisitedBefore(i, dir)) : j \in rejectedInPreviousSweep}

(* Mutant: a buddy that has gone is not replaced.                          *)
NumNewWithoutReplacement(i, dir) ==
  IF numVisited[i][dir] = NoPreviousSweep THEN options.numDistinctBuddies ELSE 0

NumNew(i, dir) ==
  IF numVisited[i][dir] = NoPreviousSweep
    THEN options.numDistinctBuddies ELSE NumDistinct(i, Gone(i, dir))

(* The new neighbours that are not rejected, were the m nearest visited.    *)
Fresh(i, dir, m) == {j \in Neighbours(i, dir, VisitedBefore(i, dir), m) : ~Rejected(j)}

NumVisitedNow(i, dir) ==
  Least({m \in VisitedBefore(i, dir) .. NumNeighbours(i, dir) :
           \/ NumDistinct(i, Fresh(i, dir, m)) >= NumNew(i, dir)
           \/ m = NumNeighbours(i, dir)})

(* One iteration of the loop over the observations.                        *)
VisitNeighbours ==
  /\ pc = "visit" /\ obsIdx \in Obs /\ ~Rejected(obsIdx)
  /\ LET fresh == UNION {Fresh(obsIdx, d, NumVisitedNow(obsIdx, d)) : d \in Directions}
         gone  == UNION {Gone(obsIdx, d) : d \in Directions}
     IN /\ checks' = [checks EXCEPT ![obsIdx] = @ - NumChecks(gone) + NumChecks(fresh)]
        /\ failures' = [failures EXCEPT
             ![obsIdx] = @ - NumFailures(obsIdx, gone) + NumFailures(obsIdx, fresh)]
  /\ numVisited' = [numVisited EXCEPT
       ![obsIdx] = [d \in Directions |-> NumVisitedNow(obsIdx, d)]]
  /\ obsIdx' = obsIdx + 1
  /\ UNCHANGED <<track, options, pc, rejected>>

SkipRejected ==
  /\ pc = "visit" /\ obsIdx \in Obs /\ Rejected(obsIdx)
  /\ obsIdx' = obsIdx + 1
  /\ UNCHANGED <<track, options, pc, counters, rejected, numVisited>>

(* failedChecksFraction, as a pair; that of a rejected observation is 0.    *)
Fraction(i) == IF Rejected(i) \/ checks[i] = 0 THEN <<0, 1>> ELSE <<failures[i], checks[i]>>

Exceeds(f, g) == f[1] * g[2] > g[1] * f[2]
Times(f, g)   == <<f[1] * g[1], f[2] * g[2]>>

(* The largest fraction; it may be written as several pairs.               *)
MaxFractions == {f \in {Fraction(i) : i \in Obs} :
                   \A i \in Obs : ~Exceeds(Fraction(i), f)}

(* Mutant: the threshold is the largest fraction.                          *)
FailedChecksThresholdMax(f) == f

FailedChecksThreshold(f) == Times(options.threshold, f)

(* Mutant: the sweeps end when all fractions are below the threshold.       *)
EndSweepAtThreshold ==
  /\ pc = "visit" /\ obsIdx \notin Obs
  /\ \E f \in MaxFractions :
       pc' = IF Exceeds(f, options.threshold) THEN "register" ELSE "done"
  /\ UNCHANGED <<track, options, obsIdx, counters, rejected, numVisited>>

EndSweep ==
  /\ pc = "visit" /\ obsIdx \notin Obs
  /\ \E f \in MaxFractions :
       pc' = IF FailedChecksThreshold(f)[1] <= 0 THEN "done" ELSE "register"
  /\ UNCHANGED <<track, options, obsIdx, counters, rejected, numVisited>>

RegisterSweepOutcome ==
  /\ pc = "register"
  /\ rejectedBeforePreviousSweep' = {i \in Obs : Rejected(i)}
  /\ \E f \in MaxFractions :
       rejectedInPreviousSweep' = {i \in Obs : Exceeds(Fraction(i), FailedChecksThreshold(f))}
  /\ pc' = "visit" /\ obsIdx' = 1
  /\ UNCHANGED <<track, options, counters, numVisited>>

Stopped == pc = "done" /\ UNCHANGED vars

Next == \/ VisitNeighbours \/ SkipRejected \/ EndSweep \/ RegisterSweepOutcome
        \/ Stopped

(* The sweeps are a loop of one thread.                                    *)
Fairness == WF_vars(VisitNeighbours \/ SkipRejected \/ EndSweep \/ RegisterSweepOutcome)

Spec == Init /\ [][Next]_vars /\ Fairness

-----------------------------------------------------------------------------
(* Properties.                                                             *)

Buddies(i, dir, m) == {j \in Neighbours(i, dir, 0, m) : ~Rejected(j)}

VisitedBuddies(i) == UNION {Buddies(i, d, numVisited[i][d]) : d \in Directions}

Looked(i) == pc = "register" \/ pc = "done" \/ i < obsIdx

(* The counters, which are updated from sweep to sweep, are what checking   *)
(* against all the visited buddies that are not rejected would give, for    *)
(* every observation the sweep has dealt with.                             *)
CountersUpToDate ==
  \A i \in Obs : Looked(i) /\ ~Rejected(i) =>
    /\ checks[i] = NumChecks(VisitedBuddies(i))
    /\ failures[i] = NumFailures(i, VisitedBuddies(i))

(* TrackCheckParameters.h: an observation is compared against the smallest  *)
(* sets of neighbours before and after it that contain                     *)
(* num_distinct_buddies_per_direction distinct buddies not yet rejected;   *)
(* all the neighbours there are if they do not.                            *)
SmallestSetVisited ==
  \A i \in Obs, d \in Directions : Looked(i) /\ ~Rejected(i) =>
    numVisited[i][d] =
      Least({m \in 0 .. NumNeighbours(i, d) :
               \/ NumDistinct(i, Buddies(i, d, m)) = options.numDistinctBuddies
               \/ m = NumNeighbours(i, d)})

(* At the end no check between two accepted neighbours fails.              *)
AcceptedAgree ==
  pc = "done" /\ options.threshold[1] > 0 =>
    \A i \in Obs : ~Rejected(i) => NumFailures(i, VisitedBuddies(i)) = 0

(* The sweeps come to an end.                                              *)
SweepsEnd == <>(pc = "done")

(* The documentation of rejection_threshold: it is the maximum fraction of  *)
(* estimates allowed to fall outside the allowed ranges before an           *)
(* observation is rejected.                                                *)
RejectedExceedThreshold ==
  [][ \A i \in rejectedInPreviousSweep' :
        Exceeds(Fraction(i), options.threshold) ]_rejected

=============================================================================
