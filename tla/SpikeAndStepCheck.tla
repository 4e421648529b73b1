--------------------------- MODULE SpikeAndStepCheck ---------------------------
(***************************************************************************)
(* SpikeAndStepCheck: thins the observations of one record (a profile)     *)
(* whose value y departs from both neighbours (a spike), or differs from   *)
(* the one before by too much (a step).  Levels are counted from 0 as in   *)
(* the code, and only observations that are valid count as levels.         *)
(***************************************************************************)
EXTENDS Integers, Sequences, FiniteSets

CONSTANTS
  Records,  \* sequences of observations: x, y, valid
  Options   \* the filter's options, see SpikeAssumption

Missing == -1   \* less than all others, as the missing value of a float is

Abs(a) == IF a < 0 THEN -a ELSE a

(* What validateParameters lets pass.  Thresholds are percentages, and the  *)
(* factors of the tolerance are such that its slopes are whole numbers.     *)
SpikeAssumption ==
  /\ \A r \in Records :
       r \in Seq([x : Nat \cup {Missing}, y : Nat \cup {Missing}, valid : BOOLEAN])
  /\ \A o \in Options :
       /\ o.yesSpikes \in BOOLEAN /\ o.yesSteps \in BOOLEAN
       /\ \A n \in {o.nominal, o.threshold, o.smallThreshold, o.gradientTolerance,
                    o.dxResolution} : n \in Nat \ {0}
       /\ o.boundaries \in Seq(Int) /\ o.factors \in Seq(Int)
       /\ Len(o.boundaries) = Len(o.factors)
       /\ \A i \in 2 .. Len(o.boundaries) :
            /\ o.boundaries[i - 1] <= o.boundaries[i]
            /\ \/ o.boundaries[i - 1] = o.boundaries[i]
               \/ (o.factors[i] - o.factors[i - 1]) % (o.boundaries[i] - o.boundaries[i - 1]) = 0
       /\ \A p \in {o.boundaryRange, o.stepTolRange, o.maxDx} : p \in Nat \X Nat

VARIABLES
  record, profileOptions,
  ind,          \* the level the loop is at
  lastChecked,  \* the last level that has been found to be a spike or step, or not to be
  isThinned, spikeFlag, stepFlag

vars == <<record, profileOptions, ind, lastChecked, isThinned, spikeFlag, stepFlag>>

opt == profileOptions

(* The diagnostic flags have just been created.                            *)
Init ==
  /\ record \in Records /\ profileOptions \in Options
  /\ ind = 0 /\ lastChecked = 0
  /\ isThinned = {} /\ spikeFlag = {} /\ stepFlag = {}

-----------------------------------------------------------------------------
(* getValidObsIdsInProfile, set_xyrec and set_tolerances.                  *)

Valid == {k \in DOMAIN record : record[k].valid}

(* obs_indices[i]: as many valid observations are before it.                *)
obsOf(i) == CHOOSE k \in Valid : Cardinality({j \in Valid : j < k}) = i

Levels == 0 .. Cardinality(Valid) - 1
xrec(i) == record[obsOf(i)].x
yrec(i) == record[obsOf(i)].y

low(range)  == IF range[1] <= range[2] THEN range[1] ELSE range[2]
high(range) == IF range[1] <= range[2] THEN range[2] ELSE range[1]

InBoundaryLayer(x) == low(opt.boundaryRange) <= x /\ x < high(opt.boundaryRange)

NumDiffs == Cardinality(Valid) - 1

xdiff(i) == xrec(i + 1) - xrec(i)
ydiff(i) == yrec(i + 1) - yrec(i)

(* Without a difference to the next level: ydiff is missing.                *)
HasDiff(i) ==
  /\ \A k \in {i, i + 1} : xrec(k) # Missing /\ yrec(k) # Missing
  /\ Abs(xdiff(i)) <= opt.maxDx[IF InBoundaryLayer(xrec(i + 1)) THEN 1 ELSE 2]

Steep(i) ==
  LET dx == IF Abs(xdiff(i)) >= opt.dxResolution THEN Abs(xdiff(i)) ELSE opt.dxResolution
  IN Abs(ydiff(i)) > opt.gradientTolerance * dx

Sections == DOMAIN opt.boundaries

slope(s) ==
  IF opt.boundaries[s + 1] = opt.boundaries[s] THEN 0
  ELSE (opt.factors[s + 1] - opt.factors[s]) \div (opt.boundaries[s + 1] - opt.boundaries[s])

tolerance(i) ==
  LET x == xrec(i)
      Above == {s \in Sections : x > opt.boundaries[s]}
      s == Cardinality(Above)
  IN opt.nominal * (IF Above = {} THEN 1
                    ELSE IF Above = Sections THEN opt.factors[s]
                    ELSE opt.factors[s] + slope(s) * (x - opt.boundaries[s]))

-----------------------------------------------------------------------------
(* identifyThinnedObservations: level ind + 1 may be a spike.              *)

Looping == NumDiffs >= 2 /\ ind \in Levels

CanBeSpike ==
  /\ opt.yesSpikes
  /\ ind < NumDiffs - 1 /\ ind > lastChecked
  /\ HasDiff(ind) /\ HasDiff(ind + 1)

Large == \/ Abs(ydiff(ind)) > tolerance(ind + 1)
         \/ Abs(ydiff(ind + 1)) > tolerance(ind + 1)

ComesBack == 100 * Abs(ydiff(ind) + ydiff(ind + 1)) < opt.threshold * tolerance(ind + 1)

(* y is close to what is interpolated between its neighbours.               *)
SteadyGradient ==
  LET dx == xdiff(ind) + xdiff(ind + 1)
  IN /\ dx # 0
     /\ 100 * Abs(xdiff(ind + 1) * ydiff(ind) - xdiff(ind) * ydiff(ind + 1))
          < opt.threshold * tolerance(ind + 1) * Abs(dx)

Small ==
  /\ \/ 2 * Abs(ydiff(ind)) > tolerance(ind + 1)
     \/ 2 * Abs(ydiff(ind + 1)) > tolerance(ind + 1)
  /\ Steep(ind) \/ Steep(ind + 1)
  /\ 100 * Abs(ydiff(ind) + ydiff(ind + 1))
       < opt.smallThreshold * Abs(ydiff(ind) - ydiff(ind + 1))

IsSpike == CanBeSpike /\ (IF Large THEN ComesBack ELSE Small)

IsGradient == CanBeSpike /\ Large /\ ~ComesBack /\ SteadyGradient

IsStep ==
  /\ ~IsSpike /\ ~IsGradient
  /\ opt.yesSteps
  /\ ind < NumDiffs /\ ind > lastChecked
  /\ HasDiff(ind)
  /\ Abs(ydiff(ind)) > tolerance(ind)

(* A thermocline, halocline, or the like.                                  *)
IsExpected ==
  /\ low(opt.boundaryRange) <= xrec(ind) /\ xrec(ind) <= high(opt.boundaryRange)
  /\ ydiff(ind) > tolerance(ind) * low(opt.stepTolRange)
  /\ ydiff(ind) < tolerance(ind) * high(opt.stepTolRange)

(* The end of a step, and its start unless the step is the last.            *)
StepObs == {obsOf(ind + 1)} \cup {obsOf(i) : i \in {ind} \cap 0 .. NumDiffs - 2}

(* Mutant: a spike does not count as checked, and is taken for a step.      *)
SpikeUnchecked ==
  /\ Looping /\ IsSpike
  /\ isThinned' = isThinned \cup {obsOf(ind + 1)}
  /\ spikeFlag' = spikeFlag \cup {obsOf(ind + 1)}
  /\ ind' = ind + 1
  /\ UNCHANGED <<record, profileOptions, lastChecked, stepFlag>>

Spike ==
  /\ Looping /\ IsSpike
  /\ isThinned' = isThinned \cup {obsOf(ind + 1)}
  /\ spikeFlag' = spikeFlag \cup {obsOf(ind + 1)}
  /\ lastChecked' = ind + 1 /\ ind' = ind + 1
  /\ UNCHANGED <<record, profileOptions, stepFlag>>

NotSpikeAfterAll ==
  /\ Looping /\ IsGradient
  /\ isThinned' = isThinned \ {obsOf(ind + 1)}
  /\ spikeFlag' = spikeFlag \ {obsOf(ind + 1)}
  /\ lastChecked' = ind + 1 /\ ind' = ind + 1
  /\ UNCHANGED <<record, profileOptions, stepFlag>>

Step ==
  /\ Looping /\ IsStep /\ ~IsExpected
  /\ isThinned' = isThinned \cup StepObs
  /\ stepFlag' = stepFlag \cup {obsOf(ind + 1)}
  /\ lastChecked' = ind + 1 /\ ind' = ind + 1
  /\ UNCHANGED <<record, profileOptions, spikeFlag>>

NotStepAfterAll ==
  /\ Looping /\ IsStep /\ IsExpected
  /\ isThinned' = isThinned \ StepObs
  /\ stepFlag' = stepFlag \ {obsOf(ind + 1)}
  /\ lastChecked' = ind + 1 /\ ind' = ind + 1
  /\ UNCHANGED <<record, profileOptions, spikeFlag>>

Neither ==
  /\ Looping /\ ~IsSpike /\ ~IsGradient /\ ~IsStep
  /\ ind' = ind + 1
  /\ UNCHANGED <<record, profileOptions, lastChecked, isThinned, spikeFlag, stepFlag>>

Done == ~Looping

Stopped == Done /\ UNCHANGED vars

Next == Spike \/ NotSpikeAfterAll \/ Step \/ NotStepAfterAll \/ Neither \/ Stopped

Spec == Init /\ [][Next]_vars

-----------------------------------------------------------------------------
(* Properties.                                                             *)

(* The level departs from both neighbours, which have the same value, by   *)
(* more than its tolerance and theirs.                                     *)
IsOutlier(i) ==
  /\ i - 1 \in Levels /\ i + 1 \in Levels
  /\ yrec(i - 1) = yrec(i + 1)
  /\ \A k \in {i - 1, i, i + 1} : Abs(ydiff(i)) > tolerance(k)

(* Constant but for isolated outliers.                                      *)
ConstantButFor(outliers) ==
  /\ \A i \in outliers : IsOutlier(i) /\ i + 1 \notin outliers
  /\ \A i, k \in Levels \ outliers : yrec(i) = yrec(k)

EvenlySpaced ==
  /\ \A i \in 0 .. NumDiffs - 1 : HasDiff(i)
  /\ \A i \in 1 .. NumDiffs - 1 : xdiff(i) = xdiff(i - 1)

Regular ==
  /\ opt.yesSpikes /\ opt.threshold <= 50 /\ NumDiffs >= 2 /\ EvenlySpaced
  /\ \A i \in Levels : tolerance(i) > 0

(* "large spike (|dy| > tolerance(x) and opposite sign either side of the   *)
(* obs)": of evenly spaced observations that are constant but for outliers  *)
(* the check thins the outliers and flags them as spikes, and leaves their  *)
(* neighbours alone: they are not the start or end of a step.  This is not  *)
(* true of an outlier at the second level, nor of a threshold above the     *)
(* default of one half: then an outlier that is not far enough outside the  *)
(* tolerance makes the level before it part of a steady gradient, and is    *)
(* itself not looked at any more.                                          *)
OutliersAreSpikes ==
  Done /\ Regular =>
    \A outliers \in SUBSET (Levels \ {1}) :
      ConstantButFor(outliers) =>
        /\ isThinned = {obsOf(i) : i \in outliers}
        /\ spikeFlag = isThinned /\ stepFlag = {}

(* The same of outliers at all levels.                                     *)
OutliersAtSecondLevelToo ==
  Done /\ Regular =>
    \A i \in Levels : ConstantButFor({i}) => isThinned = {obsOf(i)}

=============================================================================
