----------------------------- MODULE MedianThinning -----------------------------
(***************************************************************************)
(* Gaussian_Thinning with the option select_median: in every bin the       *)
(* observation closest to the median is retained, provided there are       *)
(* enough of them.  Observations carry even integers, so that the mean of  *)
(* two is an integer; Unit of them is what the code would take for 1.0.     *)
(***************************************************************************)
EXTENDS Integers, FiniteSets

CONSTANTS BinnedObs,  \* ids of the observations, in the order of the file
          Bins,       \* the bins they may fall into
          Values,     \* what they may have measured
          Unit,       \* the value that stands for 1.0
          Selections, \* sets of observations a where clause may select
          MinNums     \* values of the option min_num_obs_per_bin

NotMeasured == -1

(* With a minimum of zero a bin without measurements would be enough, and   *)
(* the median of an empty vector be read.                                  *)
ASSUME MedianAssumption ==
  /\ BinnedObs \subseteq Nat \ {0} /\ IsFiniteSet(BinnedObs)
  /\ MinNums \subseteq Nat \ {0}
  /\ Selections \subseteq SUBSET BinnedObs
  /\ \A v \in Values : v \in Nat /\ v % 2 = 0
  /\ Unit \in Nat \ {0}

VARIABLES
  value,         \* ObsValue of the filter variable
  selected,      \* the observations the where clause selects
  valid,         \* those of them whose QC flag is pass
  bin,           \* the bin of each observation
  minNumObsPerBin,
  truncates,     \* which abs the unqualified name is in this build: that of int, or of float
  phase,         \* "init" or "bins"
  groupsLeft,    \* multi-element groups that have not been looked at
  thinnedInBins  \* isThinned

medianVars == <<value, selected, valid, bin, minNumObsPerBin, truncates, phase, groupsLeft,
                thinnedInBins>>

InBin(b) == {i \in valid : bin[i] = b}

(* groupBy leaves out bins of a single observation.                        *)
multiElementGroups == {b \in Bins : Cardinality(InBin(b)) > 1}

MedianInit ==
  /\ value \in [BinnedObs -> Values \cup {NotMeasured}]
  /\ selected \in Selections
  /\ valid \in SUBSET selected
  /\ bin \in [BinnedObs -> Bins]
  /\ minNumObsPerBin \in MinNums
  /\ truncates \in BOOLEAN
  /\ phase = "init" /\ groupsLeft = {} /\ thinnedInBins = {}

(* The bins of one observation are no groups, so the default decides there. *)
Initialise ==
  /\ phase = "init" /\ phase' = "bins"
  /\ thinnedInBins' = IF minNumObsPerBin < 2 THEN {} ELSE BinnedObs
  /\ groupsLeft' = multiElementGroups
  /\ UNCHANGED <<value, selected, valid, bin, minNumObsPerBin, truncates>>

(* The elements of S in the order of a relation that is total on S.        *)
Ordered(S, before(_, _)) ==
  [k \in 1 .. Cardinality(S) |-> CHOOSE i \in S : Cardinality({j \in S : before(j, i)}) = k - 1]

groupIn(b) == Ordered(InBin(b), <)

(* obsgroup: the observations that are not missing, in the order of the     *)
(* group.                                                                  *)
Present(b) == {i \in InBin(b) : value[i] # NotMeasured}
obsgroup(b) == Ordered(Present(b), <)

Abs(x) == IF x < 0 THEN -x ELSE x

SortsBefore(i, j) == value[i] < value[j] \/ (value[i] = value[j] /\ i < j)

(* The mean of the elements (n - 1) / 2, rounded down and up, from zero, of  *)
(* the sorted values.                                                      *)
Median(b) ==
  LET sorted == Ordered(Present(b), SortsBefore)
      n == Cardinality(Present(b))
  IN (value[sorted[(n - 1) \div 2 + 1]] + value[sorted[n \div 2 + 1]]) \div 2

(* The abs of int takes a difference without its fraction.                  *)
FromMedian(b, k) ==
  LET exact == Abs(value[obsgroup(b)[k]] - Median(b))
  IN IF truncates THEN exact \div Unit ELSE exact

(* bestValidObsIndex: the first of the closest to the median.              *)
BestIndex(b) ==
  CHOOSE k \in 1 .. Cardinality(Present(b)) : \A l \in 1 .. Cardinality(Present(b)) :
    FromMedian(b, k) < FromMedian(b, l) \/ (FromMedian(b, k) = FromMedian(b, l) /\ k <= l)

(* Mutant: a bin with just enough observations has not enough.             *)
EnoughMoreThan(b) == Cardinality(Present(b)) > minNumObsPerBin

Enough(b) == Cardinality(Present(b)) >= minNumObsPerBin

(* One group: the index found among the observations that are not missing   *)
(* is looked up among all of them.                                         *)
ThinBin ==
  /\ phase = "bins" /\ groupsLeft # {}
  /\ \E b \in groupsLeft :
       /\ groupsLeft' = groupsLeft \ {b}
       /\ thinnedInBins' = IF Enough(b)
            THEN (thinnedInBins \cup InBin(b)) \ {groupIn(b)[BestIndex(b)]}
            ELSE thinnedInBins
  /\ UNCHANGED <<value, selected, valid, bin, minNumObsPerBin, truncates, phase>>

BinsDone == phase = "bins" /\ groupsLeft = {}

MedianStopped == BinsDone /\ UNCHANGED medianVars

MedianNext == Initialise \/ ThinBin \/ MedianStopped

MedianSpec == MedianInit /\ [][MedianNext]_medianVars

-----------------------------------------------------------------------------
(* Properties.                                                             *)

RetainedIn(b) == InBin(b) \ thinnedInBins

(* As many observations of the bin are below the retained one as above it,  *)
(* or as near to that as their number and repeated values allow.           *)
IsMedian(i, b) ==
  /\ 2 * Cardinality({j \in Present(b) : value[j] < value[i]}) <= Cardinality(Present(b))
  /\ 2 * Cardinality({j \in Present(b) : value[j] > value[i]}) <= Cardinality(Present(b))

(* GaussianThinningParameters.h: one observation, the closest to the        *)
(* median, is accepted in every bin with enough of them, and none in the    *)
(* others.  Here, of bins whose observations are all present; that it is    *)
(* the closest one only if abs is not that of int.                         *)
MedianRetained ==
  BinsDone => \A b \in Bins :
    Present(b) = InBin(b) /\ InBin(b) # {} =>
      IF Cardinality(InBin(b)) >= minNumObsPerBin
        THEN \E i \in InBin(b) : RetainedIn(b) = {i} /\ (truncates \/ IsMedian(i, b))
        ELSE RetainedIn(b) = {}

(* The same of the closest observation, whatever abs is.                    *)
MedianRetainedByAnyAbs ==
  BinsDone => \A b \in Bins :
    Present(b) = InBin(b) /\ Cardinality(InBin(b)) >= minNumObsPerBin =>
      \E i \in InBin(b) : RetainedIn(b) = {i} /\ IsMedian(i, b)

(* The same of bins some of whose observations are missing.                *)
MedianRetainedDespiteMissing ==
  BinsDone => \A b \in Bins :
    ~truncates /\ Cardinality(Present(b)) >= minNumObsPerBin /\ Cardinality(Present(b)) > 1 =>
      \E i \in Present(b) : RetainedIn(b) = {i} /\ IsMedian(i, b)

(* FilterParametersBase.h says of the where option that the QC flags of     *)
(* observations to which a filter is not applied won't be modified.        *)
OnlySelectedThinned == BinsDone => thinnedInBins \subseteq selected

=============================================================================
