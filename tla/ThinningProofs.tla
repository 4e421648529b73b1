----------------------------- MODULE ThinningProofs -----------------------------
(***************************************************************************)
(* Proofs about the three thinning filters: PoissonDiskThinning, for any   *)
(* number of ranks, observations and priorities and an int of any width;   *)
(* TemporalThinning, for groups of any size and all options; and           *)
(* MedianThinning, for any observations and bins.                          *)
(*                                                                         *)
(* Poisson.  The key priorities are sorted by is, in spite of the overflow *)
(* on the way to it, -p - 1.  Therefore what a rank has looked at has no    *)
(* lower priority than what is left of the category (OrderInv): from this  *)
(* follow the reasons for thinning, and that earlier exclusion volumes     *)
(* hold no observation retained later.  Ranks with the same seed look at   *)
(* the observations in the same total order, and a decision depends on     *)
(* what was decided about those before (ReasonsInv): so they agree.        *)
(*                                                                         *)
(* Temporal.  SpacingKept is about the end and says nothing of a pass under *)
(* way.  PassInv adds what makes a pass go on well: what it has kept is     *)
(* apart, the replaceable observation comes last, and the next to be       *)
(* retained is due no earlier than min_spacing after it.  SeedInv carries  *)
(* what the pass forwards has left over to the pass backwards.             *)
(* ThinnedForAReason rests on ReasonInv: an observation that replaces      *)
(* another one takes over all that was thinned for it.                     *)
(*                                                                         *)
(* Median.  What is retained in a bin follows from whether its group has   *)
(* been looked at (BinsInv).  The observation closest to the median lies   *)
(* between the two in the middle of the sorted values, and these have as   *)
(* many others below and above them as their ranks say.                    *)
(***************************************************************************)
EXTENDS PoissonDiskThinning, TemporalThinning, MedianThinning, OrderLemmas

-----------------------------------------------------------------------------
(* PoissonDiskThinning: the key priorities are sorted by.                  *)

LEMMA WrapInRange == ASSUME NEW i \in Lowest .. Highest PROVE Wrap(i) = i
  BY PoissonAssumption DEF Wrap, Lowest, Highest

LEMMA WrapAbove ==
  ASSUME NEW i \in Highest + 1 .. Highest + 2 * Half PROVE Wrap(i) = i - 2 * Half
  BY PoissonAssumption DEF Wrap, Lowest, Highest

(* The key of a priority is an int that descends as the priority ascends.  *)
LEMMA ReverseReverses ==
  ASSUME NEW p \in Lowest .. Highest PROVE reverse(p) = -p - 1
<1> USE PoissonAssumption DEF Lowest, Highest
<1>1. CASE p = Lowest
  <2>1. Wrap(-p) = Lowest
    BY <1>1, WrapAbove
  <2>2. Wrap(Lowest - Lowest) = 0
    BY WrapInRange
  <2>3. Wrap(0 + Highest) = Highest
    BY WrapInRange
  <2> QED
    BY <1>1, <2>1, <2>2, <2>3 DEF reverse
<1>2. CASE p # Lowest /\ p < 1
  <2>1. Wrap(-p) = -p
    BY <1>2, WrapInRange
  <2>2. Wrap(-p - Lowest) = -p - Half
    BY <1>2, WrapAbove
  <2>3. Wrap(-p - Half + Highest) = -p - 1
    BY <1>2, WrapInRange
  <2> QED
    BY <2>1, <2>2, <2>3 DEF reverse
<1>3. CASE p >= 1
  <2>1. Wrap(-p) = -p
    BY <1>3, WrapInRange
  <2>2. Wrap(-p - Lowest) = -p + Half
    BY <1>3, WrapInRange
  <2>3. Wrap(-p + Half + Highest) = -p - 1
    BY <1>3, WrapAbove
  <2> QED
    BY <2>1, <2>2, <2>3 DEF reverse
<1> QED
  BY <1>1, <1>2, <1>3

-----------------------------------------------------------------------------
(* The inductive invariant.                                                *)

InputOK ==
  /\ options \in Options /\ spacing \in Spacings
  /\ position \in [Obs -> Positions]
  /\ priority \in [Obs -> Priorities]
  /\ record \in [Obs -> {1, 2}]
  /\ options.shuffle => shuffled \in [Seeds -> [Obs -> Obs]]

DecisionsOK ==
  /\ left \in [Ranks -> SUBSET Obs]
  /\ retained \in [Ranks -> SUBSET Obs]
  /\ thinned \in [Ranks -> SUBSET Obs]

Validated == pc \in {"synchronise", "thin"} => SpacingsValid

(* Nothing is decided before the generators are synchronised.              *)
NotStarted == pc # "thin" =>
  \A r \in Ranks : left[r] = Obs /\ retained[r] = {} /\ thinned[r] = {}

(* A category is looked at by descending priority.                         *)
OrderInv ==
  \A r \in Ranks : \A i \in Obs \ left[r], j \in left[r] :
    Category(i) = Category(j) => priority[i] >= priority[j]

DecisionInv == /\ InputOK /\ DecisionsOK /\ TypeOK
        /\ Validated /\ NotStarted /\ OrderInv /\ ThinnedByBetter

LEMMA PrioritiesAreInts ==
  ASSUME InputOK, NEW i \in Obs
  PROVE  priority[i] \in Int /\ priority[i] \in Lowest .. Highest /\ reverse(priority[i]) = -priority[i] - 1
<1>1. priority[i] \in Lowest .. Highest
  BY PoissonAssumption DEF InputOK
<1> QED
  BY <1>1, ReverseReverses, PoissonAssumption DEF Lowest, Highest

(* What is looked at before another observation has no lower priority.     *)
LEMMA BeforeHasPriority ==
  ASSUME InputOK, NEW i \in Obs, NEW j \in Obs, NEW r \in Ranks, Before(r, i, j)
  PROVE  priority[i] >= priority[j]
  BY PrioritiesAreInts DEF Before

LEMMA InitDecisionInv == Init => DecisionInv
<1> SUFFICES ASSUME Init PROVE DecisionInv
  OBVIOUS
<1>1. InputOK
  BY DEF Init, InputOK, Shuffles
<1>2. DecisionsOK /\ TypeOK /\ Validated /\ NotStarted /\ OrderInv /\ ThinnedByBetter
  BY DEF Init, DecisionsOK, TypeOK, Validated, NotStarted, OrderInv, ThinnedByBetter
<1> QED
  BY <1>1, <1>2 DEF DecisionInv

(* The decision about one observation keeps the invariant.                 *)
LEMMA ThinDecisionInv ==
  ASSUME DecisionInv, NEW q \in Ranks, NEW o \in Obs, Thin(q, o) PROVE DecisionInv'
<1>0. /\ InputOK /\ DecisionsOK /\ TypeOK
      /\ UNCHANGED <<input, seed, pc>> /\ pc = "thin"
      /\ o \in left[q] /\ left' = [left EXCEPT ![q] = @ \ {o}]
  BY DEF DecisionInv, Thin, IsNext
<1>1. InputOK' /\ Validated' /\ NotStarted'
  BY <1>0 DEF DecisionInv, InputOK, Validated, NotStarted, SpacingsValid, input
<1>2. DecisionsOK'
  BY <1>0 DEF Thin, DecisionsOK
<1>3. \A i, j \in Obs : /\ Category(i)' = Category(i) /\ Close(i, j)' = Close(i, j)
                        /\ priority'[i] = priority[i]
  BY <1>0 DEF Category, Close, input
<1>4. TypeOK'
  BY <1>0 DEF Thin, DecisionsOK, TypeOK
<1>5. OrderInv'
  <2> SUFFICES ASSUME NEW r \in Ranks, NEW i \in Obs \ left'[r], NEW j \in left'[r],
                      Category(i) = Category(j)
               PROVE  priority[i] >= priority[j]
    BY <1>2, <1>3 DEF OrderInv, DecisionsOK
  <2>1. j \in left[r] /\ j \in Obs
    BY <1>0 DEF DecisionsOK
  <2>2. CASE i \notin left[r]
    BY <2>1, <2>2 DEF DecisionInv, OrderInv
  <2>3. CASE i \in left[r]
    <3>1. r = q /\ i = o /\ j # o
      BY <1>0, <2>3 DEF DecisionsOK
    <3>2. Before(q, o, j)
      BY <2>1, <3>1 DEF Thin, IsNext
    <3> QED
      BY <1>0, <2>1, <3>1, <3>2, BeforeHasPriority
  <2> QED
    BY <2>2, <2>3
<1>6. ThinnedByBetter'
  <2> SUFFICES ASSUME NEW r \in Ranks, NEW i \in thinned'[r]
               PROVE  \E j \in retained'[r] : /\ Category(j) = Category(i) /\ Close(i, j)
                                              /\ priority[j] >= priority[i]
    BY <1>2, <1>3 DEF ThinnedByBetter, DecisionsOK
  <2>1. retained[r] \subseteq retained'[r]
    BY <1>0 DEF Thin, DecisionsOK
  <2>2. CASE i \in thinned[r]
    BY <2>1, <2>2 DEF DecisionInv, ThinnedByBetter
  <2>3. CASE i \notin thinned[r]
    <3>1. r = q /\ i = o /\ Excluded(q, o)
      BY <1>0, <2>3 DEF Thin, DecisionsOK
    <3>2. PICK j \in retained[q] : Category(j) = Category(o) /\ Close(o, j)
      BY <3>1 DEF Excluded
    <3>3. j \in Obs \ left[q]
      BY <1>0, <3>2 DEF DecisionsOK, TypeOK
    <3>4. priority[j] >= priority[o]
      BY <1>0, <3>2, <3>3 DEF DecisionInv, OrderInv
    <3> QED
      BY <2>1, <3>1, <3>2, <3>4
  <2> QED
    BY <2>2, <2>3
<1> QED
  BY <1>1, <1>2, <1>4, <1>5, <1>6 DEF DecisionInv

LEMMA NextDecisionInv == DecisionInv /\ [Next]_vars => DecisionInv'
<1> SUFFICES ASSUME DecisionInv, [Next]_vars PROVE DecisionInv'
  OBVIOUS
<1> USE DEF DecisionInv, InputOK, DecisionsOK, TypeOK, Validated, NotStarted, OrderInv,
            ThinnedByBetter, SpacingsValid, Category, Close, input
<1>1. CASE ValidateSpacings
  BY <1>1 DEF ValidateSpacings
<1>2. CASE SynchroniseRandomNumberGenerators
  BY <1>2 DEF SynchroniseRandomNumberGenerators
<1>3. ASSUME NEW q \in Ranks, NEW o \in Obs, Thin(q, o) PROVE DecisionInv'
  BY <1>3, ThinDecisionInv
<1>4. CASE UNCHANGED vars
  BY <1>4 DEF vars
<1> QED
  BY <1>1, <1>2, <1>3, <1>4 DEF Next, Stopped

LEMMA DecisionInvariant == Spec => []DecisionInv
  BY InitDecisionInv, NextDecisionInv, PTL DEF Spec

(* Every observation is left, retained or thinned, and only one of these.  *)
THEOREM PoissonTypeCorrect == Spec => []TypeOK
<1>1. DecisionInv => TypeOK
  BY DEF DecisionInv
<1> QED
  BY <1>1, DecisionInvariant, PTL

(* An observation is thinned only for one that is at least as important,   *)
(* whatever the priorities: the key by which they are sorted overflows on  *)
(* the way and is right nevertheless.                                      *)
THEOREM ThinnedOnlyByBetter == Spec => []ThinnedByBetter
<1>1. DecisionInv => ThinnedByBetter
  BY DEF DecisionInv
<1> QED
  BY <1>1, DecisionInvariant, PTL

-----------------------------------------------------------------------------
(* The exclusion volumes.                                                  *)

(* What the validation of the spacings is for.                             *)
SpacingsDecrease == SpacingsValid =>
  \A p, q \in Priorities : p <= q => spacing[q] <= spacing[p]

VolumesInv == DecisionInv /\ SpacingsDecrease /\ ExclusionVolumesRespected

LEMMA NextVolumesInv == VolumesInv /\ [Next]_vars => VolumesInv'
<1> SUFFICES ASSUME VolumesInv, [Next]_vars PROVE VolumesInv'
  OBVIOUS
<1>0. DecisionInv /\ DecisionInv' /\ UNCHANGED input
  BY NextDecisionInv DEF VolumesInv, Next, ValidateSpacings, SynchroniseRandomNumberGenerators,
                  Thin, Stopped, vars
<1>1. SpacingsDecrease'
  BY <1>0 DEF VolumesInv, SpacingsDecrease, SpacingsValid, input
<1>2. CASE UNCHANGED retained
  BY <1>0, <1>1, <1>2 DEF VolumesInv, ExclusionVolumesRespected, Category, Close, input
<1>3. ASSUME NEW q \in Ranks, NEW o \in Obs, Thin(q, o) PROVE ExclusionVolumesRespected'
  <2>0. /\ InputOK /\ DecisionsOK /\ TypeOK /\ o \in left[q]
        /\ \A p1, p2 \in Priorities : p1 <= p2 => spacing[p2] <= spacing[p1]
    BY <1>0, <1>3 DEF DecisionInv, Thin, IsNext, VolumesInv, SpacingsDecrease, Validated
  <2> SUFFICES ASSUME NEW r \in Ranks, NEW i \in retained'[r], NEW j \in retained'[r],
                      i # j, Category(i) = Category(j), Close(i, j)
               PROVE  FALSE
    BY <1>0 DEF ExclusionVolumesRespected, Category, Close, input
  <2>1. i \in Obs /\ j \in Obs
    BY <1>0 DEF DecisionInv, DecisionsOK
  <2>2. CASE i \in retained[r] /\ j \in retained[r]
    BY <2>2 DEF VolumesInv, ExclusionVolumesRespected
  <2>3. CASE ~(i \in retained[r] /\ j \in retained[r])
    <3>1. r = q /\ o \in {i, j} /\ ~Excluded(q, o)
      BY <1>3, <2>0, <2>3 DEF Thin, DecisionsOK
    <3>2. CASE i = o
      <4>1. j \in retained[q]
        BY <1>3, <2>0, <3>1, <3>2 DEF Thin, DecisionsOK
      <4> QED
        BY <3>1, <3>2, <4>1 DEF Excluded
    <3>3. CASE j = o
      <4>1. i \in retained[q]
        BY <1>3, <2>0, <3>1, <3>3 DEF Thin, DecisionsOK
      <4>2. i \in Obs \ left[q]
        BY <2>0, <2>1, <4>1 DEF TypeOK, DecisionsOK
      <4>3. priority[i] >= priority[o]
        BY <1>0, <2>0, <3>3, <4>2 DEF DecisionInv, OrderInv
      <4>4. spacing[priority[i]] <= spacing[priority[o]]
        <5>1. priority[i] \in Priorities /\ priority[o] \in Priorities
          BY <2>0, <2>1 DEF InputOK
        <5>2. priority[i] \in Int /\ priority[o] \in Int
          BY <2>0, <2>1, PrioritiesAreInts
        <5> QED
          BY <2>0, <4>3, <5>1, <5>2
      <4>5. /\ spacing[priority[i]] \in Int /\ spacing[priority[o]] \in Int
            /\ position[i] \in Int /\ position[o] \in Int
        <5>1. spacing \in [Priorities -> Nat] /\ position \in [Obs -> Int]
          BY <2>0, PoissonAssumption DEF InputOK
        <5>2. priority[i] \in Priorities /\ priority[o] \in Priorities
          BY <2>0, <2>1 DEF InputOK
        <5> QED
          BY <2>1, <5>1, <5>2
      <4>6. Close(o, i)
        BY <3>3, <4>4, <4>5 DEF Close
      <4> QED
        BY <3>1, <3>3, <4>1, <4>6 DEF Excluded
    <3> QED
      BY <3>1, <3>2, <3>3
  <2> QED
    BY <2>2, <2>3
<1> QED
  BY <1>0, <1>1, <1>2, <1>3
     DEF VolumesInv, Next, ValidateSpacings, SynchroniseRandomNumberGenerators, Stopped, vars

(* No retained observation lies in the exclusion volume of another one of   *)
(* its category, if the spacings that pass the validation decrease as the  *)
(* priority increases.                                                     *)
THEOREM VolumesRespected == Spec /\ SpacingsDecrease => []ExclusionVolumesRespected
<1>1. Init /\ SpacingsDecrease => VolumesInv
  BY InitDecisionInv DEF VolumesInv, Init, ExclusionVolumesRespected
<1>2. VolumesInv => ExclusionVolumesRespected
  BY DEF VolumesInv
<1> QED
  BY <1>1, <1>2, NextVolumesInv, PTL DEF Spec

-----------------------------------------------------------------------------
(* The agreement of the ranks.                                             *)

(* The generators have the same seed when the ranks begin to thin.         *)
SeedsAgree == pc = "thin" /\ options.shuffle =>
  \A q, r \in Ranks : seed[q] = seed[r]

(* An observation is looked at after all those that come before it.        *)
PrefixInv ==
  \A r \in Ranks : \A i \in Obs \ left[r], j \in left[r] :
    Category(i) = Category(j) => Before(r, i, j)

(* What is thinned is thinned for an observation that came before it, and   *)
(* what is retained had none to be thinned for.                            *)
ReasonsInv ==
  \A r \in Ranks : \A i \in Obs \ left[r] :
    i \in thinned[r] <=>
      \E j \in retained[r] : Category(j) = Category(i) /\ Close(i, j) /\ Before(r, j, i)

(* The decisions two ranks have both taken are the same.                   *)
SameDecisions ==
  \A q, r \in Ranks : \A i \in Obs \ (left[q] \cup left[r]) :
    i \in thinned[q] => i \in thinned[r]

AgreeInv == DecisionInv /\ SeedsAgree /\ PrefixInv /\ ReasonsInv /\ SameDecisions

LEMMA BeforeAsymmetric ==
  ASSUME InputOK, seed \in [Ranks -> Seeds], NEW r \in Ranks,
         NEW i \in Obs, NEW j \in Obs, Before(r, i, j), Before(r, j, i)
  PROVE  FALSE
<1>1. TieBefore(r, i, j) /\ TieBefore(r, j, i)
  BY PrioritiesAreInts DEF Before
<1>2. CASE options.shuffle
  <2>1. shuffled[seed[r]][i] \in Obs /\ shuffled[seed[r]][j] \in Obs
    BY <1>2 DEF InputOK
  <2>2. shuffled[seed[r]][i] \in Int /\ shuffled[seed[r]][j] \in Int
    BY <2>1, PoissonAssumption
  <2> QED
    BY <1>1, <1>2, <2>2 DEF TieBefore
<1>3. CASE ~options.shuffle
  <2>1. /\ i \in Int /\ j \in Int /\ record[i] \in Int /\ record[j] \in Int
        /\ position[i] \in Int /\ position[j] \in Int
    <3>1. Positions \subseteq Int /\ Obs \subseteq Int
      BY PoissonAssumption
    <3>2. position[i] \in Positions /\ position[j] \in Positions
      BY DEF InputOK
    <3>3. record[i] \in Int /\ record[j] \in Int
      BY DEF InputOK
    <3> QED
      BY <3>1, <3>2, <3>3, Zenon
  <2>2. options.sort \in {"none", "ascending", "descending"}
    BY PoissonAssumption DEF InputOK
  <2>3. CASE options.sort = "ascending"
    BY <1>1, <1>3, <2>1, <2>3 DEF TieBefore
  <2>4. CASE options.sort = "descending"
    BY <1>1, <1>3, <2>1, <2>4 DEF TieBefore
  <2>5. CASE options.sort = "none"
    BY <1>1, <1>3, <2>1, <2>5 DEF TieBefore
  <2> QED
    BY <2>2, <2>3, <2>4, <2>5
<1> QED
  BY <1>2, <1>3

LEMMA ThinAgreeInv ==
  ASSUME AgreeInv, NEW k \in Ranks, NEW o \in Obs, Thin(k, o)
  PROVE  PrefixInv' /\ ReasonsInv' /\ SameDecisions'
<1>0. /\ InputOK /\ DecisionsOK /\ TypeOK /\ DecisionInv' /\ SeedsAgree
      /\ UNCHANGED <<input, seed, pc>> /\ pc = "thin"
      /\ o \in left[k] /\ left' = [left EXCEPT ![k] = @ \ {o}]
  BY NextDecisionInv DEF AgreeInv, DecisionInv, Thin, IsNext, Next
<1>1. \A i, j \in Obs : /\ Category(i)' = Category(i) /\ Close(i, j)' = Close(i, j)
                        /\ \A r \in Ranks : Before(r, i, j)' = Before(r, i, j)
  BY <1>0 DEF Category, Close, Before, TieBefore, input
<1>2. DecisionsOK' /\ TypeOK'
  BY <1>0 DEF DecisionInv
<1>3. \A r \in Ranks, i, j \in Obs : ~(Before(r, i, j) /\ Before(r, j, i))
  BY <1>0, BeforeAsymmetric DEF TypeOK
<1>4. \A q, r \in Ranks, i, j \in Obs : Before(q, i, j) => Before(r, i, j)
  BY <1>0 DEF Before, TieBefore, SeedsAgree
<1>5. \A r \in Ranks, i \in Obs :
        i # o => (i \in thinned'[r] <=> i \in thinned[r]) /\ (i \in left'[r] <=> i \in left[r])
  BY <1>0 DEF Thin, DecisionsOK
<1>6. PrefixInv'
  <2> SUFFICES ASSUME NEW r \in Ranks, NEW i \in Obs \ left'[r], NEW j \in left'[r],
                      Category(i) = Category(j)
               PROVE  Before(r, i, j)
    BY <1>1, <1>2 DEF PrefixInv, DecisionsOK
  <2>1. j \in left[r] /\ j \in Obs
    BY <1>0 DEF DecisionsOK
  <2>2. CASE i \notin left[r]
    BY <2>1, <2>2 DEF AgreeInv, PrefixInv
  <2>3. CASE i \in left[r]
    <3>1. r = k /\ i = o /\ j # o
      BY <1>0, <2>3 DEF DecisionsOK
    <3> QED
      BY <2>1, <3>1 DEF Thin, IsNext
  <2> QED
    BY <2>2, <2>3
<1>7. ReasonsInv'
  <2> SUFFICES ASSUME NEW r \in Ranks, NEW i \in Obs \ left'[r]
               PROVE  i \in thinned'[r] <=>
                        \E j \in retained'[r] :
                          Category(j) = Category(i) /\ Close(i, j) /\ Before(r, j, i)
    BY <1>1, <1>2 DEF ReasonsInv, DecisionsOK
  <2>1. CASE r # k
    <3>1. left'[r] = left[r] /\ thinned'[r] = thinned[r] /\ retained'[r] = retained[r]
      BY <1>0, <2>1 DEF Thin, DecisionsOK
    <3> QED
      BY <3>1 DEF AgreeInv, ReasonsInv
  <2>2. CASE r = k /\ i = o
    <3>1. i \in thinned'[k] <=> Excluded(k, o)
      BY <1>0, <2>2 DEF Thin, DecisionsOK, TypeOK
    <3>2. \A j \in retained[k] : Category(j) = Category(o) => Before(k, j, o)
      BY <1>0 DEF AgreeInv, PrefixInv, DecisionsOK, TypeOK
    <3>3. \A j \in Obs : j \in retained'[k] /\ Before(k, j, o) => j \in retained[k]
      BY <1>0, <1>3 DEF Thin, DecisionsOK
    <3>4. retained[k] \subseteq retained'[k] /\ retained'[k] \subseteq Obs
      BY <1>0, <1>2 DEF Thin, DecisionsOK
    <3> QED
      BY <2>2, <3>1, <3>2, <3>3, <3>4 DEF Excluded
  <2>3. CASE r = k /\ i # o
    <3>1. i \in Obs \ left[k] /\ (i \in thinned'[k] <=> i \in thinned[k])
      BY <1>5, <2>3
    <3>2. Category(i) = Category(o) => Before(k, i, o)
      BY <1>0, <3>1 DEF AgreeInv, PrefixInv
    <3>3. ~(Category(i) = Category(o) /\ Before(k, o, i))
      BY <1>3, <3>1, <3>2
    <3>4. retained[k] \subseteq retained'[k] /\ retained'[k] \subseteq retained[k] \cup {o}
      BY <1>0 DEF Thin, DecisionsOK
    <3> QED
      BY <2>3, <3>1, <3>3, <3>4 DEF AgreeInv, ReasonsInv
  <2> QED
    BY <2>1, <2>2, <2>3
<1>8. SameDecisions'
  <2> SUFFICES ASSUME NEW q \in Ranks, NEW r \in Ranks, NEW i \in Obs,
                      i \notin left'[q], i \notin left'[r], i \in thinned'[q]
               PROVE  i \in thinned'[r]
    BY DEF SameDecisions
  <2>1. CASE i # o
    BY <1>5, <2>1 DEF AgreeInv, SameDecisions
  <2>2. CASE i = o
    <3>1. PICK j \in retained'[q] : /\ Category(j) = Category(o) /\ Close(o, j)
                                    /\ Before(q, j, o) /\ j \in Obs
      BY <1>1, <1>2, <1>7, <2>2 DEF ReasonsInv, DecisionsOK
    <3>2. Before(r, j, o) /\ j # o
      BY <1>3, <1>4, <3>1
    <3>3. j \notin left'[r] /\ j \notin left'[q] /\ j \notin thinned'[q]
      BY <1>1, <1>2, <1>3, <1>6, <2>2, <3>1, <3>2 DEF PrefixInv, TypeOK
    <3>4. j \notin thinned'[r]
      BY <1>5, <3>1, <3>2, <3>3 DEF AgreeInv, SameDecisions
    <3>5. j \in retained'[r]
      BY <1>2, <3>1, <3>3, <3>4 DEF TypeOK
    <3> QED
      BY <1>1, <1>7, <2>2, <3>1, <3>2, <3>5 DEF ReasonsInv
  <2> QED
    BY <2>1, <2>2
<1> QED
  BY <1>6, <1>7, <1>8

LEMMA NextAgreeInv == AgreeInv /\ [Next]_vars => AgreeInv'
<1> SUFFICES ASSUME AgreeInv, [Next]_vars PROVE AgreeInv'
  OBVIOUS
<1>0. DecisionInv /\ DecisionInv'
  BY NextDecisionInv DEF AgreeInv
<1>1. SeedsAgree'
  BY <1>0 DEF AgreeInv, SeedsAgree, DecisionInv, TypeOK, Next, ValidateSpacings,
              SynchroniseRandomNumberGenerators, Thin, Stopped, vars, input
<1>2. CASE left' = left /\ pc' # pc
  <2>1. \A r \in Ranks : left'[r] = Obs
    <3>1. pc # "thin"
      BY <1>2 DEF Next, ValidateSpacings, SynchroniseRandomNumberGenerators, Thin, Stopped, vars
    <3> QED
      BY <1>0, <1>2, <3>1 DEF DecisionInv, NotStarted
  <2> QED
    BY <1>0, <1>1, <2>1 DEF AgreeInv, PrefixInv, ReasonsInv, SameDecisions
<1>3. CASE UNCHANGED vars
  BY <1>0, <1>1, <1>3 DEF AgreeInv, PrefixInv, ReasonsInv, SameDecisions, Category, Close,
                          Before, TieBefore, vars, input
<1>4. ASSUME NEW k \in Ranks, NEW o \in Obs, Thin(k, o) PROVE AgreeInv'
  BY <1>0, <1>1, <1>4, ThinAgreeInv DEF AgreeInv
<1> QED
  BY <1>2, <1>3, <1>4 DEF Next, ValidateSpacings, SynchroniseRandomNumberGenerators, Stopped

(* All ranks thin the same observations, in random order too: each looks at *)
(* them in the same total order, and a decision depends only on decisions   *)
(* about observations that come before.                                    *)
THEOREM RanksDecideAlike == Spec => []RanksAgree
<1>1. Init => AgreeInv
  BY InitDecisionInv DEF Init, AgreeInv, SeedsAgree, PrefixInv, ReasonsInv, SameDecisions
<1>2. AgreeInv => RanksAgree
  <2> SUFFICES ASSUME AgreeInv, Done, NEW q \in Ranks, NEW r \in Ranks
               PROVE  thinned[q] = thinned[r]
    BY DEF RanksAgree
  <2>1. thinned[q] \subseteq Obs /\ thinned[r] \subseteq Obs
    BY DEF AgreeInv, DecisionInv, DecisionsOK
  <2>2. \A i \in Obs : i \in thinned[q] <=> i \in thinned[r]
    BY DEF AgreeInv, SameDecisions, Done
  <2> QED
    BY <2>1, <2>2
<1> QED
  BY <1>1, <1>2, NextAgreeInv, PTL DEF Spec

-----------------------------------------------------------------------------
(* TemporalThinning.                                                       *)

Ascending == \A i, j \in Members : i < j => time[i] <= time[j]

InPass == pass \in {"forwards", "backwards"}

(* What the pass under way starts from, has looked at, and has kept.        *)
First  == IF settings.hasSeed THEN seedObs + 1 ELSE 1
Passed == IF pass = "backwards" THEN it + 1 .. seedObs ELSE First .. it - 1
Kept   == Passed \ isThinned

Apart(S) == \A i, j \in S : i < j => time[j] - time[i] >= settings.minSpacing

(* Where the passes are.                                                   *)
RangeInv ==
  /\ pass \in {"start", "forwards"} => isThinned \subseteq First .. it - 1
  /\ pass = "start" => isThinned = {}
  /\ settings.hasSeed /\ pass # "start" => seedObs \in Members
  /\ pass = "forwards"  => it \in First .. size + 1
  /\ pass = "backwards" => it \in 0 .. seedObs /\ settings.hasSeed /\ isThinned \subseteq it + 1 .. size

BestInv ==
  best # None => /\ best \in Kept
                 /\ \A j \in Kept : IF pass = "backwards" THEN best <= j ELSE j <= best

DueInv ==
  \A j \in Kept : IF pass = "backwards" THEN Due <= time[j] - settings.minSpacing
                                      ELSE time[j] + settings.minSpacing <= Due

PassInv == InPass => BestInv /\ DueInv /\ Apart(Kept)

(* Once the pass forwards has begun nothing is retained near the seed       *)
(* behind it.                                                              *)
SeedInv ==
  /\ pass = "forwards" /\ settings.hasSeed => time[seedObs] + settings.minSpacing <= Due
  /\ pass \in {"forwards", "backwards"} /\ settings.hasSeed =>
       LET after == IF pass = "forwards" THEN Kept ELSE (seedObs + 1 .. size) \ isThinned IN
       Apart(after) /\ \A j \in after : time[seedObs] + settings.minSpacing <= time[j]

TemporalInv == TemporalTypeOK /\ Ascending /\ RangeInv /\ PassInv /\ SeedInv /\ SpacingKept

(* Why the observation i may be thinned when j is retained.                *)
Justifies(j, i) ==
  \/ time[i] - time[j] \in 0 .. settings.minSpacing - 1
  \/ /\ time[i] - time[j] \in - settings.tolerance .. settings.tolerance
     /\ Priority(i) <= Priority(j)

(* The observations before s are thinned because of one kept before s.     *)
JustifiedBefore(s) ==
  \A i \in isThinned : i < s => \E j \in Kept : j < s /\ Justifies(j, i)

(* The search for a better observation has begun at s: what it has thinned  *)
(* since is no better than best, and all of it meets the deadline.         *)
Search(s) ==
  /\ s <= best /\ deadline = time[s] + settings.tolerance /\ time[best] <= deadline
  /\ JustifiedBefore(s)
  /\ \A i \in isThinned : s <= i => Priority(i) <= Priority(best) /\ time[i] <= deadline

(* Without a seed: which of the observations kept so far the thinned ones   *)
(* are thinned for.  The one that can still be replaced answers for those   *)
(* thinned since the search began, whichever of them it has replaced.       *)
ReasonInv ==
  pass = "forwards" /\ ~settings.hasSeed =>
    /\ best # None => \E s \in Passed : Search(s)
    /\ best = None => /\ JustifiedBefore(it)
                      /\ \/ deadline = time[1]
                         \/ \E j \in Kept : deadline = time[j] + settings.minSpacing

-----------------------------------------------------------------------------
(* Directions.                                                             *)

LEMMA AdvanceIs ==
  ASSUME NEW t \in Int, NEW d \in Int
  PROVE  Advance(t, d) = IF pass = "backwards" THEN t - d ELSE t + d
BY DEF Advance, Sign

LEMMA PastIs ==
  ASSUME NEW a \in Int, NEW b \in Int
  PROVE  IsPast(a, b) <=> IF pass = "backwards" THEN a < b ELSE a > b
BY DEF IsPast, Sign

LEMMA EmptyRange ==
  ASSUME NEW a \in Int, NEW b \in Int, b < a
  PROVE  a .. b = {}
OBVIOUS

LEMMA CloserThan ==
  ASSUME NEW d \in Int, NEW m \in Int, 0 <= d, d < m
  PROVE  d \in 0 .. m - 1
OBVIOUS

LEMMA SelfInRange ==
  ASSUME NEW s \in Int, NEW n \in Int, s <= n
  PROVE  s + 1 \in s + 1 .. n + 1
OBVIOUS

LEMMA NothingPassed ==
  ASSUME NEW s \in Int, pass' # "backwards", it' = s + 1, First' = s + 1
  PROVE  Passed' = {}
<1>1. Passed' = s + 1 .. (s + 1) - 1
  BY DEF Passed
<1>2. s + 1 \in Int /\ (s + 1) - 1 \in Int /\ (s + 1) - 1 < s + 1
  OBVIOUS
<1>3. s + 1 .. (s + 1) - 1 = {}
  BY <1>2, EmptyRange
<1> QED
  BY <1>1, <1>3

LEMMA Typed ==
  ASSUME TemporalTypeOK
  PROVE  /\ size \in Nat /\ size > 1
         /\ \A i \in Members : time[i] \in Int /\ Priority(i) \in Int
         /\ settings.minSpacing \in Nat /\ settings.tolerance \in Nat
         /\ settings.hasSeed \in BOOLEAN
         /\ Members = 1 .. size
         /\ it \in Int /\ deadline \in Int
<1>1. size \in Nat /\ size > 1
  BY TemporalAssumption DEF TemporalTypeOK
<1>2. ASSUME NEW i \in Members PROVE time[i] \in Int /\ importance[i] \in Int
  BY TemporalAssumption DEF TemporalTypeOK
<1>3. /\ settings.minSpacing \in Nat /\ settings.tolerance \in Nat
      /\ settings.hasSeed \in BOOLEAN /\ settings.hasPriorities \in BOOLEAN
  BY TemporalAssumption DEF TemporalTypeOK
<1>4. it \in Int /\ deadline \in Int
  BY <1>1 DEF TemporalTypeOK
<1>5. \A i \in Members : Priority(i) \in Int
  BY <1>2, <1>3 DEF Priority
<1> QED
  BY <1>1, <1>2, <1>3, <1>4, <1>5 DEF Members

LEMMA DueIs ==
  ASSUME TemporalTypeOK
  PROVE  /\ Due \in Int
         /\ best = None => Due = deadline
         /\ best # None => Due = IF pass = "backwards" THEN time[best] - settings.minSpacing
                                                     ELSE time[best] + settings.minSpacing
<1> USE Typed
<1>0. best \in {None} \cup Members
  BY DEF TemporalTypeOK
<1>1. best # None => best \in Members /\ time[best] \in Int /\ settings.minSpacing \in Int
  BY <1>0
<1>2. best # None => NextDeadline = IF pass = "backwards" THEN time[best] - settings.minSpacing
                                                          ELSE time[best] + settings.minSpacing
  BY <1>1, AdvanceIs DEF NextDeadline
<1> QED
  BY <1>1, <1>2 DEF Due

LEMMA InitTemporalInv == TemporalInit => TemporalInv
<1> SUFFICES ASSUME TemporalInit PROVE TemporalInv
  OBVIOUS
<1>1. TemporalTypeOK
  <2>1. size \in Nat /\ size > 1 /\ 1 \in Members
    BY TemporalAssumption DEF TemporalInit, Members
  <2> QED
    BY <2>1, TemporalAssumption DEF TemporalInit, TemporalTypeOK, Members, None
<1> QED
  BY <1>1 DEF TemporalInit, TemporalInv, Ascending, RangeInv, PassInv, InPass, SeedInv, SpacingKept

-----------------------------------------------------------------------------
(* Steps.                                                                  *)

LEMMA SeedIsMember == \A s : IsSeed(s) => s \in Members
BY DEF IsSeed

LEMMA TypeStep == TemporalInv /\ [TemporalNext]_temporalVars => TemporalTypeOK'
<1> SUFFICES ASSUME TemporalInv, [TemporalNext]_temporalVars PROVE TemporalTypeOK'
  OBVIOUS
<1>0. /\ TemporalTypeOK /\ RangeInv /\ size \in Nat /\ size > 1
      /\ \A i \in Members : time[i] \in Int
  BY Typed DEF TemporalInv
<1> USE Typed DEF TemporalInv, group
<1>1. CASE ThinForwards
  <2>1. 1 \in Members /\ 1 \in 0 .. size + 1
    BY <1>0 DEF Members
  <2>2. time[1] \in Int
    BY <1>0, <2>1
  <2> QED
    BY <1>0, <1>1, <2>1, <2>2 DEF ThinForwards, Begin, TemporalTypeOK, Members, None
<1>2. CASE ThinFromSeed
  <2>1. PICK s \in Members : seedObs' = s /\ Begin("forwards", s + 1, time[s] + settings.minSpacing)
    BY <1>2 DEF ThinFromSeed
  <2>2. s + 1 \in 0 .. size + 1 /\ time[s] + settings.minSpacing \in Int
    BY <2>1
  <2> QED
    BY <1>2, <2>1, <2>2 DEF ThinFromSeed, Begin, TemporalTypeOK, Members, None
<1>3. CASE Replace \/ Drop \/ Skip \/ Retain
  <2>1. it' \in 0 .. size + 1 /\ it \in Members
    <3>1. it \in Members /\ it' = it + Sign
      BY <1>3 DEF Replace, Drop, Skip, Retain, InRange, Step
    <3> QED
      BY <3>1 DEF Sign
  <2>2. Advance(time[it], settings.tolerance) \in Int
    <3>1. time[it] \in Int /\ settings.tolerance \in Int
      BY <2>1
    <3> QED
      BY <3>1 DEF Advance, Sign
  <2>3. deadline' \in Int
    BY <1>3, <2>2, DueIs DEF Replace, Drop, Skip, Retain
  <2>4. best' \in {None} \cup Members /\ isThinned' \subseteq Members
    BY <1>3, <2>1 DEF Replace, Drop, Skip, Retain, Replaceable, TemporalTypeOK
  <2> QED
    BY <1>3, <2>1, <2>3, <2>4 DEF Replace, Drop, Skip, Retain, Step, TemporalTypeOK, Members
<1>4. CASE ThinBackwards
  <2>1. seedObs \in Members /\ time[seedObs] \in Int
    BY <1>0, <1>4 DEF ThinBackwards, RangeInv
  <2>2. seedObs \in 0 .. size + 1
    BY <1>0, <2>1 DEF Members
  <2> QED
    BY <1>0, <1>4, <2>1, <2>2 DEF ThinBackwards, Begin, TemporalTypeOK, Members, None
<1>5. CASE Return \/ TemporalStopped \/ UNCHANGED temporalVars
  BY <1>5 DEF Return, TemporalStopped, temporalVars, TemporalTypeOK, Members
<1> QED
  BY <1>1, <1>2, <1>3, <1>4, <1>5 DEF TemporalNext

(* A step of a pass looks at one observation, next to those before.        *)
Look == Replace \/ Drop \/ Skip \/ Retain

LEMMA LookAt ==
  ASSUME TemporalInv, TemporalTypeOK', Look
  PROVE  /\ it \in Members /\ it \notin Passed /\ it \notin isThinned
         /\ pass \in {"forwards", "backwards"}
         /\ UNCHANGED <<size, time, importance, settings, pass, seedObs>>
         /\ Members' = Members /\ First' = First
         /\ Passed \subseteq Members /\ Passed' = Passed \cup {it}
         /\ \A j \in Passed : IF pass = "backwards" THEN it < j /\ time[it] <= time[j]
                                                   ELSE j < it /\ time[j] <= time[it]
         /\ pass = "backwards" => it <= seedObs
         /\ BestInv /\ DueInv /\ Apart(Kept)
<1> USE Typed DEF TemporalInv
<1>1. /\ it \in Members /\ pass \in {"forwards", "backwards"} /\ it' = it + Sign
      /\ UNCHANGED <<size, time, importance, settings, pass, seedObs>>
  BY DEF Look, Replace, Drop, Skip, Retain, InRange, Step, group
<1>2. Members' = Members /\ First' = First
  BY <1>1 DEF Members, First
<1>3. First \in Int /\ First >= 1 /\ seedObs \in Int
  BY <1>1 DEF First, RangeInv, TemporalTypeOK, None, Members
<1>4. CASE pass = "forwards"
  <2>1. it \in First .. size + 1 /\ Passed = First .. it - 1 /\ it' = it + 1 /\ isThinned \subseteq Passed
    BY <1>4, <1>1 DEF RangeInv, Passed, Sign
  <2>2. Passed' = Passed \cup {it}
    BY <1>1, <1>2, <1>3, <1>4, <2>1 DEF Passed
  <2>3. Passed \subseteq Members /\ it \notin Passed /\ \A j \in Passed : j < it
    BY <1>3, <2>1
  <2>4. \A j \in Passed : time[j] <= time[it]
    BY <1>1, <2>3 DEF Ascending
  <2> QED
    BY <1>1, <1>2, <1>4, <2>1, <2>2, <2>3, <2>4 DEF PassInv, InPass
<1>5. CASE pass = "backwards"
  <2>1. /\ it \in 0 .. seedObs /\ Passed = it + 1 .. seedObs /\ it' = it - 1 /\ seedObs \in Members
        /\ isThinned \subseteq it + 1 .. size
    BY <1>5, <1>1 DEF RangeInv, Passed, Sign
  <2>2. Passed' = Passed \cup {it}
    BY <1>1, <1>2, <1>3, <1>5, <2>1 DEF Passed
  <2>3. Passed \subseteq Members /\ it \notin Passed /\ \A j \in Passed : it < j
    BY <1>1, <1>3, <2>1
  <2>4. \A j \in Passed : time[it] <= time[j]
    BY <1>1, <2>3 DEF Ascending
  <2> QED
    BY <1>1, <1>2, <1>5, <2>1, <2>2, <2>3, <2>4 DEF PassInv, InPass
<1> QED
  BY <1>1, <1>4, <1>5

(* What the steps do to the observations kept so far.                      *)
LEMMA KeptAfter ==
  ASSUME TemporalInv, TemporalTypeOK', Look
  PROVE  /\ Replace => best \in Kept /\ Kept' = (Kept \ {best}) \cup {it}
         /\ Retain  => Kept' = Kept \cup {it}
         /\ Drop \/ Skip => Kept' = Kept
         /\ Drop \/ Skip => Due' = Due /\ (best' = None \/ best' = best)
         /\ Replace \/ Retain => best' = it /\
              Due' = IF pass = "backwards" THEN time[it] - settings.minSpacing
                                         ELSE time[it] + settings.minSpacing
         /\ isThinned' \subseteq isThinned \cup Passed \cup {it}
<1> USE LookAt, Typed DEF TemporalInv
<1>1. Replace => best \in Kept /\ best \in Passed /\ best \notin isThinned
  BY DEF Replace, Replaceable, BestInv, Kept
<1>2. Replace => Kept' = (Kept \ {best}) \cup {it}
  BY <1>1 DEF Kept, Replace
<1>3. Retain => Kept' = Kept \cup {it}
  BY DEF Kept, Retain
<1>4. Drop \/ Skip => Kept' = Kept
  BY DEF Kept, Drop, Skip
<1>5. Drop => Due' = Due
  BY DEF Drop, Due, NextDeadline, Advance, Sign
<1>6. Skip => Due' = Due
  BY DEF Skip, Due
<1>7. Replace \/ Retain => best' = it /\ best' # None
  BY DEF Replace, Retain, None
<1>8. time[it] \in Int /\ settings.minSpacing \in Int
  OBVIOUS
<1>9. Replace \/ Retain => Due' = IF pass = "backwards" THEN time[it] - settings.minSpacing
                                                     ELSE time[it] + settings.minSpacing
  BY <1>7, <1>8 DEF Due, NextDeadline, Advance, Sign
<1>10. isThinned' \subseteq isThinned \cup Passed \cup {it}
  BY <1>1 DEF Replace, Retain, Drop, Skip, Look
<1>11. Drop \/ Skip => best' = None \/ best' = best
  BY DEF Drop, Skip
<1> QED
  BY <1>1, <1>2, <1>3, <1>4, <1>5, <1>6, <1>7, <1>9, <1>10, <1>11

LEMMA PassStep == TemporalInv /\ TemporalTypeOK' /\ Look => RangeInv' /\ PassInv' /\ SeedInv'
<1> SUFFICES ASSUME TemporalInv, TemporalTypeOK', Look PROVE RangeInv' /\ PassInv' /\ SeedInv'
  OBVIOUS
<1>a. /\ it \in Members /\ it \notin Passed /\ it \notin isThinned
      /\ pass \in {"forwards", "backwards"}
      /\ UNCHANGED <<size, time, importance, settings, pass, seedObs>>
      /\ Members' = Members /\ First' = First
      /\ Passed \subseteq Members /\ Passed' = Passed \cup {it}
      /\ pass = "backwards" => it <= seedObs
      /\ BestInv /\ DueInv /\ Apart(Kept)
  BY LookAt
<1>b. \A j \in Passed : IF pass = "backwards" THEN it < j /\ time[it] <= time[j]
                                            ELSE j < it /\ time[j] <= time[it]
  BY LookAt
<1>c. /\ Replace => best \in Kept /\ Kept' = (Kept \ {best}) \cup {it}
      /\ Retain  => Kept' = Kept \cup {it}
      /\ Drop \/ Skip => Kept' = Kept
      /\ Drop \/ Skip => Due' = Due /\ (best' = None \/ best' = best)
      /\ isThinned' \subseteq isThinned \cup Passed \cup {it}
  BY KeptAfter
<1>d. Replace \/ Retain => best' = it /\
        Due' = IF pass = "backwards" THEN time[it] - settings.minSpacing
                                   ELSE time[it] + settings.minSpacing
  BY KeptAfter
<1>e. /\ size \in Nat /\ Members = 1 .. size
      /\ \A i \in Members : i \in Int /\ time[i] \in Int
      /\ settings.minSpacing \in Nat /\ settings.hasSeed \in BOOLEAN
      /\ Due \in Int /\ it \in Int /\ time[it] \in Int /\ seedObs \in Int
  <2>1. TemporalTypeOK /\ size \in Nat /\ Members = 1 .. size
    BY Typed DEF TemporalInv
  <2>2. seedObs \in Int /\ Due \in Int
    BY <2>1, DueIs DEF TemporalTypeOK, None
  <2> QED
    BY <1>a, <2>1, <2>2, Typed
<1>f. Kept \subseteq Passed /\ Kept \subseteq Members
  BY <1>a DEF Kept
<1>1. ASSUME Replace, NEW j \in Kept \ {best}
      PROVE  IF pass = "backwards" THEN best < j /\ time[best] <= time[j] - settings.minSpacing
                                 ELSE j < best /\ time[j] + settings.minSpacing <= time[best]
  <2>1. best \in Kept /\ best \in Members /\ j \in Members /\ j # best
    BY <1>1, <1>c, <1>f
  <2>0. best # None
    BY <1>e, <2>1 DEF None
  <2>2. IF pass = "backwards" THEN best < j ELSE j < best
    BY <1>1, <2>0, <2>1, <1>a, <1>e DEF BestInv
  <2>3. /\ best < j => time[j] - time[best] >= settings.minSpacing
        /\ j < best => time[best] - time[j] >= settings.minSpacing
    BY <1>1, <2>1, <1>a DEF Apart
  <2> QED
    BY <2>1, <2>2, <2>3, <1>e
<1>2. Replace => IF pass = "backwards" THEN time[it] <= time[best] ELSE time[best] <= time[it]
  BY <1>b, <1>c, <1>f
<1>3. ASSUME Retain, NEW j \in Kept
      PROVE  IF pass = "backwards" THEN time[it] <= time[j] - settings.minSpacing
                                 ELSE time[j] + settings.minSpacing <= time[it]
  <2>1. ~IsPast(Due, time[it])
    BY <1>3 DEF Retain
  <2>2. IF pass = "backwards" THEN Due >= time[it] ELSE Due <= time[it]
    BY <1>e, <2>1, PastIs
  <2>3. IF pass = "backwards" THEN Due <= time[j] - settings.minSpacing
                            ELSE time[j] + settings.minSpacing <= Due
    BY <1>a DEF DueInv
  <2>4. j \in Members /\ time[j] \in Int
    BY <1>e, <1>f
  <2> QED
    BY <1>e, <2>2, <2>3, <2>4
(* What is kept now and is not the observation looked at is apart from it.  *)
<1>4. ASSUME Replace \/ Retain, NEW j \in Kept' \ {it}
      PROVE  /\ j \in Kept /\ j \in Members
             /\ IF pass = "backwards" THEN it < j /\ time[it] <= time[j] - settings.minSpacing
                                   ELSE j < it /\ time[j] + settings.minSpacing <= time[it]
  <2>1. j \in Kept /\ j \in Members /\ time[j] \in Int
    BY <1>4, <1>c, <1>e, <1>f
  <2>2. IF pass = "backwards" THEN it < j ELSE j < it
    BY <2>1, <1>b, <1>f
  <2>3. CASE Replace
    <3>1. j \in Kept \ {best} /\ best \in Members /\ time[best] \in Int
      BY <1>4, <2>3, <1>a, <1>c, <1>e, <1>f
    <3>2. IF pass = "backwards" THEN time[best] <= time[j] - settings.minSpacing
                                ELSE time[j] + settings.minSpacing <= time[best]
      BY <2>3, <3>1, <1>1
    <3>3. IF pass = "backwards" THEN time[it] <= time[best] ELSE time[best] <= time[it]
      BY <2>3, <1>2
    <3>4. IF pass = "backwards" THEN time[it] <= time[j] - settings.minSpacing
                                ELSE time[j] + settings.minSpacing <= time[it]
      BY <2>1, <3>1, <3>2, <3>3, <1>e
    <3> QED
      BY <2>1, <2>2, <3>4
  <2>4. CASE Retain
    BY <2>1, <2>2, <2>4, <1>3
  <2> QED
    BY <1>4, <2>3, <2>4
<1>5. Apart(Kept)'
  <2>1. CASE Replace \/ Retain
    <3>1. SUFFICES ASSUME NEW i \in Kept', NEW j \in Kept', i < j
                   PROVE  time[j] - time[i] >= settings.minSpacing
      BY <1>a DEF Apart
    <3>2. CASE i = it
      BY <2>1, <3>1, <3>2, <1>4, <1>a, <1>e
    <3>3. CASE j = it
      BY <2>1, <3>1, <3>3, <1>4, <1>a, <1>e
    <3>4. CASE i # it /\ j # it
      BY <2>1, <3>1, <3>4, <1>4, <1>a DEF Apart
    <3> QED
      BY <3>2, <3>3, <3>4
  <2>2. CASE Drop \/ Skip
    BY <2>2, <1>a, <1>c DEF Apart
  <2> QED
    BY <2>1, <2>2 DEF Look
<1>6. DueInv'
  <2>1. CASE Replace \/ Retain
    <3>1. \A j \in Kept' : IF pass = "backwards" THEN time[it] <= time[j] ELSE time[j] <= time[it]
      BY <2>1, <1>4, <1>a, <1>e
    <3>2. \A j \in Kept' : time[j] \in Int
      BY <2>1, <1>4, <1>a, <1>e
    <3>3. \A j \in Kept' : IF pass = "backwards" THEN Due' <= time[j] - settings.minSpacing
                                               ELSE time[j] + settings.minSpacing <= Due'
      BY <2>1, <3>1, <3>2, <1>d, <1>e
    <3> QED
      BY <3>3, <1>a DEF DueInv
  <2>2. CASE Drop \/ Skip
    BY <2>2, <1>a, <1>c DEF DueInv
  <2> QED
    BY <2>1, <2>2 DEF Look
<1>7. BestInv'
  <2>1. CASE Replace \/ Retain
    <3>1. it \in Kept'
      BY <2>1, <1>c
    <3>2. \A j \in Kept' : IF pass = "backwards" THEN it <= j ELSE j <= it
      BY <2>1, <1>4, <1>a, <1>e
    <3> QED
      BY <2>1, <3>1, <3>2, <1>a, <1>d DEF BestInv
  <2>2. CASE Drop \/ Skip
    BY <2>2, <1>a, <1>c DEF BestInv
  <2> QED
    BY <2>1, <2>2 DEF Look
<1>8. RangeInv'
  <2>1. it' = IF pass = "backwards" THEN it - 1 ELSE it + 1
    BY <1>a, <1>e DEF Look, Replace, Drop, Skip, Retain, Step, Sign
  <2>2. CASE pass = "forwards"
    <3>1. /\ it \in First .. size + 1 /\ Passed = First .. it - 1
          /\ isThinned \subseteq Passed /\ First \in Int
      BY <2>2, <1>e DEF TemporalInv, RangeInv, Passed, First
    <3>2. isThinned' \subseteq First .. it' - 1
      BY <2>1, <2>2, <3>1, <1>c, <1>e
    <3>3. it' \in First .. size + 1
      BY <2>1, <2>2, <3>1, <1>a, <1>e
    <3> QED
      BY <2>2, <3>2, <3>3, <1>a DEF TemporalInv, RangeInv
  <2>3. CASE pass = "backwards"
    <3>1. /\ it \in 1 .. seedObs /\ isThinned \subseteq it + 1 .. size /\ seedObs \in Members
          /\ Passed = it + 1 .. seedObs /\ settings.hasSeed
      BY <2>3, <1>a, <1>e DEF TemporalInv, RangeInv, Passed
    <3>2. it' = it - 1 /\ it' \in 0 .. seedObs
      BY <2>1, <2>3, <3>1, <1>e
    <3>3. isThinned' \subseteq it' + 1 .. size
      BY <3>1, <3>2, <1>c, <1>e
    <3> QED
      BY <2>3, <3>1, <3>2, <3>3, <1>a DEF TemporalInv, RangeInv
  <2> QED
    BY <2>2, <2>3, <1>a
<1>9. SeedInv'
  <2>1. CASE pass = "forwards" /\ settings.hasSeed
    <3>1. /\ seedObs \in Members /\ time[seedObs] \in Int /\ time[seedObs] + settings.minSpacing <= Due
          /\ \A j \in Kept : time[seedObs] + settings.minSpacing <= time[j]
      BY <2>1, <1>e DEF TemporalInv, SeedInv, RangeInv
    <3>2. Replace \/ Retain => time[seedObs] + settings.minSpacing <= time[it]
      <4>1. CASE Replace
        <5>1. best \in Kept /\ time[best] \in Int
          BY <4>1, <1>c, <1>e, <1>f
        <5> QED
          BY <4>1, <5>1, <2>1, <3>1, <1>2, <1>e
      <4>2. CASE Retain
        <5>1. ~IsPast(Due, time[it])
          BY <4>2 DEF Retain
        <5>2. Due <= time[it]
          BY <1>e, <2>1, <5>1, PastIs
        <5> QED
          BY <1>e, <3>1, <5>2
      <4> QED
        BY <4>1, <4>2
    <3>3. \A j \in Kept' : time[seedObs] + settings.minSpacing <= time[j]
      BY <3>1, <3>2, <1>c DEF Look
    <3>4. time[seedObs] + settings.minSpacing <= Due'
      BY <2>1, <3>1, <3>2, <1>c, <1>d, <1>e DEF Look
    <3> QED
      BY <2>1, <3>3, <3>4, <1>5, <1>a DEF SeedInv
  <2>2. CASE pass = "backwards" /\ settings.hasSeed
    <3> DEFINE After == (seedObs + 1 .. size) \ isThinned
    <3>1. After' = After
      <4>1. it <= seedObs /\ Passed = it + 1 .. seedObs
        BY <2>2, <1>a DEF Passed
      <4>2. (seedObs + 1 .. size) \cap (isThinned' \ isThinned) = {}
        BY <4>1, <1>c, <1>e
      <4>3. isThinned \subseteq isThinned'
        BY DEF Look, Replace, Drop, Skip, Retain
      <4> QED
        BY <4>2, <4>3, <1>a
    <3>2. Apart(After) /\ \A j \in After : time[seedObs] + settings.minSpacing <= time[j]
      BY <2>2 DEF TemporalInv, SeedInv
    <3>3. Apart(After)' /\ \A j \in After' : time[seedObs] + settings.minSpacing <= time[j]
      BY <3>1, <3>2, <1>a DEF Apart
    <3> QED
      BY <2>2, <3>3, <1>a DEF SeedInv
  <2> QED
    BY <2>1, <2>2, <1>a DEF SeedInv
<1> QED
  BY <1>5, <1>6, <1>7, <1>8, <1>9 DEF PassInv

LEMMA NextTemporalInv == TemporalInv /\ [TemporalNext]_temporalVars => TemporalInv'
<1> SUFFICES ASSUME TemporalInv, [TemporalNext]_temporalVars PROVE TemporalInv'
  OBVIOUS
<1>1. TemporalTypeOK' /\ TemporalTypeOK
  BY TypeStep DEF TemporalInv
<1>t. /\ size \in Nat /\ size > 1 /\ Members = 1 .. size
      /\ \A i \in Members : i \in Int /\ time[i] \in Int
      /\ settings.minSpacing \in Nat /\ settings.hasSeed \in BOOLEAN
  BY <1>1, Typed
<1>2. Ascending'
  <2>1. UNCHANGED <<size, time>>
    BY DEF TemporalNext, ThinForwards, ThinFromSeed, Replace, Drop, Skip, Retain, Step,
           ThinBackwards, Return, TemporalStopped, temporalVars, group
  <2> QED
    BY <2>1 DEF TemporalInv, Ascending, Members
<1>3. RangeInv' /\ PassInv' /\ SeedInv' /\ SpacingKept'
  <2>1. CASE ThinForwards
    <3>1. /\ pass = "start" /\ pass' = "forwards" /\ ~settings.hasSeed /\ it' = 1 /\ best' = None
          /\ UNCHANGED <<size, time, importance, settings, isThinned, seedObs>> /\ isThinned = {}
      BY <2>1 DEF ThinForwards, Begin, group, TemporalInv, RangeInv
    <3>2. First' = 1 /\ Passed' = {} /\ Kept' = {}
      BY <3>1 DEF First, Passed, Kept
    <3> QED
      BY <3>1, <3>2, <1>t DEF RangeInv, PassInv, BestInv, DueInv, Apart, SeedInv, SpacingKept
  <2>2. CASE ThinFromSeed
    <3>1. /\ pass = "start" /\ pass' = "forwards" /\ settings.hasSeed /\ best' = None
          /\ seedObs' \in Members /\ it' = seedObs' + 1 /\ deadline' = time[seedObs'] + settings.minSpacing
          /\ UNCHANGED <<size, time, importance, settings, isThinned>> /\ isThinned = {}
      BY <2>2 DEF ThinFromSeed, Begin, group, TemporalInv, RangeInv
    <3>0. seedObs' \in Int /\ seedObs' >= 1 /\ seedObs' <= size
      BY <3>1, <1>t
    <3>2. First' = it' /\ Passed' = {} /\ Kept' = {} /\ Due' = deadline'
      <4>1. First' = seedObs' + 1
        BY <3>1 DEF First
      <4>2. Passed' = {}
        <5>1. pass' # "backwards" /\ it' = seedObs' + 1
          BY <3>1
        <5> QED
          BY <3>0, <4>1, <5>1, NothingPassed
      <4>3. Due' = deadline'
        BY <3>1 DEF Due
      <4> QED
        BY <3>1, <4>1, <4>2, <4>3 DEF Kept
    <3>3. RangeInv' /\ PassInv'
      <4>1. Members' = Members /\ size' = size
        BY <3>1 DEF Members
      <4>3. it' \in it' .. size + 1
        <5>1. it' = seedObs' + 1 /\ size \in Int
          BY <3>1, <1>t
        <5>2. seedObs' + 1 \in seedObs' + 1 .. size + 1
          BY <3>0, <5>1, SelfInRange
        <5> QED
          BY <5>1, <5>2
      <4>2. RangeInv'
        BY <3>1, <3>2, <4>1, <4>3 DEF RangeInv
      <4>4. PassInv'
        BY <3>1, <3>2 DEF PassInv, BestInv, DueInv, Apart
      <4> QED
        BY <4>2, <4>4
    <3>4. SeedInv' /\ SpacingKept'
      BY <3>1, <3>2, <1>t DEF SeedInv, Apart, SpacingKept
    <3> QED
      BY <3>3, <3>4
  <2>3. CASE Replace \/ Drop \/ Skip \/ Retain
    <3>1. RangeInv' /\ PassInv' /\ SeedInv'
      BY <1>1, <2>3, PassStep DEF Look
    <3>2. pass' # "done"
      BY <2>3 DEF Replace, Drop, Skip, Retain, Step
    <3> QED
      BY <3>1, <3>2 DEF SpacingKept
  <2>4. CASE ThinBackwards
    <3>1. /\ pass = "forwards" /\ pass' = "backwards" /\ settings.hasSeed /\ best' = None
          /\ seedObs \in Members /\ it' = seedObs /\ it = size + 1
          /\ UNCHANGED <<size, time, importance, settings, isThinned, seedObs>>
          /\ isThinned \subseteq seedObs + 1 .. size
      <4>1. it \in First .. size + 1 /\ it \notin Members /\ seedObs \in Members /\ First = seedObs + 1
        BY <2>4 DEF ThinBackwards, InRange, TemporalInv, RangeInv, First
      <4>2. it = size + 1
        BY <4>1, <1>t
      <4> QED
        BY <2>4, <4>1, <4>2, <1>t DEF ThinBackwards, Begin, group, TemporalInv, RangeInv, First
    <3>2. Passed' = {} /\ Kept' = {} /\ Kept = (seedObs + 1 .. size) \ isThinned
      BY <3>1, <1>t DEF First, Passed, Kept
    <3>3. RangeInv' /\ PassInv' /\ SpacingKept'
      <4>1. Members' = Members /\ size' = size /\ it' \in 0 .. seedObs'
        BY <3>1, <1>t DEF Members
      <4>2. RangeInv'
        BY <3>1, <4>1 DEF RangeInv
      <4>3. PassInv' /\ SpacingKept'
        BY <3>1, <3>2 DEF PassInv, BestInv, DueInv, Apart, SpacingKept
      <4> QED
        BY <4>2, <4>3
    <3>4. SeedInv'
      BY <3>1, <3>2 DEF TemporalInv, SeedInv, Apart
    <3> QED
      BY <3>3, <3>4
  <2>5. CASE Return
    <3>1. /\ pass' = "done" /\ it \notin Members
          /\ UNCHANGED <<size, time, importance, settings, it, best, deadline, isThinned, seedObs>>
      BY <2>5 DEF Return, InRange, group
    <3>2. RangeInv' /\ PassInv' /\ SeedInv'
      BY <2>5, <3>1 DEF Return, TemporalInv, RangeInv, PassInv, InPass, SeedInv, Members
    <3>3. Apart(Retained)
      <4>1. CASE pass = "forwards" /\ ~settings.hasSeed
        <5>1. it = size + 1 /\ Kept = Retained
          BY <4>1, <3>1, <1>t DEF TemporalInv, RangeInv, First, Passed, Kept, Retained
        <5> QED
          BY <4>1, <5>1 DEF TemporalInv, PassInv, InPass
      <4>2. CASE pass = "backwards"
        <5>1. it = 0 /\ seedObs \in Members /\ settings.hasSeed
          BY <4>2, <3>1, <1>t DEF TemporalInv, RangeInv
        <5> DEFINE After == (seedObs + 1 .. size) \ isThinned
        <5>2. /\ Kept = (1 .. seedObs) \ isThinned /\ Retained = Kept \cup After
              /\ \A i \in Kept : i <= seedObs /\ time[i] <= time[seedObs]
          <6>1. Passed = 1 .. seedObs
            BY <4>2, <5>1 DEF Passed
          <6>2. \A i \in 1 .. seedObs : i \in Members /\ i <= seedObs /\ time[i] <= time[seedObs]
            BY <5>1, <1>t DEF TemporalInv, Ascending
          <6> QED
            BY <6>1, <6>2, <5>1, <1>t DEF Kept, Retained
        <5>3. Apart(Kept) /\ Apart(After)
              /\ \A j \in After : time[seedObs] + settings.minSpacing <= time[j]
          BY <4>2, <5>1 DEF TemporalInv, PassInv, InPass, SeedInv
        <5>4. ASSUME NEW i \in Kept, NEW j \in After
              PROVE  i < j /\ time[j] - time[i] >= settings.minSpacing
          <6>1. i \in Members /\ j \in Members /\ i <= seedObs /\ seedObs + 1 <= j
            BY <5>1, <5>2, <1>t
          <6>2. time[i] <= time[seedObs] /\ time[seedObs] + settings.minSpacing <= time[j]
            BY <5>2, <5>3
          <6> QED
            BY <5>1, <6>1, <6>2, <1>t
        <5>5. SUFFICES ASSUME NEW i \in Retained, NEW j \in Retained, i < j
                       PROVE  time[j] - time[i] >= settings.minSpacing
          BY DEF Apart
        <5>6. i \in Int /\ j \in Int
          BY <1>t DEF Retained
        <5>7. ~(i \in After /\ j \in Kept)
          BY <5>4, <5>5, <5>6
        <5> QED
          BY <5>2, <5>3, <5>4, <5>5, <5>7 DEF Apart
      <4> QED
        BY <2>5, <4>1, <4>2 DEF Return
    <3>4. SpacingKept'
      BY <3>1, <3>3 DEF Apart, SpacingKept, Retained, Members
    <3> QED
      BY <3>2, <3>4
  <2>6. CASE TemporalStopped \/ UNCHANGED temporalVars
    <3>1. UNCHANGED <<size, time, importance, settings, pass, it, best, deadline, isThinned, seedObs>>
      BY <2>6 DEF TemporalStopped, temporalVars, group
    <3>2. UNCHANGED <<First, Passed, Kept, Due, Members, Retained, InPass>>
      BY <3>1 DEF First, Passed, Kept, Due, NextDeadline, Advance, Sign, Members, Retained, InPass
    <3> QED
      BY <3>1, <3>2 DEF TemporalInv, RangeInv, PassInv, BestInv, DueInv, Apart, SeedInv, SpacingKept
  <2> QED
    BY <2>1, <2>2, <2>3, <2>4, <2>5, <2>6 DEF TemporalNext
<1> QED
  BY <1>1, <1>2, <1>3 DEF TemporalInv

-----------------------------------------------------------------------------
LEMMA TemporalInvariant == TemporalSpec => []TemporalInv
  BY InitTemporalInv, NextTemporalInv, PTL DEF TemporalSpec

(* The observations looked at, retained and thinned are observations of     *)
(* the group, whatever the times, priorities and options.                  *)
THEOREM TemporalTypeCorrect == TemporalSpec => []TemporalTypeOK
<1>1. TemporalInv => TemporalTypeOK
  BY DEF TemporalInv
<1> QED
  BY <1>1, TemporalInvariant, PTL

(* TemporalThinning keeps min_spacing between the observations it retains,  *)
(* on either side of the seed and across it, although each may have taken   *)
(* the place of another one.                                               *)
THEOREM SpacingIsKept == TemporalSpec => []SpacingKept
<1>1. TemporalInv => SpacingKept
  BY DEF TemporalInv
<1> QED
  BY <1>1, TemporalInvariant, PTL

-----------------------------------------------------------------------------
(* Reasons.                                                                *)

LEMMA NoSeedLook ==
  ASSUME TemporalInv, TemporalInv', Look, pass = "forwards", ~settings.hasSeed
  PROVE  /\ Passed = 1 .. it - 1 /\ Passed' = 1 .. it /\ isThinned \subseteq Passed
         /\ it' = it + 1 /\ Kept \subseteq Passed
         /\ IsPast(time[it], deadline) <=> time[it] > deadline
         /\ IsPast(Due, time[it]) <=> Due > time[it]
         /\ deadline \in Int /\ Due \in Int
         /\ \A i \in Members : Priority(i)' = Priority(i)
         /\ \A i, j \in Members : Justifies(j, i)' <=> Justifies(j, i)
<1>1. TemporalTypeOK' /\ TemporalTypeOK
  BY DEF TemporalInv
<1>2. /\ it \in Members /\ UNCHANGED <<size, time, importance, settings, pass, seedObs>>
      /\ size \in Nat /\ Members = 1 .. size /\ time[it] \in Int
  BY <1>1, LookAt, Typed
<1>3. /\ Passed = 1 .. it - 1 /\ it' = it + 1 /\ Passed' = 1 .. it /\ isThinned \subseteq Passed
  <2>1. it' = it + 1
    BY DEF Look, Replace, Drop, Skip, Retain, Step, Sign
  <2>2. Passed' = 1 .. (it + 1) - 1
    BY <1>2, <2>1 DEF Passed, First
  <2> QED
    BY <1>2, <2>1, <2>2 DEF TemporalInv, RangeInv, Passed, First
<1>4. deadline \in Int /\ Due \in Int
  BY <1>1, Typed, DueIs
<1>5. /\ IsPast(time[it], deadline) <=> time[it] > deadline
      /\ IsPast(Due, time[it]) <=> Due > time[it]
  BY <1>2, <1>4, PastIs
<1>6. \A i \in Members : Priority(i)' = Priority(i)
  BY <1>2 DEF Priority
<1>7. \A i, j \in Members : Justifies(j, i)' <=> Justifies(j, i)
  BY <1>2, <1>6 DEF Justifies
<1> QED
  BY <1>3, <1>4, <1>5, <1>6, <1>7 DEF Kept

(* The observations that the search has thinned are thinned because of best. *)
LEMMA BestJustifies ==
  ASSUME TemporalInv, pass = "forwards", ~settings.hasSeed, best # None,
         NEW s \in Passed, Search(s), NEW i \in isThinned, s <= i
  PROVE  Justifies(best, i)
<1>1. /\ \A k \in Members : time[k] \in Int /\ k \in Int
      /\ settings.tolerance \in Nat /\ deadline \in Int
      /\ best \in Members /\ i \in Members /\ s \in Members
  <2>1. TemporalTypeOK /\ best \in {None} \cup Members /\ isThinned \subseteq Members
    BY DEF TemporalInv, TemporalTypeOK
  <2>2. Passed = 1 .. it - 1 /\ it \in 1 .. size + 1
    BY DEF TemporalInv, RangeInv, Passed, First
  <2>3. Members = 1 .. size /\ size \in Nat
    BY <2>1, Typed
  <2> QED
    BY <2>1, <2>2, <2>3, Typed
<1>2. time[s] <= time[i] /\ time[s] <= time[best]
  BY <1>1 DEF Search, TemporalInv, Ascending
<1>3. Priority(i) <= Priority(best) /\ time[i] <= deadline /\ time[best] <= deadline
      /\ deadline = time[s] + settings.tolerance
  BY DEF Search
<1>4. time[i] - time[best] \in - settings.tolerance .. settings.tolerance
  BY <1>1, <1>2, <1>3
<1> QED
  BY <1>3, <1>4 DEF Justifies

(* When a search has ended all that has been thinned is justified.         *)
LEMMA AllJustified ==
  ASSUME TemporalInv, pass = "forwards", ~settings.hasSeed, ReasonInv
  PROVE  \A i \in isThinned : \E j \in Kept : Justifies(j, i)
<1>1. SUFFICES ASSUME NEW i \in isThinned PROVE \E j \in Kept : Justifies(j, i)
  OBVIOUS
<1>2. i \in Int /\ i < it /\ it \in Int
  <2>1. it \in 1 .. size + 1 /\ isThinned \subseteq 1 .. it - 1
    BY DEF TemporalInv, RangeInv, First
  <2>2. TemporalTypeOK
    BY DEF TemporalInv
  <2> QED
    BY <2>1, <2>2, Typed
<1>3. CASE best = None
  BY <1>1, <1>2, <1>3 DEF ReasonInv, JustifiedBefore
<1>4. CASE best # None
  <2>1. PICK s \in Passed : Search(s)
    BY <1>4 DEF ReasonInv
  <2>2. CASE i < s
    BY <1>1, <2>1, <2>2 DEF Search, JustifiedBefore
  <2>3. CASE s <= i
    <3>1. best \in Kept
      BY <1>4 DEF TemporalInv, PassInv, InPass, BestInv
    <3> QED
      BY <1>1, <1>4, <2>1, <2>3, <3>1, BestJustifies
  <2>4. s \in Int
    BY DEF Passed
  <2> QED
    BY <1>2, <2>2, <2>3, <2>4
<1> QED
  BY <1>3, <1>4

LEMMA LookReasonInv ==
  ASSUME TemporalInv, TemporalInv', Look, ReasonInv
  PROVE  ReasonInv'
<1>0. TemporalTypeOK /\ TemporalTypeOK'
  BY DEF TemporalInv
<1>1. SUFFICES ASSUME pass = "forwards", ~settings.hasSeed
               PROVE  /\ best' # None => \E s \in Passed' : Search(s)'
                      /\ best' = None =>
                           /\ JustifiedBefore(it)'
                           /\ \/ deadline' = time[1]
                              \/ \E j \in Kept' : deadline' = time[j] + settings.minSpacing
  BY <1>0, LookAt DEF ReasonInv
<1>2. /\ it \in Members /\ it \in Int /\ time[it] \in Int /\ size \in Nat /\ Members = 1 .. size
      /\ UNCHANGED <<size, time, importance, settings, pass, seedObs>>
      /\ \A k \in Members : time[k] \in Int /\ k \in Int /\ Priority(k) \in Int
      /\ settings.tolerance \in Nat /\ settings.minSpacing \in Nat
  BY <1>0, LookAt, Typed
<1>3. /\ Passed = 1 .. it - 1 /\ Passed' = 1 .. it /\ isThinned \subseteq Passed
      /\ it' = it + 1 /\ Kept \subseteq Passed
      /\ IsPast(time[it], deadline) <=> time[it] > deadline
      /\ IsPast(Due, time[it]) <=> Due > time[it]
      /\ deadline \in Int /\ Due \in Int
      /\ \A i \in Members : Priority(i)' = Priority(i)
      /\ \A i, j \in Members : Justifies(j, i)' <=> Justifies(j, i)
  BY <1>1, NoSeedLook
<1>4. /\ Replace => best \in Kept /\ Kept' = (Kept \ {best}) \cup {it}
      /\ Retain  => Kept' = Kept \cup {it}
      /\ Drop \/ Skip => Kept' = Kept
  BY <1>0, KeptAfter
<1>5. \A j \in Passed : j \in Members /\ j \in Int /\ j < it /\ time[j] <= time[it]
  BY <1>0, <1>1, <1>2, <1>3, LookAt
<1>6. CASE Replace \/ Drop
  <2>1. best # None /\ deadline' = deadline /\ time[it] <= deadline
    BY <1>2, <1>3, <1>6 DEF Replace, Drop, Replaceable
  <2>2. PICK s \in Passed : Search(s)
    BY <1>1, <2>1 DEF ReasonInv
  <2>3. best \in Kept /\ best \in Members /\ s <= best /\ s \in Members /\ s < it
    BY <2>1, <2>2, <1>1, <1>3, <1>5 DEF TemporalInv, PassInv, InPass, BestInv, Search
  <2>4. /\ best' # None /\ best' \in {best, it}
        /\ Priority(best) <= Priority(best') /\ time[best'] <= deadline
        /\ isThinned' \subseteq isThinned \cup {best, it}
        /\ \A i \in isThinned' \ isThinned : Priority(i) <= Priority(best')
    BY <1>2, <1>6, <2>1, <2>2, <2>3 DEF Replace, Drop, Search, None
  <2>5. JustifiedBefore(s)'
    <3>1. \A i \in isThinned' : i < s => i \in isThinned
      BY <1>2, <2>3, <2>4
    <3>2. \A j \in Kept : j < s => j \in Kept'
      BY <1>4, <1>6, <1>2, <2>3
    <3>3. SUFFICES ASSUME NEW i \in isThinned, i < s
                   PROVE  \E j \in Kept' : j < s /\ Justifies(j, i)'
      BY <3>1 DEF JustifiedBefore
    <3>4. PICK j \in Kept : j < s /\ Justifies(j, i)
      BY <2>2, <3>3 DEF Search, JustifiedBefore
    <3>5. j \in Members /\ i \in Members
      BY <1>3, <1>5, <3>3
    <3> QED
      BY <1>3, <3>2, <3>4, <3>5
  <2>6. ASSUME NEW i \in isThinned', s <= i
        PROVE  Priority(i)' <= Priority(best)' /\ time[i] <= deadline
    <3>1. i \in Members /\ best' \in Members
      BY <1>2, <1>3, <1>5, <2>3, <2>4
    <3>2. CASE i \in isThinned
      <4>1. Priority(i) <= Priority(best) /\ time[i] <= deadline
        BY <2>2, <2>6, <3>2 DEF Search
      <4> QED
        BY <1>2, <1>3, <2>3, <2>4, <3>1, <4>1
    <3>3. CASE i \in {best, it} /\ i \notin isThinned
      BY <1>2, <1>3, <2>1, <2>2, <2>4, <2>6, <3>1, <3>3 DEF Search
    <3> QED
      BY <2>4, <2>6, <3>2, <3>3
  <2>7. Search(s)'
    <3>1. s <= best'
      BY <1>2, <2>3, <2>4
    <3> QED
      BY <1>2, <2>1, <2>2, <2>4, <2>5, <2>6, <3>1 DEF Search
  <2>8. s \in Passed'
    BY <1>2, <1>3
  <2> QED
    BY <2>4, <2>7, <2>8
<1>7. ASSUME Skip \/ Retain
      PROVE  \A i \in isThinned : \E j \in Kept : j < it /\ Justifies(j, i)' /\ j \in Kept'
  <2>1. SUFFICES ASSUME NEW i \in isThinned
                 PROVE  \E j \in Kept : j < it /\ Justifies(j, i)' /\ j \in Kept'
    OBVIOUS
  <2>2. PICK j \in Kept : Justifies(j, i)
    BY <1>1, AllJustified
  <2>3. j \in Members /\ i \in Members /\ j < it /\ j \in Kept'
    BY <1>3, <1>4, <1>5, <1>7, <2>1
  <2> QED
    BY <1>3, <2>2, <2>3
<1>8. CASE Skip
  <2>1. /\ best' = None /\ deadline' = Due /\ isThinned' = isThinned \cup {it} /\ Due > time[it]
    BY <1>3, <1>8 DEF Skip
  <2>2. deadline' = time[1] \/ \E j \in Kept : deadline' = time[j] + settings.minSpacing
    <3>1. CASE best = None
      BY <1>1, <2>1, <3>1 DEF ReasonInv, Due
    <3>2. CASE best # None
      <4>1. best \in Kept
        BY <1>1, <3>2 DEF TemporalInv, PassInv, InPass, BestInv
      <4> QED
        BY <1>0, <1>1, <2>1, <3>2, <4>1, DueIs
    <3> QED
      BY <3>1, <3>2
  <2>3. 1 \in Members /\ time[1] <= time[it]
    BY <1>2 DEF TemporalInv, Ascending
  <2>4. PICK j \in Kept : Due = time[j] + settings.minSpacing
    BY <1>2, <2>1, <2>2, <2>3
  <2>5. j \in Members /\ j < it /\ time[j] <= time[it] /\ j \in Kept' /\ time[j] \in Int
    BY <1>2, <1>3, <1>4, <1>5, <1>8
  <2>6. time[it] - time[j] \in 0 .. settings.minSpacing - 1
    <3>1. time[it] - time[j] >= 0 /\ time[it] - time[j] < settings.minSpacing
      BY <1>2, <2>1, <2>4, <2>5
    <3>2. time[it] - time[j] \in Int /\ settings.minSpacing \in Int
      BY <1>2, <2>5
    <3> QED
      BY <3>1, <3>2, CloserThan
  <2>7. PICK x \in Members : x = it
    BY <1>2
  <2>9. Justifies(j, x)'
    <3>1. Justifies(j, x)
      BY <2>6, <2>7 DEF Justifies
    <3> QED
      BY <1>3, <2>5, <3>1
  <2>8. JustifiedBefore(it)'
    <3>1. SUFFICES ASSUME NEW i \in isThinned'
                   PROVE  \E k \in Kept' : k < it + 1 /\ Justifies(k, i)'
      BY <1>3 DEF JustifiedBefore
    <3>2. CASE i = it
      <4>1. j < it + 1
        BY <1>2, <2>5
      <4> QED
        BY <2>5, <2>7, <2>9, <3>2, <4>1
    <3>3. CASE i \in isThinned
      <4>1. PICK k \in Kept : k < it /\ Justifies(k, i)' /\ k \in Kept'
        BY <1>7, <1>8, <3>3
      <4>2. k < it + 1
        BY <1>2, <1>3, <1>5, <4>1
      <4> QED
        BY <4>1, <4>2
    <3> QED
      BY <2>1, <3>1, <3>2, <3>3
  <2> QED
    BY <2>1, <2>4, <2>5, <2>8
<1>9. CASE Retain
  <2>1. /\ best' = it /\ best' # None /\ isThinned' = isThinned
        /\ deadline' = time[it] + settings.tolerance
    <3>1. Advance(time[it], settings.tolerance) = time[it] + settings.tolerance
      <4>1. time[it] \in Int /\ settings.tolerance \in Int
        BY <1>2
      <4>2. Advance(time[it], settings.tolerance)
              = IF pass = "backwards" THEN time[it] - settings.tolerance ELSE time[it] + settings.tolerance
        BY <4>1, AdvanceIs
      <4> QED
        BY <1>1, <4>2
    <3>2. it # None
      BY <1>2 DEF None
    <3> QED
      BY <1>9, <3>1, <3>2 DEF Retain
  <2>2. JustifiedBefore(best)'
    <3>1. SUFFICES ASSUME NEW i \in isThinned
                   PROVE  \E k \in Kept' : k < it /\ Justifies(k, i)'
      BY <2>1 DEF JustifiedBefore
    <3> QED
      BY <1>7, <1>9
  <2>3. \A i \in isThinned : ~(it <= i)
    BY <1>2, <1>3, <1>5
  <2>4. it <= it /\ time[it] <= time[it] + settings.tolerance /\ it \in 1 .. it
    BY <1>2
  <2>5. \E s \in Passed' : Search(s)'
    <3>1. PICK s \in Passed' : s = it
      BY <1>3, <2>4
    <3>2. s <= best' /\ deadline' = time[s]' + settings.tolerance' /\ time[best]' <= deadline'
      BY <1>2, <2>1, <2>4, <3>1
    <3>3. JustifiedBefore(s)'
      BY <2>1, <2>2, <3>1 DEF JustifiedBefore
    <3>4. Search(s)'
      BY <2>1, <2>3, <3>1, <3>2, <3>3 DEF Search
    <3> QED
      BY <3>4
  <2> QED
    BY <2>1, <2>5
<1> QED
  BY <1>6, <1>8, <1>9 DEF Look

LEMMA ReasonStep ==
  ASSUME TemporalInv, TemporalInv', [TemporalNext]_temporalVars, ReasonInv, ThinnedForAReason
  PROVE  ReasonInv' /\ ThinnedForAReason'
<1>1. CASE ThinForwards
  <2>1. /\ pass' = "forwards" /\ it' = 1 /\ best' = None /\ deadline' = time[1] /\ isThinned' = {}
        /\ UNCHANGED <<size, time, settings>>
    BY <1>1 DEF ThinForwards, Begin, group, TemporalInv, RangeInv
  <2> QED
    BY <2>1 DEF ReasonInv, JustifiedBefore, ThinnedForAReason
<1>2. CASE ThinFromSeed \/ ThinBackwards
  BY <1>2 DEF ThinFromSeed, ThinBackwards, Begin, group, ReasonInv, ThinnedForAReason
<1>3. CASE Look
  <2>1. pass' # "done"
    BY <1>3 DEF Look, Replace, Drop, Skip, Retain, Step
  <2> QED
    BY <1>3, <2>1, LookReasonInv DEF ThinnedForAReason
<1>4. CASE Return
  <2>1. /\ pass' = "done" /\ it \notin Members
        /\ UNCHANGED <<size, time, importance, settings, isThinned>>
    BY <1>4 DEF Return, InRange, group
  <2>2. SUFFICES ASSUME ~settings.hasSeed PROVE ThinnedForAReason'
    BY <2>1 DEF ThinnedForAReason, ReasonInv
  <2>3. pass = "forwards" /\ Kept = Retained
    <3>1. pass = "forwards" /\ it \in 1 .. size + 1 /\ Passed = 1 .. it - 1
      BY <1>4, <2>2 DEF Return, TemporalInv, RangeInv, First, Passed
    <3>2. TemporalTypeOK
      BY DEF TemporalInv
    <3>3. Members = 1 .. size /\ size \in Nat
      BY <3>2, Typed
    <3>4. it = size + 1
      BY <2>1, <3>1, <3>3
    <3> QED
      BY <3>1, <3>3, <3>4 DEF Kept, Retained
  <2>4. \A i \in isThinned : \E j \in Retained : Justifies(j, i)
    BY <2>2, <2>3, AllJustified
  <2>5. Retained' = Retained /\ \A i \in isThinned, j \in Retained : Justifies(j, i)' <=> Justifies(j, i)
    BY <2>1 DEF Retained, Members, Justifies, Priority
  <2>6. \A i \in isThinned' : \E j \in Retained' : Justifies(j, i)'
    BY <2>1, <2>4, <2>5
  <2> QED
    BY <2>6 DEF ThinnedForAReason, Justifies
<1>5. CASE TemporalStopped \/ UNCHANGED temporalVars
  <2>1. UNCHANGED <<size, time, importance, settings, pass, it, best, deadline, isThinned, seedObs>>
    BY <1>5 DEF TemporalStopped, temporalVars, group
  <2>2. UNCHANGED <<First, Passed, Kept, Members, Retained>>
    BY <2>1 DEF First, Passed, Kept, Members, Retained
  <2> QED
    BY <2>1, <2>2 DEF ReasonInv, Search, JustifiedBefore, Justifies, Priority, ThinnedForAReason
<1> QED
  BY <1>1, <1>2, <1>3, <1>4, <1>5 DEF TemporalNext, Look

(* Without a seed time no observation is thinned for nothing, however often *)
(* the observation it was thinned for has itself been replaced since.       *)
THEOREM ThinnedWithReason == TemporalSpec => []ThinnedForAReason
<1>1. TemporalInit => ReasonInv /\ ThinnedForAReason
  BY DEF TemporalInit, ReasonInv, ThinnedForAReason
<1>2. TemporalInv /\ TemporalInv' /\ [TemporalNext]_temporalVars /\ ReasonInv /\ ThinnedForAReason
        => ReasonInv' /\ ThinnedForAReason'
  BY ReasonStep
<1> QED
  BY <1>1, <1>2, TemporalInvariant, PTL DEF TemporalSpec

-----------------------------------------------------------------------------
(* MedianThinning.                                                         *)

(* The inductive invariant: what is retained in a bin follows from whether   *)
(* its group has been looked at.                                           *)

MedianTypes ==
  /\ value \in [BinnedObs -> Values \cup {NotMeasured}]
  /\ selected \subseteq BinnedObs /\ valid \subseteq selected
  /\ bin \in [BinnedObs -> Bins]
  /\ minNumObsPerBin \in Nat \ {0}
  /\ phase \in {"init", "bins"}
  /\ groupsLeft \subseteq multiElementGroups

BinsInv == phase = "bins" => \A b \in Bins :
  RetainedIn(b) = IF b \in multiElementGroups \ groupsLeft /\ Enough(b)
                    THEN {groupIn(b)[BestIndex(b)]}
                    ELSE IF minNumObsPerBin < 2 THEN InBin(b) ELSE {}

MedianInv == MedianTypes /\ BinsInv

LEMMA FirstOfLeast ==
  ASSUME NEW n \in Nat \ {0}, NEW d \in [1 .. n -> Nat]
  PROVE  \E k \in 1 .. n : \A l \in 1 .. n : d[k] < d[l] \/ (d[k] = d[l] /\ k <= l)
<1> DEFINE D == {d[k] : k \in 1 .. n}
<1>1. D \in SUBSET Nat /\ D # {}
  BY 1 \in 1 .. n
<1>2. PICK x \in D : \A y \in D : x <= y
  <2> HIDE DEF D
  <2> QED
    BY <1>1, LeastMember
<1> DEFINE K == {k \in 1 .. n : d[k] = x}
<1>3. K \in SUBSET Nat /\ K # {}
  OBVIOUS
<1>4. PICK k \in K : \A l \in K : k <= l
  <2> HIDE DEF K
  <2> QED
    BY <1>3, LeastMember
<1>5. \A l \in 1 .. n : d[l] \in Nat /\ d[k] <= d[l] /\ (d[l] = d[k] => k <= l)
  BY <1>2, <1>4
<1>6. k \in 1 .. n /\ d[k] \in Nat
  OBVIOUS
<1>7. \A l \in 1 .. n : d[k] < d[l] \/ (d[k] = d[l] /\ k <= l)
  BY <1>5, <1>6
<1> HIDE DEF K, D
<1> QED
  BY <1>6, <1>7

LEMMA PresentTypes ==
  ASSUME MedianTypes, NEW b \in Bins
  PROVE  /\ InBin(b) \subseteq BinnedObs /\ Present(b) \subseteq InBin(b)
         /\ IsFiniteSet(InBin(b)) /\ IsFiniteSet(Present(b))
         /\ Cardinality(InBin(b)) \in Nat /\ Cardinality(Present(b)) \in Nat
         /\ Cardinality(Present(b)) <= Cardinality(InBin(b))
         /\ InBin(b) \subseteq Int
         /\ \A i \in Present(b) : i \in Int /\ value[i] \in Nat /\ value[i] % 2 = 0
<1>1. InBin(b) \subseteq BinnedObs /\ Present(b) \subseteq InBin(b)
  BY DEF InBin, Present, MedianTypes
<1>2. BinnedObs \subseteq Int /\ IsFiniteSet(BinnedObs)
  BY MedianAssumption
<1>3. IsFiniteSet(InBin(b)) /\ IsFiniteSet(Present(b))
  BY <1>1, <1>2, FS_Subset
<1>4. \A i \in Present(b) : value[i] \in Values
  BY <1>1 DEF Present, MedianTypes
<1> QED
  BY <1>1, <1>2, <1>3, <1>4, FS_Subset, FS_CardinalityType, MedianAssumption

(* The group, and the observations of it that are not missing, in order.    *)
LEMMA GroupsAreListed ==
  ASSUME MedianTypes, NEW b \in Bins
  PROVE  Lists(groupIn(b), InBin(b)) /\ Lists(obsgroup(b), Present(b))
<1>1. Present(b) \subseteq Int
  BY PresentTypes
<1>2. Lists(Ordered(InBin(b), <), InBin(b))
  BY PresentTypes, AscendingLists DEF Ordered
<1>3. Lists(Ordered(Present(b), <), Present(b))
  BY <1>1, PresentTypes, AscendingLists DEF Ordered
<1> QED
  BY <1>2, <1>3 DEF groupIn, obsgroup

(* The two observations in the middle, by value.                           *)
Middle(b, k) == Ordered(Present(b), SortsBefore)[k + 1]

LEMMA MiddleHasRank ==
  ASSUME MedianTypes, NEW b \in Bins,
         NEW k \in 0 .. Cardinality(Present(b)) - 1
  PROVE  /\ Middle(b, k) \in Present(b)
         /\ Cardinality({j \in Present(b) : SortsBefore(j, Middle(b, k))}) = k
<1> DEFINE S == Present(b)
           R == {p \in S \X S : SortsBefore(p[1], p[2])}
           x == Middle(b, k)
<1>1. \A i, j \in S : <<i, j>> \in R <=> SortsBefore(i, j)
  OBVIOUS
<1>2. IsFiniteSet(S) /\ Cardinality(S) \in Nat /\ \A i \in S : i \in Int /\ value[i] \in Int
  BY PresentTypes
<1>3. Orders(R, S)
  <2> HIDE DEF R, S
  <2> QED
    BY <1>1, <1>2 DEF Orders, SortsBefore
<1>4. \A i \in S : Below(S, R, i) = {j \in S : SortsBefore(j, i)}
  <2> HIDE DEF R, S
  <2> QED
    BY <1>1 DEF Below
<1>5. k + 1 \in 1 .. Cardinality(S) /\ (k + 1) - 1 = k
  BY <1>2
<1>6. x = CHOOSE i \in S : Cardinality({j \in S : SortsBefore(j, i)}) = (k + 1) - 1
  BY <1>5 DEF Middle, Ordered
<1>7. x = CHOOSE i \in S : Cardinality(Below(S, R, i)) = (k + 1) - 1
  <2> HIDE DEF R, x
  <2> QED
    BY <1>4, <1>6
<1>8. x \in S /\ Cardinality(Below(S, R, x)) = (k + 1) - 1
  <2> HIDE DEF R, x, S
  <2> QED
    BY <1>2, <1>3, <1>5, <1>7, RankOfListed
<1> QED
  BY <1>4, <1>5, <1>8

(* What is chosen in a bin is one of its observations, and when none of     *)
(* them is missing and abs is exact it is at the median.                    *)
LEMMA BestIndexExists ==
  ASSUME MedianTypes, NEW b \in Bins, Present(b) # {}
  PROVE  LET n == Cardinality(Present(b))
         IN /\ n \in Nat \ {0} /\ BestIndex(b) \in 1 .. n
            /\ Median(b) \in Int
            /\ \A l \in 1 .. n : FromMedian(b, BestIndex(b)) <= FromMedian(b, l)
            /\ Median(b) = (value[Middle(b, (n - 1) \div 2)] + value[Middle(b, n \div 2)]) \div 2
<1> DEFINE n == Cardinality(Present(b))
           d == [k \in 1 .. n |-> FromMedian(b, k)]
<1>1. n \in Nat \ {0}
  BY PresentTypes, FS_EmptySet
<1>2. Median(b) = (value[Middle(b, (n - 1) \div 2)] + value[Middle(b, n \div 2)]) \div 2
  BY DEF Median, Middle
<1>3. (n - 1) \div 2 \in 0 .. n - 1 /\ n \div 2 \in 0 .. n - 1
  <2> HIDE DEF n
  <2> QED
    BY <1>1
<1>4. Median(b) \in Int
  <2>1. Middle(b, (n - 1) \div 2) \in Present(b) /\ Middle(b, n \div 2) \in Present(b)
    BY <1>3, MiddleHasRank
  <2>2. value[Middle(b, (n - 1) \div 2)] \in Int /\ value[Middle(b, n \div 2)] \in Int
    BY <2>1, PresentTypes
  <2> QED
    BY <1>2, <2>2
<1>5. \A k \in 1 .. n : value[obsgroup(b)[k]] \in Int
  BY GroupsAreListed, PresentTypes DEF Lists
<1>6. \A k \in 1 .. n : FromMedian(b, k) \in Nat
  <2> SUFFICES ASSUME NEW k \in 1 .. n PROVE FromMedian(b, k) \in Nat
    OBVIOUS
  <2> DEFINE exact == Abs(value[obsgroup(b)[k]] - Median(b))
  <2>1. exact \in Nat
    <3> HIDE DEF n
    <3> QED
      BY <1>4, <1>5 DEF Abs
  <2> HIDE DEF exact
  <2>2. Unit \in Nat \ {0} /\ exact \div Unit \in Nat
    BY <2>1, MedianAssumption
  <2> QED
    BY <2>1, <2>2 DEF exact, FromMedian
<1>7. d \in [1 .. n -> Nat] /\ \A k \in 1 .. n : d[k] = FromMedian(b, k)
  <2> HIDE DEF n
  <2> QED
    BY <1>6
<1>8. \E k \in 1 .. n : \A l \in 1 .. n : d[k] < d[l] \/ (d[k] = d[l] /\ k <= l)
  <2> HIDE DEF d, n
  <2> QED
    BY <1>1, <1>7, FirstOfLeast
<1>9. \E k \in 1 .. n : \A l \in 1 .. n :
        FromMedian(b, k) < FromMedian(b, l) \/ (FromMedian(b, k) = FromMedian(b, l) /\ k <= l)
  <2> HIDE DEF d, n
  <2> QED
    BY <1>7, <1>8
<1>10. /\ BestIndex(b) \in 1 .. n
       /\ \A l \in 1 .. n : \/ FromMedian(b, BestIndex(b)) < FromMedian(b, l)
                            \/ FromMedian(b, BestIndex(b)) = FromMedian(b, l) /\ BestIndex(b) <= l
  <2>1. BestIndex(b) = CHOOSE k \in 1 .. n : \A l \in 1 .. n :
          FromMedian(b, k) < FromMedian(b, l) \/ (FromMedian(b, k) = FromMedian(b, l) /\ k <= l)
    BY DEF BestIndex
  <2> HIDE DEF n
  <2> QED
    BY <1>9, <2>1
<1> HIDE DEF d
<1>11. \A l \in 1 .. n : FromMedian(b, BestIndex(b)) <= FromMedian(b, l)
  <2> HIDE DEF n
  <2> QED
    BY <1>6, <1>10
<1> QED
  BY <1>1, <1>2, <1>4, <1>10, <1>11

LEMMA ChosenIsInBin ==
  ASSUME MedianTypes, NEW b \in Bins, Present(b) # {}
  PROVE  groupIn(b)[BestIndex(b)] \in InBin(b)
<1>1. BestIndex(b) \in 1 .. Cardinality(Present(b))
  BY BestIndexExists
<1>2. BestIndex(b) \in 1 .. Cardinality(InBin(b))
  BY <1>1, PresentTypes
<1> QED
  BY <1>2, GroupsAreListed DEF Lists

LEMMA ChosenIsMedian ==
  ASSUME MedianTypes, ~truncates, NEW b \in Bins, Present(b) # {}
  PROVE  IsMedian(obsgroup(b)[BestIndex(b)], b)
<1> DEFINE S  == Present(b)
           n  == Cardinality(S)
           lo == Middle(b, (n - 1) \div 2)
           hi == Middle(b, n \div 2)
           m  == Median(b)
           x  == obsgroup(b)[BestIndex(b)]
<1>1. n \in Nat \ {0} /\ m = (value[lo] + value[hi]) \div 2 /\ m \in Int /\ BestIndex(b) \in 1 .. n
  BY BestIndexExists
<1>2. (n - 1) \div 2 \in 0 .. n - 1 /\ n \div 2 \in 0 .. n - 1
  <2> HIDE DEF n
  <2> QED
    BY <1>1
<1>3. /\ lo \in S /\ Cardinality({j \in S : SortsBefore(j, lo)}) = (n - 1) \div 2
      /\ hi \in S /\ Cardinality({j \in S : SortsBefore(j, hi)}) = n \div 2
  BY <1>2, MiddleHasRank
<1>4. IsFiniteSet(S) /\ \A i \in S : i \in Int /\ value[i] \in Nat /\ value[i] % 2 = 0
  BY PresentTypes
<1>5. x \in S
  BY <1>1, GroupsAreListed DEF Lists
<1>6. \A j \in S : Abs(value[x] - m) <= Abs(value[j] - m)
  <2> SUFFICES ASSUME NEW j \in S PROVE Abs(value[x] - m) <= Abs(value[j] - m)
    OBVIOUS
  <2>1. PICK l \in 1 .. n : obsgroup(b)[l] = j
    <3>1. Lists(obsgroup(b), Present(b))
      BY GroupsAreListed
    <3> QED
      BY <3>1 DEF Lists
  <2> QED
    BY <2>1, BestIndexExists DEF FromMedian
<1> HIDE DEF lo, hi, m, x, S
<1>7. value[lo] <= value[hi]
  <2>1. SUFFICES ASSUME value[hi] < value[lo] PROVE FALSE
    BY <1>3, <1>4
  <2> DEFINE T == {j \in S : SortsBefore(j, lo)}
             U == {j \in S : SortsBefore(j, hi)}
  <2>2. U \subseteq T /\ hi \in T /\ hi \notin U
    BY <1>3, <1>4, <2>1 DEF SortsBefore
  <2>3. IsFiniteSet(T) /\ IsFiniteSet(U)
    BY <1>4, FS_Subset
  <2>4. /\ Cardinality(T) = (n - 1) \div 2 /\ Cardinality(U) = n \div 2
    BY <1>3
  <2>5. Cardinality(U) <= Cardinality(T) /\ Cardinality(U) # Cardinality(T)
    <3> HIDE DEF T, U
    <3> QED
      BY <2>2, <2>3, FS_Subset
  <2> HIDE DEF T, U, n
  <2> QED
    BY <1>1, <2>4, <2>5
<1>8. value[lo] <= value[x] /\ value[x] <= value[hi]
  <2>1. 2 * m = value[lo] + value[hi]
    <3>1. value[lo] \in Nat /\ value[lo] % 2 = 0 /\ value[hi] \in Nat /\ value[hi] % 2 = 0
      BY <1>3, <1>4
    <3> QED
      BY <1>1, <3>1
  <2>2. value[lo] \in Int /\ value[hi] \in Int /\ value[x] \in Int
    BY <1>3, <1>4, <1>5
  <2>3. Abs(value[x] - m) <= Abs(value[lo] - m)
    BY <1>3, <1>6
  <2> QED
    BY <1>1, <1>7, <2>1, <2>2, <2>3 DEF Abs
<1>9. 2 * Cardinality({j \in S : value[j] < value[x]}) <= n
  <2> DEFINE T == {j \in S : value[j] < value[x]}
             U == {j \in S : SortsBefore(j, hi)}
  <2>1. T \subseteq U
    BY <1>3, <1>4, <1>5, <1>8 DEF SortsBefore
  <2>2. IsFiniteSet(U)
    BY <1>4, FS_Subset
  <2>3. Cardinality(U) = n \div 2
    BY <1>3
  <2>4. Cardinality(T) <= Cardinality(U) /\ Cardinality(T) \in Nat
    <3> HIDE DEF T, U
    <3> QED
      BY <2>1, <2>2, FS_Subset, FS_CardinalityType
  <2> HIDE DEF T, U, n
  <2>5. 2 * Cardinality(T) <= n
    BY <1>1, <2>3, <2>4
  <2> QED
    BY <2>5 DEF T
<1>10. 2 * Cardinality({j \in S : value[j] > value[x]}) <= n
  <2> DEFINE T == {j \in S : value[j] > value[x]}
             U == {j \in S : SortsBefore(j, lo)}
             V == (S \ U) \ {lo}
  <2>1. T \subseteq V
    BY <1>3, <1>4, <1>5, <1>8 DEF SortsBefore
  <2>2. lo \notin U /\ lo \in S
    BY <1>3, <1>4 DEF SortsBefore
  <2>3. Cardinality(U) = (n - 1) \div 2
    BY <1>3
  <2>4. U \subseteq S
    OBVIOUS
  <2>5. IsFiniteSet(V) /\ Cardinality(V) = n - (n - 1) \div 2 - 1
    <3> HIDE DEF U
    <3>1. IsFiniteSet(S \ U) /\ Cardinality(S \ U) = n - (n - 1) \div 2
      <4>1. S \cap U = U
        BY <2>4
      <4>2. IsFiniteSet(S \ U) /\ Cardinality(S \ U) = Cardinality(S) - Cardinality(S \cap U)
        BY <1>4, FS_Difference
      <4> QED
        BY <2>3, <4>1, <4>2
    <3>2. lo \in S \ U
      BY <2>2
    <3> QED
      BY <3>1, <3>2, FS_RemoveElement
  <2>6. Cardinality(T) <= Cardinality(V) /\ Cardinality(T) \in Nat
    <3> HIDE DEF T, V
    <3> QED
      BY <2>1, <2>5, FS_Subset, FS_CardinalityType
  <2> HIDE DEF T, U, V, n
  <2>7. 2 * Cardinality(T) <= n
    BY <1>1, <2>5, <2>6
  <2> QED
    BY <2>7 DEF T
<1> QED
  BY <1>9, <1>10 DEF IsMedian, S, x

(* What a bin chooses depends on what is given only.                       *)
LEMMA ChoicesKept ==
  ASSUME UNCHANGED <<value, valid, bin, minNumObsPerBin, truncates>>, NEW b \in Bins
  PROVE  /\ InBin(b)' = InBin(b) /\ Enough(b)' = Enough(b)
         /\ (groupIn(b)[BestIndex(b)])' = groupIn(b)[BestIndex(b)]
<1>1. InBin(b)' = InBin(b) /\ Present(b)' = Present(b)
  BY DEF InBin, Present
<1>2. Enough(b)' = Enough(b)
  BY <1>1 DEF Enough
<1>3. groupIn(b)' = groupIn(b) /\ obsgroup(b)' = obsgroup(b)
  BY DEF InBin, Present, groupIn, obsgroup, Ordered
<1>4. Median(b)' = Median(b)
  BY DEF InBin, Present, Ordered, Median, SortsBefore
<1>5. \A k : FromMedian(b, k)' = FromMedian(b, k)
  BY <1>3, <1>4 DEF FromMedian, Abs
<1>6. BestIndex(b)' = BestIndex(b)
  BY <1>1, <1>5 DEF BestIndex
<1> QED
  BY <1>1, <1>2, <1>3, <1>6

LEMMA ThinBinInv == ASSUME MedianInv, ThinBin PROVE MedianInv'
<1>1. PICK c \in groupsLeft :
        /\ groupsLeft' = groupsLeft \ {c}
        /\ thinnedInBins' = IF Enough(c)
             THEN (thinnedInBins \cup InBin(c)) \ {groupIn(c)[BestIndex(c)]}
             ELSE thinnedInBins
  BY DEF ThinBin
<1>2. /\ UNCHANGED <<value, selected, valid, bin, minNumObsPerBin, truncates, phase>> /\ phase = "bins"
      /\ multiElementGroups' = multiElementGroups
  BY DEF ThinBin, multiElementGroups, InBin
<1>3. MedianTypes'
  BY <1>1, <1>2 DEF MedianInv, MedianTypes
<1>4. \A b \in Bins : /\ InBin(b)' = InBin(b) /\ Enough(b)' = Enough(b)
                      /\ (groupIn(b)[BestIndex(b)])' = groupIn(b)[BestIndex(b)]
  BY <1>2, ChoicesKept
<1>5. c \in Bins /\ c \in multiElementGroups
  BY DEF MedianInv, MedianTypes, multiElementGroups
<1>6. Enough(c) => groupIn(c)[BestIndex(c)] \in InBin(c)
  <2> SUFFICES ASSUME Enough(c) PROVE groupIn(c)[BestIndex(c)] \in InBin(c)
    OBVIOUS
  <2>1. minNumObsPerBin \in Nat \ {0} /\ Cardinality(Present(c)) >= minNumObsPerBin
    BY DEF Enough, MedianInv, MedianTypes
  <2>2. Present(c) # {}
    <3>1. Cardinality(Present(c)) # 0
      BY <1>5, <2>1, PresentTypes DEF MedianInv
    <3> QED
      BY <3>1, FS_EmptySet
  <2> QED
    BY <1>5, <2>2, ChosenIsInBin DEF MedianInv
<1>7. ASSUME NEW b \in Bins
      PROVE  InBin(b) \ thinnedInBins' =
               IF b \in multiElementGroups \ groupsLeft' /\ Enough(b)
                 THEN {groupIn(b)[BestIndex(b)]}
                 ELSE IF minNumObsPerBin < 2 THEN InBin(b) ELSE {}
  <2>1. CASE b = c /\ Enough(c)
    BY <1>1, <1>5, <1>6, <2>1
  <2>2. CASE ~Enough(c)
    <3>1. RetainedIn(b) = InBin(b) \ thinnedInBins'
      BY <1>1, <2>2 DEF RetainedIn
    <3>2. b \in multiElementGroups \ groupsLeft /\ Enough(b) <=>
            b \in multiElementGroups \ groupsLeft' /\ Enough(b)
      BY <1>1, <2>2
    <3> QED
      BY <1>2, <3>1, <3>2 DEF MedianInv, BinsInv
  <2>3. CASE b # c /\ Enough(c)
    <3>1. InBin(b) \cap InBin(c) = {}
      BY <2>3 DEF InBin
    <3>2. RetainedIn(b) = InBin(b) \ thinnedInBins'
      BY <1>1, <1>6, <2>3, <3>1 DEF RetainedIn
    <3>3. b \in groupsLeft <=> b \in groupsLeft'
      BY <1>1, <2>3
    <3> QED
      BY <1>2, <3>2, <3>3 DEF MedianInv, BinsInv
  <2> QED
    BY <2>1, <2>2, <2>3
<1>8. BinsInv'
  BY <1>2, <1>4, <1>7 DEF BinsInv, RetainedIn
<1> QED
  BY <1>3, <1>8 DEF MedianInv

LEMMA InitialiseInv == ASSUME MedianInv, Initialise PROVE MedianInv'
<1>1. /\ UNCHANGED <<value, selected, valid, bin, minNumObsPerBin>>
      /\ phase' = "bins" /\ groupsLeft' = multiElementGroups
      /\ thinnedInBins' = IF minNumObsPerBin < 2 THEN {} ELSE BinnedObs
      /\ multiElementGroups' = multiElementGroups
  BY DEF Initialise, multiElementGroups, InBin
<1>2. MedianTypes'
  BY <1>1 DEF MedianInv, MedianTypes
<1>3. \A b \in Bins : InBin(b)' = InBin(b) /\ InBin(b) \subseteq BinnedObs
  BY <1>1 DEF InBin, MedianInv, MedianTypes
<1>4. BinsInv'
  BY <1>1, <1>3 DEF BinsInv, RetainedIn
<1> QED
  BY <1>2, <1>4 DEF MedianInv

LEMMA NextMedianInv == MedianInv /\ [MedianNext]_medianVars => MedianInv'
<1> SUFFICES ASSUME MedianInv, [MedianNext]_medianVars PROVE MedianInv'
  OBVIOUS
<1>1. CASE Initialise
  BY <1>1, InitialiseInv
<1>2. CASE ThinBin
  BY <1>2, ThinBinInv
<1>3. CASE UNCHANGED medianVars
  <2>1. UNCHANGED <<value, selected, valid, bin, minNumObsPerBin, truncates, phase, groupsLeft,
                    thinnedInBins>>
    BY <1>3 DEF medianVars
  <2>2. MedianTypes'
    BY <2>1 DEF MedianInv, MedianTypes, multiElementGroups, InBin
  <2>3. \A b \in Bins : /\ InBin(b)' = InBin(b) /\ Enough(b)' = Enough(b)
                        /\ (groupIn(b)[BestIndex(b)])' = groupIn(b)[BestIndex(b)]
    BY <2>1, ChoicesKept
  <2>4. multiElementGroups' = multiElementGroups
    BY <2>1 DEF multiElementGroups, InBin
  <2>5. \A b \in Bins : RetainedIn(b)' = RetainedIn(b)
    BY <2>1, <2>3 DEF RetainedIn
  <2>6. BinsInv'
    BY <2>1, <2>3, <2>4, <2>5 DEF MedianInv, BinsInv
  <2> QED
    BY <2>2, <2>6 DEF MedianInv
<1> QED
  BY <1>1, <1>2, <1>3 DEF MedianNext, MedianStopped

(* In every bin with enough observations, all of them present, one is       *)
(* retained, and it is at the median unless distances to it are truncated  *)
(* to integers; in the others none.                                        *)
THEOREM MedianIsRetained == MedianSpec => []MedianRetained
<1>1. MedianInit => MedianInv
  <2> SUFFICES ASSUME MedianInit PROVE MedianInv
    OBVIOUS
  <2> QED
    BY MedianAssumption DEF MedianInit, MedianInv, MedianTypes, BinsInv
<1>2. MedianInv => MedianRetained
  <2> SUFFICES ASSUME MedianInv, BinsDone, NEW b \in Bins,
                      Present(b) = InBin(b), InBin(b) # {}
               PROVE  IF Cardinality(InBin(b)) >= minNumObsPerBin
                        THEN \E i \in InBin(b) : RetainedIn(b) = {i} /\ (truncates \/ IsMedian(i, b))
                        ELSE RetainedIn(b) = {}
    BY DEF MedianRetained
  <2>0. MedianTypes /\ minNumObsPerBin \in Nat \ {0} /\ Cardinality(InBin(b)) \in Nat
    BY PresentTypes DEF MedianInv, MedianTypes
  <2>1. RetainedIn(b) = IF b \in multiElementGroups /\ Enough(b)
                          THEN {groupIn(b)[BestIndex(b)]}
                          ELSE IF minNumObsPerBin < 2 THEN InBin(b) ELSE {}
    BY DEF MedianInv, BinsInv, BinsDone
  <2>2. Enough(b) <=> Cardinality(InBin(b)) >= minNumObsPerBin
    BY DEF Enough
  <2>3. CASE Enough(b) /\ b \in multiElementGroups
    <3>1. groupIn(b) = obsgroup(b)
      BY DEF groupIn, obsgroup
    <3>2. /\ groupIn(b)[BestIndex(b)] \in InBin(b)
          /\ truncates \/ IsMedian(groupIn(b)[BestIndex(b)], b)
      BY <2>0, <3>1, ChosenIsInBin, ChosenIsMedian
    <3> QED
      BY <2>1, <2>2, <2>3, <3>2
  <2>4. CASE Enough(b) /\ b \notin multiElementGroups
    <3>1. Cardinality(InBin(b)) = 1
      <4>1. ~(Cardinality(InBin(b)) > 1)
        BY <2>4 DEF multiElementGroups
      <4> QED
        BY <2>0, <2>2, <2>4, <4>1
    <3>2. PICK i : InBin(b) = {i}
      BY <3>1, PresentTypes, <2>0, FS_Singleton
    <3>3. RetainedIn(b) = {i}
      BY <2>0, <2>1, <2>2, <2>4, <3>1, <3>2
    <3>4. IsMedian(i, b)
      <4>1. value[i] \in Nat /\ Present(b) = {i}
        BY <2>0, <3>2, PresentTypes
      <4>2. {j \in Present(b) : value[j] < value[i]} = {} /\ {j \in Present(b) : value[j] > value[i]} = {}
        BY <4>1
      <4>3. Cardinality(Present(b)) = 1
        BY <3>1
      <4> QED
        BY <4>2, <4>3, FS_EmptySet DEF IsMedian
    <3> QED
      BY <2>2, <2>4, <3>2, <3>3, <3>4
  <2>5. CASE ~Enough(b)
    <3>1. Cardinality(InBin(b)) # 0
      BY <2>0, PresentTypes, FS_EmptySet
    <3> QED
      BY <2>0, <2>1, <2>2, <2>5, <3>1
  <2> QED
    BY <2>3, <2>4, <2>5
<1> QED
  BY <1>1, <1>2, NextMedianInv, PTL DEF MedianSpec

=============================================================================
