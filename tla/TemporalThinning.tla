---------------------------- MODULE TemporalThinning ----------------------------
(***************************************************************************)
(* TemporalThinner: thins one group of valid observations, in order of     *)
(* time, so that the retained ones are far enough apart.  The group comes  *)
(* from the RecursiveSplitter.                                             *)
(*                                                                         *)
(* Without a seed time the group is thinned in one pass forwards; with one *)
(* in a pass forwards from behind the seed, and one backwards from it.     *)
(* Within a pass the observation retained last stays replaceable by one of *)
(* higher priority until the tolerance has gone by.                        *)
(***************************************************************************)
EXTENDS Integers

CONSTANTS Sizes,       \* the numbers of observations in a group
          Times,       \* dates and times
          Importances, \* values of the priority variable
          Settings     \* the filter's options

None == 0   \* no observation

ASSUME TemporalAssumption ==
  /\ Sizes \subseteq Nat \ {0, 1} /\ Times \subseteq Int /\ Importances \subseteq Int
  /\ \A o \in Settings : /\ o.minSpacing \in Nat /\ o.tolerance \in Nat
                         /\ o.hasPriorities \in BOOLEAN
                         /\ o.hasSeed \in BOOLEAN /\ o.seedTime \in Int

VARIABLES
  size,        \* the number of observations
  time,        \* the time of each, ascending
  importance,  \* the priority of each
  settings,    \* the options
  pass,        \* "start", the pass under way, "done"
  it,          \* the observation looked at next
  best,        \* the observation retained last, as long as it can be replaced
  deadline,    \* of the search for a better one, or for the next one
  isThinned,
  seedObs      \* the observation the passes start from (history)

group == <<size, time, importance, settings>>
temporalVars == <<group, pass, it, best, deadline, isThinned, seedObs>>

Members == 1 .. size

Priority(i) == IF settings.hasPriorities THEN importance[i] ELSE 0

TemporalInit ==
  /\ size \in Sizes /\ settings \in Settings
  /\ time \in [Members -> Times] /\ \A i, j \in Members : i < j => time[i] <= time[j]
  /\ importance \in [Members -> Importances]
  /\ pass = "start"
  /\ it = 1 /\ best = None /\ deadline = time[1]
  /\ isThinned = {}
  /\ seedObs = None

-----------------------------------------------------------------------------
(* findNearest: of two equally near observations the later.                *)

Distance(i) == IF time[i] < settings.seedTime THEN settings.seedTime - time[i]
               ELSE time[i] - settings.seedTime

IsLowerBound(i, t) == /\ \A j \in 1 .. i - 1 : time[j] < t
                      /\ \A j \in i .. size : time[j] >= t

IsNearest(i) ==
  \E k \in 1 .. size + 1 :
    /\ IsLowerBound(k, settings.seedTime)
    /\ \/ k = 1 /\ i = 1
       \/ k = size + 1 /\ i = size
       \/ k \in 2 .. size /\ Distance(k) <= Distance(k - 1) /\ i = k
       \/ k \in 2 .. size /\ Distance(k) > Distance(k - 1) /\ i = k - 1

(* findSeed: with priorities, the first of the observations of highest     *)
(* priority that are within the tolerance of the nearest one.              *)
IsSeed(s) ==
  IF ~settings.hasPriorities THEN s \in Members /\ IsNearest(s)
  ELSE \E n \in Members :
         LET acceptable == {i \in Members : /\ time[i] >= time[n] - settings.tolerance
                                            /\ time[i] <= time[n] + settings.tolerance}
         IN /\ IsNearest(n)
            /\ s \in acceptable
            /\ \A i \in acceptable : \/ Priority(i) < Priority(s)
                                     \/ Priority(i) = Priority(s) /\ s <= i

-----------------------------------------------------------------------------
(* thinRange, forwards with the sign 1 and backwards with the sign -1.     *)

Sign == IF pass = "backwards" THEN -1 ELSE 1

IsPast(a, b)   == Sign * a > Sign * b
Advance(t, d)  == t + Sign * d

(* Mutant: the next deadline counts from the last one.                     *)
NextDeadlineFromDeadline == Advance(deadline, settings.minSpacing)

(* The deadline once the search for a better observation has ended.        *)
NextDeadline == Advance(time[best], settings.minSpacing)

Begin(direction, from, d) ==
  pass' = direction /\ it' = from /\ best' = None /\ deadline' = d

(* identifyThinnedObservations, without a seed time ...                    *)
ThinForwards ==
  /\ pass = "start" /\ ~settings.hasSeed
  /\ Begin("forwards", 1, time[1])
  /\ UNCHANGED <<group, isThinned, seedObs>>

(* Mutant: the first observation after the seed has no deadline to meet.   *)
ThinFromSeedAtOnce ==
  /\ pass = "start" /\ settings.hasSeed
  /\ \E s \in Members :
       /\ IsSeed(s)
       /\ seedObs' = s
       /\ Begin("forwards", s + 1, time[s])
  /\ UNCHANGED <<group, isThinned>>

(* ... and with one.                                                       *)
ThinFromSeed ==
  /\ pass = "start" /\ settings.hasSeed
  /\ \E s \in Members :
       /\ IsSeed(s)
       /\ seedObs' = s
       /\ Begin("forwards", s + 1, time[s] + settings.minSpacing)
  /\ UNCHANGED <<group, isThinned>>

InRange == it \in Members

Replaceable == best # None /\ ~IsPast(time[it], deadline)

Step == it' = it + Sign /\ UNCHANGED <<group, pass, seedObs>>

(* An observation within the tolerance of the one retained last is better   *)
(* or worse than it.                                                       *)
Replace ==
  /\ pass \in {"forwards", "backwards"} /\ InRange
  /\ Replaceable /\ Priority(it) > Priority(best)
  /\ isThinned' = isThinned \cup {best}
  /\ best' = it
  /\ Step /\ UNCHANGED deadline

Drop ==
  /\ pass \in {"forwards", "backwards"} /\ InRange
  /\ Replaceable /\ Priority(it) <= Priority(best)
  /\ isThinned' = isThinned \cup {it}
  /\ Step /\ UNCHANGED <<best, deadline>>

(* The deadline the next observation to be retained has to meet.           *)
Due == IF best = None THEN deadline ELSE NextDeadline

(* Otherwise the search is for the next observation to retain.             *)
Skip ==
  /\ pass \in {"forwards", "backwards"} /\ InRange
  /\ ~Replaceable /\ IsPast(Due, time[it])
  /\ isThinned' = isThinned \cup {it}
  /\ best' = None /\ deadline' = Due
  /\ Step

Retain ==
  /\ pass \in {"forwards", "backwards"} /\ InRange
  /\ ~Replaceable /\ ~IsPast(Due, time[it])
  /\ best' = it
  /\ deadline' = Advance(time[it], settings.tolerance)
  /\ Step /\ UNCHANGED isThinned

(* The pass backwards starts at the seed, which it retains first.          *)
ThinBackwards ==
  /\ pass = "forwards" /\ ~InRange /\ settings.hasSeed
  /\ Begin("backwards", seedObs, time[seedObs])
  /\ UNCHANGED <<group, isThinned, seedObs>>

Return ==
  /\ ~InRange
  /\ pass = "backwards" \/ (pass = "forwards" /\ ~settings.hasSeed)
  /\ pass' = "done"
  /\ UNCHANGED <<group, it, best, deadline, isThinned, seedObs>>

TemporalStopped == pass = "done" /\ UNCHANGED temporalVars

TemporalNext ==
  \/ ThinForwards \/ ThinFromSeed
  \/ Replace \/ Drop \/ Skip \/ Retain
  \/ ThinBackwards \/ Return
  \/ TemporalStopped

TemporalSpec == TemporalInit /\ [][TemporalNext]_temporalVars

-----------------------------------------------------------------------------
(* Properties.                                                             *)

TemporalTypeOK ==
  /\ size \in Sizes /\ settings \in Settings
  /\ time \in [Members -> Times] /\ importance \in [Members -> Importances]
  /\ pass \in {"start", "forwards", "backwards", "done"}
  /\ it \in 0 .. size + 1
  /\ best \in {None} \cup Members
  /\ deadline \in Int
  /\ isThinned \subseteq Members
  /\ seedObs \in {None} \cup Members

Retained == Members \ isThinned

(* The option min_spacing: no two retained observations are closer, though  *)
(* any of them may have replaced another one since the next was searched    *)
(* for, and though the seed's neighbours on its two sides are found by two  *)
(* passes that know nothing of each other.                                 *)
SpacingKept ==
  pass = "done" => \A i, j \in Retained : i < j => time[j] - time[i] >= settings.minSpacing

(* Without a seed time no observation is thinned for nothing: there is a    *)
(* retained one within the tolerance on one side or closer than min_spacing *)
(* before it.                                                              *)
ThinnedForAReason ==
  pass = "done" /\ ~settings.hasSeed =>
    \A i \in isThinned : \E j \in Retained :
      \/ time[i] - time[j] \in 0 .. settings.minSpacing - 1
      \/ /\ time[i] - time[j] \in - settings.tolerance .. settings.tolerance
         /\ Priority(i) <= Priority(j)

(* TemporalThinning.cc says of findSeed that it returns the first          *)
(* observation to be retained.                                             *)
SeedRetained == pass = "done" /\ settings.hasSeed => seedObs \in Retained

=============================================================================
