--------------------------- MODULE PoissonDiskThinning ---------------------------
(***************************************************************************)
(* PoissonDiskThinning: retains observations none of which lies in the     *)
(* exclusion volume of another one.                                        *)
(*                                                                         *)
(* All ranks process the same observations, gathered by the ObsAccessor,   *)
(* category by category and, in each, by descending priority; observations *)
(* of equal priority in random order, or ordered by pressure, or in the    *)
(* order of their records.  One coordinate stands for the position in      *)
(* space and time, so that the interior of an exclusion volume is the set  *)
(* of positions closer than the spacing that belongs to the priority.      *)
(***************************************************************************)
EXTENDS Integers, FiniteSets

CONSTANTS Ranks,      \* MPI ranks
          Obs,        \* ids of the valid observations, in the order of the ranks
          Positions,  \* coordinates
          Half,       \* the number of negative values of the type int
          Priorities, \* values of the priority variable
          Spacings,   \* the spacings by priority that may be configured
          Seeds,      \* seeds of the random number generator
          Options     \* the other options

Lowest  == -Half
Highest == Half - 1

ASSUME PoissonAssumption ==
  /\ Half \in Nat \ {0}
  /\ Obs \subseteq Int /\ Positions \subseteq Int
  /\ Priorities \subseteq Lowest .. Highest
  /\ Spacings \subseteq [Priorities -> Nat]
  /\ \A o \in Options :
       /\ o.shuffle \in BOOLEAN /\ o.byCategory \in BOOLEAN
       /\ o.sort \in {"none", "ascending", "descending"}

VARIABLES
  position, priority, record, \* of each observation
  spacing, options,           \* the configuration
  shuffled,  \* what shuffleGroups makes of the order, by the generator's seed
  seed,      \* the seed of each rank's generator
  pc,
  left,      \* observations each rank has not looked at
  retained,  \* each rank's pointIndex, for all categories
  thinned    \* isThinned of each rank

input == <<position, priority, record, spacing, options, shuffled>>
vars  == <<input, seed, pc, left, retained, thinned>>

-----------------------------------------------------------------------------
(* Integers wrap around.                                                   *)
Wrap(i) == ((i - Lowest) % (2 * Half)) + Lowest

(* Mutant: the negative priority.                                          *)
NegativePriority(p) == Wrap(-p)

(* The key priorities are sorted by: -p - lowest + max, in that order.     *)
reverse(p) == Wrap(Wrap(Wrap(-p) - Lowest) + Highest)

(* Category and record are the same here: with the category variable the   *)
(* observations were grouped into records by.                              *)
Category(i) == IF options.byCategory THEN record[i] ELSE 0

(* i is looked at before j.                                                *)
TieBefore(r, i, j) ==
  IF options.shuffle THEN shuffled[seed[r]][i] < shuffled[seed[r]][j]
  ELSE LET key == CASE options.sort = "ascending"  -> [k \in {i, j} |-> position[k]]
                    [] options.sort = "descending" -> [k \in {i, j} |-> -position[k]]
                    [] OTHER                       -> [k \in {i, j} |-> 0]
       IN \/ key[i] < key[j]
          \/ key[i] = key[j] /\ record[i] < record[j]
          \/ key[i] = key[j] /\ record[i] = record[j] /\ i < j

Before(r, i, j) ==
  \/ reverse(priority[i]) < reverse(priority[j])
  \/ reverse(priority[i]) = reverse(priority[j]) /\ TieBefore(r, i, j)

-----------------------------------------------------------------------------
Injective(f) == \A i, j \in DOMAIN f : f[i] = f[j] => i = j

Shuffles == {f \in [Obs -> Obs] : Injective(f)}

Init ==
  /\ options \in Options /\ spacing \in Spacings
  /\ position \in [Obs -> Positions]
  /\ priority \in [Obs -> Priorities]
  /\ record \in [Obs -> {1, 2}]
  /\ IF options.shuffle THEN shuffled \in [Seeds -> Shuffles]
     ELSE shuffled = [s \in Seeds |-> [i \in Obs |-> i]]
  /\ seed \in [Ranks -> Seeds]
  /\ pc = "validate"
  /\ left = [r \in Ranks |-> Obs]
  /\ retained = [r \in Ranks |-> {}] /\ thinned = [r \in Ranks |-> {}]

(* Mutant: nothing is validated.                                           *)
SpacingsNotValidated == TRUE

(* validateSpacings compares every spacing with that of the lowest priority. *)
SpacingsValid ==
  \A p \in Priorities : \E q \in Priorities :
    /\ \A x \in Priorities : q <= x
    /\ spacing[p] <= spacing[q]

ValidateSpacings ==
  /\ pc = "validate"
  /\ pc' = IF SpacingsValid THEN "synchronise" ELSE "threw"
  /\ UNCHANGED <<input, seed, left, retained, thinned>>

(* Mutant: every rank uses its own clock.                                  *)
KeepOwnSeed ==
  /\ pc = "synchronise" /\ pc' = "thin"
  /\ UNCHANGED <<input, seed, left, retained, thinned>>

(* synchroniseRandomNumberGenerators: one seed is broadcast.               *)
SynchroniseRandomNumberGenerators ==
  /\ pc = "synchronise" /\ pc' = "thin"
  /\ IF options.shuffle
       THEN \E s \in Seeds : seed' = [r \in Ranks |-> s]
       ELSE UNCHANGED seed
  /\ UNCHANGED <<input, left, retained, thinned>>

(* j lies in the interior of the exclusion volume of i.                    *)
Close(i, j) ==
  position[i] - position[j] < spacing[priority[i]] /\ position[j] - position[i] < spacing[priority[i]]

Excluded(r, i) ==
  \E j \in retained[r] : Category(j) = Category(i) /\ Close(i, j)

IsNext(r, i) == /\ i \in left[r]
                /\ \A j \in left[r] \ {i} : Category(j) = Category(i) => Before(r, i, j)

(* thinCategory, for the next observation of a category.                   *)
Thin(r, i) ==
  /\ pc = "thin" /\ IsNext(r, i)
  /\ IF Excluded(r, i)
       THEN /\ thinned' = [thinned EXCEPT ![r] = @ \cup {i}]
            /\ UNCHANGED retained
       ELSE /\ retained' = [retained EXCEPT ![r] = @ \cup {i}]
            /\ UNCHANGED thinned
  /\ left' = [left EXCEPT ![r] = @ \ {i}]
  /\ UNCHANGED <<input, seed, pc>>

Stopped == /\ pc = "threw" \/ \A r \in Ranks : left[r] = {}
           /\ UNCHANGED vars

Next == \/ ValidateSpacings \/ SynchroniseRandomNumberGenerators
        \/ \E r \in Ranks, i \in Obs : Thin(r, i)
        \/ Stopped

Spec == Init /\ [][Next]_vars

-----------------------------------------------------------------------------
(* Properties.                                                             *)

TypeOK ==
  /\ pc \in {"validate", "synchronise", "thin", "threw"}
  /\ seed \in [Ranks -> Seeds]
  /\ \A r \in Ranks : /\ left[r] \cup retained[r] \cup thinned[r] = Obs
                      /\ left[r] \cap (retained[r] \cup thinned[r]) = {}
                      /\ retained[r] \cap thinned[r] = {}

Done == pc = "thin" /\ \A r \in Ranks : left[r] = {}

(* Every rank takes the same decisions about all observations, also in      *)
(* random order: otherwise an observation thinned here could be the reason *)
(* why another one is thinned there.                                       *)
RanksAgree == Done => \A q, r \in Ranks : thinned[q] = thinned[r]

(* Whatever the priorities, down to the least and up to the greatest int,   *)
(* an observation is thinned only because of a retained one of its category *)
(* that lies in its exclusion volume and has no lower priority.            *)
ThinnedByBetter ==
  \A r \in Ranks : \A i \in thinned[r] :
    \E j \in retained[r] : /\ Category(j) = Category(i)
                           /\ Close(i, j)
                           /\ priority[j] >= priority[i]

(* PoissonDiskThinningParameters.h: no other observation in the interior of *)
(* the exclusion volume of a retained one is retained at the same time.    *)
ExclusionVolumesRespected ==
  \A r \in Ranks : \A i, j \in retained[r] :
    i # j /\ Category(i) = Category(j) => ~Close(i, j)

(* The same file says of the category variable that, if it is not set and   *)
(* there are records, observations from each record are thinned separately. *)
RecordsThinnedSeparately ==
  \A r \in Ranks : \A i \in thinned[r] :
    \E j \in retained[r] : record[j] = record[i] /\ Close(i, j)

=============================================================================
